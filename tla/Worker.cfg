\* Two different jobs, two launches: a launch after a finished job, a launch
\* that has to wait for the previous job, an End with a job in flight.
CONSTANTS
  Jobs = {j1, j2}
  MaxLaunch = 2
SPECIFICATION Spec
INVARIANTS
  NoLostWakeup
  NoUseAfterFree
PROPERTIES
  CallsReturn
  ImplementsJobWorker
