------------------------------ MODULE JobWorker ------------------------------
(***************************************************************************)
(* What a WebPWorker promises its owner (src/utils/thread_utils.h): jobs    *)
(* are launched one at a time, each is run exactly once, with the arguments *)
(* it was launched with and in the order of the launches, and the worker is *)
(* never taken down with a job in flight.  Worker.tla, the pthread code,    *)
(* implements this specification.                                           *)
(***************************************************************************)
EXTENDS Sequences

CONSTANT Jobs          \* the arguments (data1, data2) a job can be given

VARIABLES
  up,                  \* the worker's thread is available
  launched,            \* the jobs handed to the worker, oldest first
  done                 \* the jobs the worker has finished, oldest first

vars == <<up, launched, done>>

Busy == launched # done

Init ==
  /\ up = FALSE
  /\ launched = << >>
  /\ done = << >>

Start ==
  /\ ~ up
  /\ up' = TRUE
  /\ UNCHANGED <<launched, done>>

Launch(j) ==
  /\ up
  /\ ~ Busy
  /\ launched' = Append(launched, j)
  /\ UNCHANGED <<up, done>>

Finish ==
  /\ Busy
  /\ done' = launched
  /\ UNCHANGED <<up, launched>>

Stop ==
  /\ up
  /\ ~ Busy
  /\ up' = FALSE
  /\ UNCHANGED <<launched, done>>

Next == Start \/ (\E j \in Jobs : Launch(j)) \/ Finish \/ Stop

SafeSpec == Init /\ [][Next]_vars

\* A launched job is eventually finished, whatever the owner does next.
Spec == SafeSpec /\ WF_vars(Finish)
=============================================================================
