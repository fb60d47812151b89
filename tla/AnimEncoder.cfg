CONSTANTS
  Options <- MCOptions
  MaxDuration = 3
  MaxSince = 7
  MaxFailures = 1
SPECIFICATION SafeSpec
INVARIANTS
  SlotsSuffice
  TimelineKept
  DisposalAsAssumed
  KeyFrameSpacing
