CONSTANTS
  Durations <- MCDurations
  Programs <- MCPrograms
  MaxOps = 5
SPECIFICATION FairSpec
INVARIANTS
  QueueRuns
  CompleteOnce
PROPERTIES
  PromiseKept
CHECK_DEADLOCK FALSE
