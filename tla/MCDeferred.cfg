SPECIFICATION FairSpec
CONSTANTS
  Fns = {f, g, h}
  NoFn = none
  Programs <- MCPrograms
  ListOptions <- MCListOptions
  MaxOps = 4
  Data <- MCData
  Entry <- MCEntry
INVARIANTS
  CallsMade
  Follows
PROPERTIES
  ReadyRuns
CHECK_DEADLOCK FALSE
