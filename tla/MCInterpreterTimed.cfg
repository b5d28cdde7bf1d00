\* Programs that halt: futures are met and stops end.
SPECIFICATION FairSpec
CONSTANTS
  Programs <- Timed
  Channels = {0}
  MAX_FUTURES = 2
  MAX_COUNTERS = 1
  MAX_MESSAGES = 1
  Modulus = 8
  SizeofInstr = 20
  MaxTime = 2
  MaxQueued = 1
  MaxStarts = 1
INVARIANTS
  NoOversleep
  TestedIsNonempty
PROPERTIES
  StopEnds
CHECK_DEADLOCK FALSE
