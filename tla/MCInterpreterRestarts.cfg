\* Longer programs, the samples among them, that follow each other on one interpreter.
SPECIFICATION Spec
CONSTANTS
  Programs <- Restarted
  Channels = {0}
  MAX_FUTURES = 2
  MAX_COUNTERS = 1
  MAX_MESSAGES = 1
  Modulus = 8
  SizeofInstr = 20
  MaxTime = 2
  MaxQueued = 1
  MaxStarts = 2
INVARIANTS
  TypeOK
  OnTime
  InsideProgram
CHECK_DEADLOCK FALSE
