\* Does a start reset the interpreter?
SPECIFICATION Spec
CONSTANTS
  Programs <- Leaving
  Channels = {0}
  MAX_FUTURES = 2
  MAX_COUNTERS = 1
  MAX_MESSAGES = 1
  Modulus = 8
  SizeofInstr = 20
  MaxTime = 1
  MaxQueued = 1
  MaxStarts = 2
PROPERTIES
  StartResets
CHECK_DEADLOCK FALSE
