\* Does a future that is late when its HALT comes end its sleep?
SPECIFICATION Spec
CONSTANTS
  Programs <- Late
  Channels = {0}
  MAX_FUTURES = 2
  MAX_COUNTERS = 1
  MAX_MESSAGES = 1
  Modulus = 8
  SizeofInstr = 20
  MaxTime = 2
  MaxQueued = 1
  MaxStarts = 1
INVARIANTS
  NeverForAges
CHECK_DEADLOCK FALSE
