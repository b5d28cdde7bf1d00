\* One user, or two who write at the same time; the removed module stops for
\* good.
SPECIFICATION FairSpec
CONSTANTS
  u1 = u1
  u2 = u2
  Users = {u1, u2}
  Groups <- MCGroups
  Rmmod = rmmod
  MaxLoads = 3
  MaxStarts = 3
INVARIANTS
  OneOfEach
  BlocksHeld
  NoOrphan
  Settled
PROPERTIES
  StopReturns
  ImplementsSession
CHECK_DEADLOCK FALSE
