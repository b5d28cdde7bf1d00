\* Two users write at the same time.
SPECIFICATION Spec
CONSTANTS
  u1 = u1
  u2 = u2
  Users = {u1, u2}
  Groups <- TwoUsers
  Rmmod = rmmod
  MaxLoads = 2
  MaxStarts = 2
INVARIANTS
  CodeHeld
CHECK_DEADLOCK FALSE
