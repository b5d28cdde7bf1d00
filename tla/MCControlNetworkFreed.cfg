\* Does the interpreter stop before its channels are freed?
SPECIFICATION Spec
CONSTANTS
  u1 = u1
  u2 = u2
  Users = {u1, u2}
  Groups <- OneUser
  Rmmod = rmmod
  MaxLoads = 3
  MaxStarts = 3
INVARIANTS
  ChannelsHeld
CHECK_DEADLOCK FALSE
