SPECIFICATION Spec
CONSTANTS
  Items = {i1, i2}
  FirstItem = i1
  Offs <- MCOffs
  Programs <- MCPrograms
  MaxOps = 4
INVARIANTS
  DataHeld
  Heard
  CalledRight
CHECK_DEADLOCK FALSE
