\* One writer, one reader: does every get return a stored content?
SPECIFICATION Spec
CONSTANTS
  Readers = {r1}
  Writers = {w1}
  Size = 2
  Limit = 4
  Values <- MCValues
  NoOne = NoOne
INVARIANTS
  GetsStored
