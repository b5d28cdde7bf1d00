\* Two writers and a reader.
SPECIFICATION FairSpec
CONSTANTS
  Readers = {r1}
  Writers = {w1, w2}
  Size = 2
  Limit = 4
  Values <- MCValues
  NoOne = NoOne
INVARIANTS
  TypeOK
  FrontIsLast
  QuietGet
  OneBufferGet
PROPERTIES
  SetReturns
