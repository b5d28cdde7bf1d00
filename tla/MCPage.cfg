\* A slider of three steps, numbers between them and outside of them, and none.
SPECIFICATION FairSpec
CONSTANTS
  Min = 2
  Max = 6
  Step = 2
  Positions <- Distances
  MaxHandlers = 2
  Initial = 4
  Typed <- Texts
  Zooms <- Scales
  NaN = NaN
  Threshold = 2
INVARIANTS
  Agree
PROPERTIES
  SlideApplied
CHECK_DEADLOCK FALSE
