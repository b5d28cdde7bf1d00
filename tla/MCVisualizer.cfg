\* Programs drawn on the page; templates parsed and rendered.
SPECIFICATION Spec
CONSTANTS
  Libraries <- MCLibraries
  MaxOps = 3
  Programs <- Drawable
  Quantile <- Lengths
  Mew = 4
INVARIANTS
  Parsed
  Rendered
  Shown
CHECK_DEADLOCK FALSE
