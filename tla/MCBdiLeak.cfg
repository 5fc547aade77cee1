SPECIFICATION Spec
CONSTANTS
  Pages = {p1, p2}
  PageSize = 2
  MaxFrame = 2
  FrameSizes = {1, 2}
  Copied = {FALSE, TRUE}
  MaxUnits = 6
  NONE = NONE
SYMMETRY AnyPage
CHECK_DEADLOCK FALSE
INVARIANT NoPageLost
