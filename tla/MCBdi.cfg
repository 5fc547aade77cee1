SPECIFICATION Spec
CONSTANTS
  Pages = {p1, p2}
  PageSize = 2
  MaxFrame = 2
  FrameSizes = {1, 2}
  Copied = {FALSE, TRUE}
  MaxUnits = 7
  NONE = NONE
SYMMETRY AnyPage
INVARIANTS TypeOK PageInOnePlace
PROPERTIES UserPageStable SequenceTells NoSilentGap
CHECK_DEADLOCK FALSE
