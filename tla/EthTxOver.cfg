SPECIFICATION Spec
CONSTANTS
  N = 4
  Lengths = {1, 2}
  MaxFrames = 5
PROPERTY OnlyProcessedReturned
CHECK_DEADLOCK FALSE
