SPECIFICATION Spec
CONSTANTS
  N = 6
  Lengths = {1, 2}
  MaxFrames = 5
INVARIANTS TypeOK TableMatchesRing FramesWhole NothingStranded
PROPERTIES OnlySentFreed FramesInOrder FrameSent
CHECK_DEADLOCK FALSE
