SPECIFICATION Spec
CONSTANTS
  N = 3
  TooLow = 2
  M_WAIT = 0
  M_DONTWAIT = 1
  Mbufs = {m1, m2, m3, m4}
  MaxFrames = 5
  NONE = NONE
INVARIANTS TypeOK MbufInOnePlace ControllerOwnsTargets ScanStaysInRing InterruptNotLost
PROPERTIES DeliveredInOrder FrameDelivered
CHECK_DEADLOCK FALSE
