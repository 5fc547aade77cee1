SPECIFICATION Spec
CONSTANTS
  Devices = {d1, d2}
  Fds = {f1, f2}
  Buffers = {1}
  MaxFrames = 3
  NONE = NONE
INVARIANTS TypeOK BufferInOnePlace
PROPERTIES PayloadFreed
CHECK_DEADLOCK FALSE
