SPECIFICATION Spec
CONSTANTS
  Clients = {c1, c2, c3}
  Binders = {c3}
  Mailboxes = {b1, b2}
  Frames = {f1, f2}
  Descriptors = 1
  NumSessions = 3
  MaxRequests = 2
  NONE = NONE
INVARIANTS TypeOK FrameKeptOnce
PROPERTIES OwnAnswer CallReturns
CHECK_DEADLOCK FALSE
