SPECIFICATION Spec
CONSTANTS
  Threads = {t1, t2}
  Sessions = {s1, s2}
  Rundowns = {n0, n1}
  Sockets = {n0}
  ZERO = n0
  Syncs = {q1, q2}
  MaxInputs = 2
  NONE = NONE
INVARIANT OpenSessionMapped
CHECK_DEADLOCK FALSE
