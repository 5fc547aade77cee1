SPECIFICATION Spec
CONSTANTS
  Threads = {t1, t2}
  N = 3
  W = 1
  MaxOpen = 2
SYMMETRY AnyThread
INVARIANTS TypeOK ResourceHeldOnce MasterReserved
PROPERTY ImplementsClaims
