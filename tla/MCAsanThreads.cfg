CONSTANTS
  MaxTid = 2
  Handles = {h1, h2, h3}
  OsIds = {k1, k2, k3}
  None = None
  kInvalidGen = 2
SPECIFICATION Spec
SYMMETRY Symmetry
CHECK_DEADLOCK FALSE
INVARIANTS
  RootsExact
  JoinsMeetTheirThread
  ThreadIsMapped
