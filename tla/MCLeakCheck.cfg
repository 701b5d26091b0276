SPECIFICATION FairSpec
CONSTANTS
  c1 = c1
  c2 = c2
  Threads = {0, 1, 2}
  Foreign = {f}
  Started = {0}
  Ended = {1}
  Detached = {0}
  kMaxTries = 2
  MaxFaults = 1
  MaxChecks = 2
  MaxTurns = 1
  None = None
  Chunks = {c1, c2}
  Stack <- MCStack
  Matching = {"s1"}
  Heaps <- MCHeaps
  kMaxReruns = 1
INVARIANTS
  ReportIsExact
  SuppressedHoldNothing
PROPERTIES
  WorldStands
  LeakCheckReturns
CHECK_DEADLOCK FALSE
