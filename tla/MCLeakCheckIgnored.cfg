SPECIFICATION Spec
CONSTANTS
  c1 = c1
  c2 = c2
  Threads = {0, 1}
  Foreign = {}
  Started = {0}
  Ended = {}
  Detached = {0}
  kMaxTries = 2
  MaxFaults = 0
  MaxChecks = 2
  MaxTurns = 2
  None = None
  Chunks = {c1, c2}
  Stack <- MCStack
  Matching = {"s1"}
  Heaps <- MCHeaps
  kMaxReruns = 0
INVARIANTS
  IgnoredIsNoLeak
CHECK_DEADLOCK FALSE
