SPECIFICATION Spec
CONSTANTS
  c1 = c1
  c2 = c2
  Threads = {0, 1, 2}
  Foreign = {}
  Started = {0}
  Ended = {1}
  Detached = {0}
  kMaxTries = 2
  MaxFaults = 0
  MaxChecks = 1
  MaxTurns = 1
  None = None
  Chunks = {c1, c2}
  Stack <- MCStack
  Matching = {"s1"}
  Heaps <- MCHeaps
  kMaxReruns = 0
INVARIANTS
  NotFoundIsEnding
CHECK_DEADLOCK FALSE
