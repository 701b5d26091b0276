CONSTANTS
  Threads = {t1, t2, t3}
  kMaxSpinIters = 0
  kCounterWidth = 2
  MaxOps <- MCMaxOps
  MaxCount = 2
  SemOps = 2
  t1 = t1
  t2 = t2
  t3 = t3
SPECIFICATION FairLocks
INVARIANTS
  WriterSpinHasOneOwner
  NoLostWakeup
PROPERTIES
  RWSpec
  OperationsReturn
  CountingSpec
  TokensAreTaken
