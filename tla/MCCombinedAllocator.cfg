CONSTANTS
  t1 = t1
  t2 = t2
  NoThread = NoThread
  Threads <- MCThreads
  ClassSizes <- MCClassSizes
  kPageSize = 8
  kUserSpace <- MCUserSpace
  kUserMapSize <- MCUserMapSize
  kFreeArraySize = 4
  kFreeArrayMapSize = 2
  MaxCachedHint = 1
  Callers <- MCThreads
  AddressSpace <- MCAddressSpace
  LargeSizes = {1, 2}
  Alignments = {1, 2}
  kMaxNumChunks = 4
SPECIFICATION Spec
INVARIANTS
  EachChunkOnce
  ReleaseIsExact
  ArrayIsExact
  LookupsAgree
\* The process may end in a failed CHECK.
CHECK_DEADLOCK FALSE
