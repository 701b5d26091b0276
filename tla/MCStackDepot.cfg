SPECIFICATION FairSpec
CONSTANTS
  fg = fg
  fh = fh
  gh = gh
  Threads = {t1, t2}
  Traces = {fg, fh, gh}
  Hashes <- MCHashes
  Hash <- MCHash
  kTabSize = 2
  kNodesSize2 = 4
  kMaxId = 4
  MaxForks = 1
  None = None
INVARIANT ChainsAreWhole
PROPERTIES
  PublishedIsFrozen
  DepotIsAMap
  PutReturns
CHECK_DEADLOCK FALSE
