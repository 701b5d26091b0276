CONSTANTS
  MaxThreads = 3
  QuarantineSize = 1
  MaxReuse = 2
  MaxTotal = 6
  UserIds = {i1, i2}
  NoUser = NoUser
SPECIFICATION FairSpec
CHECK_DEADLOCK FALSE
INVARIANTS
  TidKept
  ChecksHold
  LiveExact
PROPERTY JoinReturns
