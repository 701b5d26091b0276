SPECIFICATION MCSpec
CONSTANTS
  Threads = {t1, t2}
  Compressor = c
  kBlockSizeFrames = 3
  kBlockCount = 2
  Counts = {1, 2}
  MaxFrames = 2
  MaxLoads = 1
  MaxForks = 1
  None = None
  WordBits = 5
  GroupBits = 2
  WordBytes = 2
  HeaderBytes = 1
INVARIANTS
  IssuedIsKept
  UsedIsThere
  FramesAddUp
  UnpackedIsExact
PROPERTIES
  CallsReturn
  FullBlockIsPacked
CHECK_DEADLOCK FALSE
