CONSTANTS
  c1 = c1
  c2 = c2
  c3 = c3
  c4 = c4
  c5 = c5
  Threads = {t1, t2}
  Chunks = {c1, c2, c3, c4, c5}
  NoChunk = NoChunk
  ChunkSize <- MCChunkSize
  kSize = 2
  kBatch = 8
  Limits <- MCLimits
  MaxDrains = 2
SYMMETRY SmallChunks
SPECIFICATION Spec
INVARIANTS
  SizesExact
  OldestFirst
  LimitKept
PROPERTY QuarantineSpec
