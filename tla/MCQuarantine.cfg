SPECIFICATION FairSpec
CONSTANTS
  small1 = small1
  small2 = small2
  big1 = big1
  big2 = big2
  Caches = {k1, k2}
  Chunks <- MCChunks
  ChunkSize <- MCChunkSize
  BatchSize = 3
  MaxCount = 2
  MaxSize = 10
  MaxCacheSize = 4
  Forker = Forker
  NoOwner = NoOwner
INVARIANTS
  QuarantinedOnce
  SizesAddUp
PROPERTIES
  Fifo
  RecycleCompletes
  DrainShrinks
