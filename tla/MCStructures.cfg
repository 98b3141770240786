SPECIFICATION Spec
CONSTANTS
  Subjects = {"freelist", "batch class", "page release", "primary32", "size classes"}
  None = None
  MaxNumBlocksInBatch = 3
  \* Seven blocks of 3 bytes in groups of 13 bytes, so that a block straddles the
  \* boundary: the groups have five and two blocks.
  NumBlocks = 7
  ListBlockSize = 3
  ListGroupSize = 13
  NumPopulate = 4
  MaxArray = 3
  MinReleaseAttempt = 3
  SmallBlock = TRUE
  ReleaseDelta = 6
  DensityPercent = 80
  \* Batches of at most three: one that lists itself and the group can be full,
  \* have room, or have a batch before it.
  NumBatchBlocks = 6
  MaxCachedPerBatch = 3
  MaxBatchArray = 4
  \* Sizes below, at and above a page and a group, that divide them or do not.
  ReleasePageSize = 8
  ReleaseGroupSize = 16
  BlockSizes = {2, 3, 5, 6, 8, 12, 16, 20}
  MaxUser = 40
  MaxInUse = 2
  \* Four regions of two pages each.
  NumClasses = 2
  Sizes <- TwoSizes
  RegionSize = 8
  NumRegions = 4
  PageSize = 4
  SmallClasses = {1}
  MaxStashedRegions = 1
  NumPopulate32 = 1
  MaxArray32 = 2
  MaxRegions = 2
INVARIANTS
  WellFormed
  BlocksCounted
  ReleasesExactly
  RegionsAccounted
  IterationFindsAll
  SizesFit
PROPERTIES
  ImplementsPool
