SPECIFICATION Spec
CONSTANTS
  NumTags = 4
  GenTags = {0, 1, 3}
  TagShift = 60
  Primaries = 2
  BlockEnds <- MCBlockEnds
  Sizes = {0, 2, 4}
  Starts = {2, 4}
  QuarantineMaxChunkSize = 2
  PageSize = 2
INVARIANTS
  NoFalseReport
