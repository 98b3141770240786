SPECIFICATION Spec
CONSTANTS
  Threads = {t1, t2}
  NoThread = NoThread
  Blocks = {b1, b2, b3}
  None = None
  Sizes = {10, 11}
  EntriesArraySize = 2
  QuarantineSizes = {0}
  MaxEntrySize = 11
  MaxUnreleasedCachePages = 4
  MaxReleasedCachePages = 4
  MaxCounts = {0, 1, 2}
  Intervals <- MCIntervals
  Races = TRUE
  MaxTime = 2
  TimeModulus = 16
SYMMETRY Symmetric
INVARIANT NeverPopsEmpty
