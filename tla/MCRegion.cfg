SPECIFICATION RegionSpec
CONSTANTS
  Callers = {t1, t2, t3}
  NoCaller = NoCaller
  RegionSize = 7
  MapSizeIncrement = 3
  MaxCount = 2
  MaxNumBatches = 2
  MaxPauses = 2
INVARIANTS
  BlocksConserved
  OnePopulator
PROPERTIES
  GrowsOnlyWhole
  RefilledOnce
  WaitersProceed
