SPECIFICATION MutexSpec
CONSTANTS
  Lockers = {t1, t2, t3}
  NumberOfTries = 1
INVARIANTS
  MutualExclusion
PROPERTIES
  LockProgress
  ImplementsLock
