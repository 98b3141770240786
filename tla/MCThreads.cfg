SPECIFICATION Spec
CONSTANTS
  Subjects = {"locks", "shared", "exclusive", "caches", "traces"}
  Threads = {t1, t2}
  NoThread = NoThread
  NumTSDs = 2
  NumClasses = 2
  TSDsArraySize = 4
  DefaultTSDCount = 2
  MaxTime = 2
  Iterations = 4
SYMMETRY Symmetry
INVARIANTS
  NoWaitCycle
  ForkSafe
  WalkVisitsNew
  DrainReachesAll
  EndedCommitted
  NothingAfterTeardown
  CommittedWhole
  StoredFound
  EntriesWhole
  
