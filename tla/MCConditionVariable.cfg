SPECIFICATION FairSpec
CONSTANTS
  Threads = {t1, t2, t3}
  NoThread = NoThread
  Modulus = 8
  Starts = {0, 6}
  MaxCalls = 5
INVARIANTS
  NoLostNotification
PROPERTIES
  NotifiedReturns
