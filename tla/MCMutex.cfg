CONSTANTS
  Threads = {t1, t2, t3}
  LockSpins = 2
  UnlockSpins = 2
SPECIFICATION FairSpec
INVARIANTS
  MutualExclusion
  NoLostWakeup
PROPERTIES
  ImplementsMutex
  HandOver
