\* Liveness, without symmetry: a waiter and the thread that releases it.
CONSTANTS
  Threads = {t1, t2}
  LockSpins = 1
  UnlockSpins = 1
  SeqMod = 7
  MaxCalls = 7
SPECIFICATION CFairSpec
PROPERTIES
  ReleasedReturns
CHECK_DEADLOCK FALSE
