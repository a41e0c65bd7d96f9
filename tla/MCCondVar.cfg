\* Safety: two waiters and two wake-up calls and a timed wait fit in seven calls.
CONSTANTS
  Threads = {t1, t2, t3}
  LockSpins = 1
  UnlockSpins = 1
  SeqMod = 6
  MaxCalls = 7
SPECIFICATION CSpec
INVARIANTS
  NoLostWakeup
PROPERTIES
  SignalWakesOne
  BroadcastWakesAll
  ReleasedStaysReleased
  ImplementsMutex
SYMMETRY Symmetry
CHECK_DEADLOCK FALSE
