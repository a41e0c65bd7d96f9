\* Two threads make their first access at the same time.
CONSTANTS
  t1 = t1
  Threads = {t1, t2}
  Main = t1
  Controls = {c1, c2}
  NoControl = NoControl
  LockSpins = 1
  UnlockSpins = 1
  HeaderWords = 2
  RoundTo = 3
  EarlySpawn = TRUE
SPECIFICATION ESpec
INVARIANTS
  OnceMeansExecuted
