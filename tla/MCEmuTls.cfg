\* The first access is over before a second thread exists.
CONSTANTS
  t1 = t1
  Threads = {t1, t2, t3}
  Main = t1
  Controls = {c1, c2}
  NoControl = NoControl
  LockSpins = 1
  UnlockSpins = 1
  HeaderWords = 2
  RoundTo = 3
  EarlySpawn = FALSE
SPECIFICATION ESpec
INVARIANTS
  UniqueIndex
  SlotsInArray
  ObjectsSurviveGrowth
PROPERTIES
  IndexIsFinal
  ExitFreesObjects
SYMMETRY Symmetry
