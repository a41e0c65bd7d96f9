SPECIFICATION LSpec
CONSTANTS
  exe = exe
  a = a
  b = b
  Libs <- MCLibs
  Exe = exe
  Disks <- MCDisks
  VecLength = 2
  MaxOpens = 2
INVARIANTS
  PassedHasSoname
CHECK_DEADLOCK FALSE
