SPECIFICATION LSpec
CONSTANTS
  exe = exe
  a = a
  b = b
  Libs <- MCLibs
  Exe = exe
  Disks <- MCDisks
  VecLength = 2
  MaxOpens = 2
INVARIANTS
  LoadedOnce
  LoadPointersCurrent
  SafeWithinVector
  LinkedBeforeRun
  DebuggerSeesAll
  DependenciesFirst
  OnceEach
PROPERTIES
  MainAfterInit
CHECK_DEADLOCK FALSE
