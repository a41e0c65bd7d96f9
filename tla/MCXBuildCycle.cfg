SPECIFICATION XSpec
CONSTANTS
  root = root
  lib = lib
  app = app
  target = target
  src = src
  Names <- MCNames
  Sources <- MCSources
  Goal = root
  Literal = target
  Projects <- MCProjects
  MaxDepth = 4
  MaxBuilds = 3
  MaxClock = 2
  MaxEdits = 1
INVARIANT CycleReported
CHECK_DEADLOCK FALSE
