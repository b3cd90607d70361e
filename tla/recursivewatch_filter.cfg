SPECIFICATION Spec
CONSTANTS
  d1 = d1
  d2 = d2
  d3 = d3
  d4 = d4
  d5 = d5
  d6 = d6
  Root = Root
  Fresh = Fresh
  Out = Out
  Dead = Dead
  NoFid = NoFid
  MaxWd = 8
  Dirs <- MCDirs
  Names = {1, 2}
  InitialLoc <- MCInitialLoc
  Modes <- FilterModes
INVARIANTS
  AllWatched
CHECK_DEADLOCK FALSE
