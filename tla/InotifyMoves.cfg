CONSTANTS
  Names = {1, 2}
  MaxDepth = 3
  InitDirs <- RAndAB
  MaxFsOps = 3
  MaxQueue = 20
  TreeCalls = {"mkdir", "mkfile", "unlink", "rename"}
  Fixed <- OnlyR
  SplitRename = TRUE
  LateRelease = FALSE
  PlainPaths <- OnlyB
  RecursivePaths <- OnlyR
  MaxUserOps = 2
  MaxFaults = 0
  BufLen = 2
  CalmWalks = {"mkdir", "mkfile", "unlink", "rename"}
  TimelyMoves = TRUE
  Paced = {"rename","add"}
SPECIFICATION Spec
INVARIANTS TablesInverse Covered NamesCurrent NoOrphanWatch
CHECK_DEADLOCK FALSE
