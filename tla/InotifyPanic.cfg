CONSTANTS
  Names = {1, 2, 3}
  MaxDepth = 2
  InitDirs <- RAndAB
  MaxFsOps = 2
  MaxQueue = 20
  TreeCalls = {"rename"}
  Fixed <- OnlyR
  SplitRename = FALSE
  LateRelease = FALSE
  PlainPaths <- OnlyA
  RecursivePaths <- OnlyR
  MaxUserOps = 2
  MaxFaults = 0
  BufLen = 20
  CalmWalks = {"rename"}
  TimelyMoves = TRUE
  Paced = {}
SPECIFICATION Spec
INVARIANTS NoPanic
CHECK_DEADLOCK FALSE
