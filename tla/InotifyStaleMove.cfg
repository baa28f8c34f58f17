CONSTANTS
  Names = {1, 2}
  MaxDepth = 2
  InitDirs <- RAndA
  MaxFsOps = 2
  MaxQueue = 20
  TreeCalls = {"mkdir", "rename"}
  Fixed <- NoWayBack
  SplitRename = FALSE
  LateRelease = FALSE
  PlainPaths <- OnlyA
  RecursivePaths <- OnlyR
  MaxUserOps = 2
  MaxFaults = 0
  BufLen = 20
  CalmWalks = {"mkdir", "rename"}
  TimelyMoves = TRUE
  Paced = {}
SPECIFICATION Spec
INVARIANTS PromisesKept
CHECK_DEADLOCK FALSE
