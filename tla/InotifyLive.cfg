CONSTANTS
  Names = {1, 2}
  MaxDepth = 3
  InitDirs <- RAndA
  MaxFsOps = 2
  MaxQueue = 20
  TreeCalls = {"mkdir", "rename"}
  Fixed = {}
  SplitRename = TRUE
  LateRelease = FALSE
  PlainPaths <- NoPaths
  RecursivePaths <- OnlyR
  MaxUserOps = 2
  MaxFaults = 0
  BufLen = 1
  CalmWalks = {"rename"}
  TimelyMoves = TRUE
  Paced = {"rename"}
SPECIFICATION FairSpec
INVARIANTS ClosedIsEmpty
PROPERTIES EventuallySettled ReaderEnds
CHECK_DEADLOCK FALSE
