CONSTANTS
  Names = {1, 2}
  MaxDepth = 3
  InitDirs <- OnlyR
  MaxFsOps = 3
  MaxQueue = 20
  TreeCalls = {"mkdir", "unlink"}
  Fixed = {}
  SplitRename = FALSE
  LateRelease = FALSE
  PlainPaths <- OnlyA
  RecursivePaths <- RAndA
  MaxUserOps = 4
  MaxFaults = 0
  BufLen = 2
  CalmWalks = {"mkdir", "unlink"}
  TimelyMoves = TRUE
  Paced = {"add"}
SPECIFICATION Spec
INVARIANTS Covered NoLeakedWatch OwnedIsWatched PromisesKept DroppedIsAnnounced
CHECK_DEADLOCK FALSE
