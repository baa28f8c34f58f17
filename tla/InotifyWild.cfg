CONSTANTS
  Names = {1, 2}
  MaxDepth = 3
  InitDirs <- RAndA
  MaxFsOps = 2
  MaxQueue = 4
  TreeCalls = {"mkdir", "unlink", "rename", "replace"}
  Fixed = {}
  SplitRename = FALSE
  LateRelease = TRUE
  PlainPaths <- OnlyA
  RecursivePaths <- RAndA
  MaxUserOps = 3
  MaxFaults = 1
  BufLen = 20
  CalmWalks = {}
  TimelyMoves = FALSE
  Paced = {}
SPECIFICATION Spec
INVARIANTS TypeOK OwnershipSound FlagsAgree
PROPERTIES RollbackExact
CHECK_DEADLOCK FALSE
