CONSTANTS
  Names = {1, 2}
  MaxDepth = 3
  InitDirs <- RA
  InitFiles <- None
  TreeCalls = {"mkdir", "mkfile"}
  MaxFsOps = 1
  Closers = {}
  PlainPaths <- OnlyA
  RecursivePaths <- OnlyR
  MaxCalls = 3
  BatchLen = 2
SPECIFICATION Spec
INVARIANTS ExplicitKept
CHECK_DEADLOCK FALSE
