CONSTANTS
  Names = {1, 2}
  MaxDepth = 3
  InitDirs <- RA
  InitFiles <- None
  TreeCalls = {"mkdir", "mkfile", "unlink", "rename"}
  MaxFsOps = 2
  Closers = {c1}
  PlainPaths <- OnlyA
  RecursivePaths <- OnlyR
  MaxCalls = 2
  BatchLen = 2
SPECIFICATION Spec
INVARIANTS DescriptorsPaired Covered Attached OwnersSound NothingSkipped ClosedReleasesAll
CHECK_DEADLOCK FALSE
