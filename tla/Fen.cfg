CONSTANTS
  Names = {1, 2}
  MaxDepth = 3
  InitDirs <- RA
  InitFiles <- OnlyF
  TreeCalls = {"mkdir", "unlink", "rename", "replace", "mkfile", "touch"}
  MaxFsOps = 2
  RingSize = 1
  Closers = {c1}
  PlainPaths <- RA
  RecursivePaths <- OnlyR
  MaxCalls = 2
  BatchLen = 2
SPECIFICATION Spec
INVARIANTS NeverDeaf Covered Attached OwnersSound ScanExact ClosedPort CloseNeverStuck
PROPERTIES RollbackExact
CHECK_DEADLOCK FALSE
