CONSTANTS
  Names = {1, 2}
  MaxDepth = 2
  InitDirs <- VR
  InitFiles <- OnlyF
  TreeCalls = {"unlink", "rename"}
  MaxFsOps = 2
  MaxChanges = 2
  Callers = {c1, c2}
  PlainPaths <- VAndF
  RecursivePaths <- OnlyR
  MaxCalls = 3
SPECIFICATION Spec
INVARIANTS ReadsOwned Listening NoLeakedHandle RootPaired RootsExist ClosedReleasesAll NoLostWakeup
CHECK_DEADLOCK FALSE
SYMMETRY Symmetry
