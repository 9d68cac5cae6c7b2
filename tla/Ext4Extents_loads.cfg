SPECIFICATION TreeSpec
CONSTANTS
  Width = 64
  FsBlockSize = 4
  Trees <- SmallTrees
INVARIANTS DataIsAllExtents ReadableTreeLoads
CHECK_DEADLOCK FALSE
