SPECIFICATION TreeSpec
CONSTANTS
  Width = 64
  FsBlockSize = 4
  Trees <- LargeTrees
INVARIANTS ReadableTreeLoads
CHECK_DEADLOCK FALSE
