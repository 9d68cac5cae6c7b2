SPECIFICATION Spec
CONSTANTS
  SegLens <- SmallSegs
  SPLIT_CACHE = 2
  Fds = {3, 4, 5}
  Requests <- SomeRequests
  MaxReads = 3
INVARIANTS KeepsContract PointsToOwnEntry NoDescriptorLost OutsideOnlyPastEnd
CHECK_DEADLOCK FALSE
