SPECIFICATION FileSpec
CONSTANTS
  Width = 64
  FirstRuns <- FileStarts
  Extents <- FileRuns
  MaxCalls = 4
  BlockSize = 2
  LastBlock = 29
  MaxLen = 5
  SizeCuts = {0, 1}
  InitCuts = {0, 3}
  SkipLens = {0, 3}
INVARIANTS
  InOrderUnlessMisplaced
  MapExact
  ReadReturnsFile
  WalkShowsFile
PROPERTIES
  RefusedOnlyIfKnown
  ReadFills
  WalkShowsAll
CHECK_DEADLOCK FALSE
