SPECIFICATION FairSpec
CONSTANTS
  t1 = t1
  t2 = t2
  NoThread = NoThread
  Threads = {t1, t2}
  ImgSize = 3
  CacheNum = 2
  CacheLen = 2
  CacheAge = 3
  Sector = 2
  SectorSize = 2
  Offsets <- ReadOffsets
  Lengths = {1, 2, 3}
  MaxCalls = 4
INVARIANTS CacheCoherent ReadCorrect FullUnlessShort FailureForgotten
PROPERTIES ReplacesLeastRecentlyUsed ReadReturns
CHECK_DEADLOCK FALSE
