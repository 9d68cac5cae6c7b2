SPECIFICATION FairSpec
CONSTANTS
  Threads = {t1}
  NULL = NULL
  FileSystems <- OneVolume
  Root = 1
  OrphanDir = 8
  WalkFlags <- MCWalkFlags
  Answers <- GivingUp
  MaxDepth = 6
  MaxCalls = 1
INVARIANT WalkErrorReported
CHECK_DEADLOCK FALSE
