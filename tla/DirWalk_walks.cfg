SPECIFICATION FairSpec
CONSTANTS
  Threads = {t1, t2}
  NULL = NULL
  FileSystems <- MCFileSystems
  Root = 1
  OrphanDir = 8
  WalkFlags <- MCWalkFlags
  Answers <- GoingOn
  MaxDepth = 6
  MaxCalls = 2
INVARIANTS
  SharedListComplete
  OrphansUnnamed
  NoOrphanLost
  EveryNameShown
  EveryDeletedFileShown
PROPERTIES
  EveryCallReturns
CHECK_DEADLOCK FALSE
