SPECIFICATION FairSpec
CONSTANTS
  t1 = t1
  t2 = t2
  NoThread = NoThread
  Junk = Junk
  Threads = {t1, t2}
  Hashes <- MCHashes
  Prefix <- MCPrefix
  PrefixCount = 4
  Databases <- MCDatabases
  Queries <- MCQueries
  MaxCalls = 2
  MaxRebuilds = 1
  MaxCrashes = 1
INVARIANTS TableFits
PROPERTIES LookupExact  LookupReturns
CHECK_DEADLOCK FALSE
