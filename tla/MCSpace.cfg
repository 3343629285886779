SPECIFICATION Spec
CONSTANTS
  Cpus = {1, 2}
  Threads = {1, 2}
  Blocks = 14
  Aside = 1
  Reenable = 3
  Takes <- MCTakes
  Resblks = 2
  Requests = {0, 4}
  HotUnplug = {TRUE}
  MaxOps = 3
  Uids = {1, 2}
  Gids = {3, 4}
  Inodes = {1, 2}
  Tasks = {1, 2}
  RootInode <- MCRoot
  Hard <- MCHard
  Soft <- MCSoft
  IHard <- MCIHard
  MaxRes = 2
  MaxCalls = 3
  MixedFree = FALSE
  ChownFails = FALSE
INVARIANTS
  MappingIsExact
  FreeSpaceIsExact
  InodesAreExact
  
  BulkstatIsComplete
  BlocksAreCountedOnce
  DquotsAreCounted
  DquotLocksAdvance
  QuotaIsBalanced
CHECK_DEADLOCK FALSE
