SPECIFICATION CachesSpec
CONSTANTS
  Txs = {1, 2, 3}
  Kinds = {"inode", "other"}
  Starts = {"unlogged", "logged"}
  MaxErrors = 1
  Shutdowns = {"early"}
  Users = {1, 2}
  Walkers = {3, 4}
  MaxObjs = 2
INVARIANTS
  BufferIsKept
  BlockIsRecoverable
  InodeIsShared
CHECK_DEADLOCK FALSE
