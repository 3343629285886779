SPECIFICATION CacheSpec
CONSTANTS
  Users = {1, 2}
  Walkers = {3}
  MaxObjs = 2
INVARIANT OneInodeInCore
CHECK_DEADLOCK FALSE
