SPECIFICATION LogSpec
CONSTANTS
  t1 = t1
  t2 = t2
  t3 = t3
  i1 = i1
  i2 = i2
  i3 = i3
  Txs = {t1, t2, t3}
  Items = {i1, i2, i3}
  Old = i1
  MaxRec = 6
  Bufs = 3
  MaySpan = FALSE
  MayDrain = FALSE
  CB = CB
  Tickets = {1, 2, 3}
  Null = 0
  LogSize = 5
  Unit <- MCUnit
  Ocnt <- MCOcnt
  Perm = {1, 2}
  MinFree = 1
  WriteSizes = {2}
  RoundSizes = {1}
  MaxHead = 8
  Stops = {7}
  MaxRound = 1
  MaxMovers = 2
  MaxShutdowns = 1
INVARIANTS
  TailIsOnDisk
  
  AnyTailIsOnDisk
  SpaceIsConserved
  
  HeadIsFound
  ReplayIsExact
CHECK_DEADLOCK FALSE
