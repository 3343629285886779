SPECIFICATION FairSpec
CONSTANTS
  t1 = t1
  t2 = t2
  t3 = t3
  f1 = f1
  c1 = c1
  c2 = c2
  N = 2
  Cap = 2
  Txs = {t1}
  DataLen <- MCLongLen
  Forcers = {f1}
  Cpus = {c1, c2}
  Killer = Killer
  BWrites = {1, 2}
  MayFail = FALSE
  MayShutdown = {}
  None = None
INVARIANTS
  ForceIsDurable
PROPERTIES
  ForcesReturn
  CommitsFinish
  WrittenIsCalledBack
CHECK_DEADLOCK FALSE
