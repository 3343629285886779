SPECIFICATION Spec
CONSTANTS
  t1 = t1
  t2 = t2
  t3 = t3
  f1 = f1
  c1 = c1
  c2 = c2
  N = 2
  Cap = 2
  Txs = {t2, t3}
  DataLen <- MCDataLen
  Forcers = {}
  Cpus = {c1, c2}
  Killer = Killer
  BWrites = {1}
  MayFail = TRUE
  MayShutdown = {"log", "other"}
  None = None
SYMMETRY Symmetry
INVARIANTS
  CallbackAtMostOnce
  LastSyncIsDurable
PROPERTIES
  CallbacksFollowTheLog
CHECK_DEADLOCK FALSE
