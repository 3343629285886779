SPECIFICATION FairSpec
CONSTANTS
  i1 = i1
  i2 = i2
  i3 = i3
  t1 = t1
  t2 = t2
  t3 = t3
  w1 = w1
  core = core
  data = data
  Items = {i1, i2}
  Fields = {core}
  Txs = {t1, t2}
  Travs = {}
  Push = Push
  MayShutdown = FALSE
  MaxRec = 3
  MaxTarget = 3
  StuckMax = 1
  NULL = NULL
  Invalid = Invalid
PROPERTIES
  PushReachesTarget
