SPECIFICATION BothSpec
CONSTANTS
  i0 = i0
  i1 = i1
  i2 = i2
  i3 = i3
  t1 = t1
  t2 = t2
  t3 = t3
  w1 = w1
  core = core
  data = data
  whole = whole
  Items = {i1, i2, i3}
  Fields = {whole}
  Txs = {t1, t2, t3}
  Travs = {w1}
  Push = Push
  MayShutdown = FALSE
  MaxRec = 3
  MaxTarget = 1
  StuckMax = 1
  NULL = NULL
  Invalid = Invalid
SYMMETRY Symmetry
INVARIANTS
  AilCoversLog
  WriteAhead
  WalkIsComplete
PROPERTIES
  OldestIsFirst
