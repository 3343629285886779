SPECIFICATION BothSpec
CONSTANTS
  ta = ta
  tb = tb
  tc = tc
  Null = Null
  Tickets = {ta, tb, tc}
  LogSize = 4
  Unit <- MCUnit
  Ocnt <- MCOcnt
  Perm <- MCPerm
  MinFree = 1
  WriteSizes = {2}
  RoundSizes = {}
  MaxHead = 6
  Stops = {6}
  MaxRound = 0
  MaxMovers = 1
  MaxShutdowns = 1
PROPERTIES
  NobodySleepsForever
  ShutdownReleasesSleepers
  CallsReturn
CHECK_DEADLOCK FALSE
