SPECIFICATION Spec
CONSTANTS
  ta = ta
  tb = tb
  tc = tc
  Null = Null
  Tickets = {ta, tb, tc}
  LogSize = 4
  Unit <- MCLiveUnit
  Ocnt <- MCLiveOcnt
  Perm <- MCPerm
  MinFree = 1
  WriteSizes = {2}
  RoundSizes = {}
  MaxHead = 6
  Stops = {6}
  MaxRound = 0
  MaxMovers = 1
  MaxShutdowns = 2
INVARIANT
  WalkStaysOnQueue
CHECK_DEADLOCK FALSE
