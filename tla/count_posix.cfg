SPECIFICATION FairSpec
CONSTANTS
  Conns = {k1}
  Fds = {f1}
  None = None
  MsgLen = 1
  MaxFrags = 2
  SendCap = 1
  Quitters = {k1}
  CELL_THREAD_COUNT = 1
  Chunk = 1
  Capacity = 1
  MaxFaults = 0
  SigPipeKills = TRUE
  MaxTicks = 0
PROPERTIES
  CountSettles
CHECK_DEADLOCK FALSE
