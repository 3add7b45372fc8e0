SPECIFICATION FairSpec
CONSTANTS
  Conns = {k1, k2}
  Fds = {f1, f2}
  None = None
  MsgLen = 1
  MaxFrags = 2
  SendCap = 1
  Quitters = {k1}
  CELL_THREAD_COUNT = 2
  Chunk = 1
  Capacity = 1
  MaxFaults = 0
  SigPipeKills = FALSE
  MaxTicks = 0
PROPERTIES
  ImplementsFairRegistry
  CountSettles
  AllHandled
