SPECIFICATION FairSpec
CONSTANTS
  Conns = {k1, k2, k3}
  Fds = {f1, f2}
  None = None
  MsgLen = 1
  MaxFrags = 1
  SendCap = 1
  Quitters = {k1}
  CELL_THREAD_COUNT = 1
  Chunk = 1
  Capacity = 1
  MaxFaults = 0
  SigPipeKills = FALSE
  MaxTicks = 1
INVARIANTS
  OneOwner
  NoLeakedDescriptor
  CountExact
  StatsAccount
PROPERTIES
  ImplementsFairRegistry
