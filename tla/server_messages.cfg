SPECIFICATION Spec
CONSTANTS
  Conns = {k1, k2}
  Fds = {f1, f2}
  None = None
  MsgLen = 2
  MaxFrags = 3
  SendCap = 1
  Quitters = {k1, k2}
  CELL_THREAD_COUNT = 2
  Chunk = 2
  Capacity = 3
  MaxFaults = 1
  SigPipeKills = TRUE
  MaxTicks = 0
SYMMETRY Symmetry
INVARIANTS
  TypeOK
  OwnDescriptor
  RecvNeverBlocks
  EachFragmentOnce
  RepliesAnswerRequests
PROPERTIES
  NoWrongfulClose
  ImplementsRegistry
CHECK_DEADLOCK FALSE
