SPECIFICATION FairSpec
CONSTANTS
  N = 4
  MaxStream = 12
  HeaderLen = 2
  Lens <- MCLens
  Chunk = 5
  Capacity = 7
  CopyOrders <- CopyUp
INVARIANTS
  TypeOK
  NeverFull
  NothingLeft
PROPERTIES
  Reassembles
  AllDelivered
CHECK_DEADLOCK FALSE
