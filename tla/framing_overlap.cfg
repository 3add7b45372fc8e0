SPECIFICATION Spec
CONSTANTS
  N = 4
  MaxStream = 12
  HeaderLen = 2
  Lens <- MCLens
  Chunk = 5
  Capacity = 7
  CopyOrders <- CopyAny
PROPERTY
  Reassembles
CHECK_DEADLOCK FALSE
