SPECIFICATION MuxFairSpec
CONSTANTS
  Server = server
  Node = node
  Window = 2
  MaxUnits <- NodeWritesMore
  MaxCalls = 2
INVARIANTS MuxTypeOK OrderedDelivery StreamWindowConserved
PROPERTIES BufferDrains
CHECK_DEADLOCK FALSE
