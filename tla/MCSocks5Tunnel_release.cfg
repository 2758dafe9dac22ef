SPECIFICATION TunnelFairSpec
CONSTANTS
  Server = server
  Node = node
  Window = 1
  MaxUnits <- MoreThanTheWindow
  MaxCalls = 1
PROPERTY ReleasedOnBothSides
CHECK_DEADLOCK FALSE
