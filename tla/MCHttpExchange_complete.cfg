SPECIFICATION HttpFairSpec
CONSTANTS
  Server = server
  Node = node
  Window = 2
  MaxUnits <- OneMoreThanTheWindow
  MaxCalls = 1
INVARIANT CompleteResponse
CHECK_DEADLOCK FALSE
