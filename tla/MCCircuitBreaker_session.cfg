SPECIFICATION Spec
CONSTANTS
  Nodes = {n1}
  Configs <- OneSetting
  MaxAge = 3
  MaxHistory = 3
  MaxInFlight = 2
INVARIANTS FreshSession
CHECK_DEADLOCK FALSE
