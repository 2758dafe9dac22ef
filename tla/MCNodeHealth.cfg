SPECIFICATION BothSpec
CONSTANTS
  Nodes = {n1}
  Configs <- TwoSettings
  MaxAge = 3
  MaxHistory = 3
  MaxInFlight = 2
  Sock = {s1, s2, s3}
  None = none
  MAX_MISSED_PONGS = 3
INVARIANTS TypeOK ChainAlive WorkHasSocket
PROPERTIES IsolationNeedsEvidence ReturnNeedsSuccesses NodesReturn
CHECK_DEADLOCK FALSE
