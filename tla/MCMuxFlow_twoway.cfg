SPECIFICATION FairSpec
CONSTANTS
  Server = server
  Node = node
  Sources = {server, node}
  InitialWindow <- EqualWindows
  DefaultWindow = 2
  MaxFrame = 1
  MaxBatch = 2
  MaxIncrement = 3
  MaxDeferrals = 0
  MaxBytes = 3
  MaxFrames = 2
PROPERTIES WindowReopens
CHECK_DEADLOCK FALSE
