SPECIFICATION FairSpec
CONSTANTS
  Server = server
  Node = node
  Sources = {node}
  InitialWindow <- SmallServerWindow
  DefaultWindow = 3
  MaxFrame = 1
  MaxBatch = 2
  MaxIncrement = 4
  MaxDeferrals = 1
  MaxBytes = 5
  MaxFrames = 2
PROPERTIES EveryByteArrives WindowReopens
CHECK_DEADLOCK FALSE
