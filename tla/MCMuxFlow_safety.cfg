SPECIFICATION Spec
CONSTANTS
  Server = server
  Node = node
  Sources = {server, node}
  InitialWindow <- EqualWindows
  DefaultWindow = 2
  MaxFrame = 2
  MaxBatch = 2
  MaxIncrement = 4
  MaxDeferrals = 1
  MaxBytes = 3
  MaxFrames = 2
INVARIANTS TypeOK Conservation GrantsAccepted NoLostWakeup
PROPERTY ImplementsCreditFlow
SYMMETRY Ends
CHECK_DEADLOCK FALSE
