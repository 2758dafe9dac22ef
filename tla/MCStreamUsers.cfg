SPECIFICATION UsersSpec
CONSTANTS
  Server = server
  Node = node
  Window = 1
  MaxUnits <- MoreThanTheWindow
  MaxCalls = 1
INVARIANTS UsersTypeOK OneReplyInTime FaithfulRelay StreamHasOwner AnsweredOnce WholeBodies
PROPERTIES SlotReleased EveryRequestAnswered
CHECK_DEADLOCK FALSE
