------------------------- MODULE MuxFlowRefinement -------------------------
(* MuxFlow implements CreditFlow.  A byte is sent when ws.send takes it and  *)
(* has arrived when the peer has handled its frame; credit is what a sender  *)
(* has sent and what its connectionSendWindow lets it send - negative when   *)
(* it is overdrawn - so that a grant counts when it is credited, not while   *)
(* it waits behind DATA.                                                     *)
EXTENDS MuxFlow

(* What the receiver of e has room for: its window, as it was configured or  *)
(* as _checkConnectionWindow restores it, and the difference between the     *)
(* windows the two ends were configured with.                                *)
Larger(m, n) == IF m > n THEN m ELSE n
Room(e) ==
  LET p == Other(e)
  IN Larger(InitialWindow[p], DefaultWindow) + InitialWindow[e] - InitialWindow[p]

Sent(e) == handled[e].data + InFlight(e)
Arrived(e) == handled[e].data
Allowed(e) == Sent(e) + sendWindow[e]

Flow == INSTANCE CreditFlow WITH
  Sender <- Peer,
  Credit <- InitialWindow,
  Capacity <- [e \in Peer |-> Room(e)],
  Overdraft <- LargestPass,
  sent <- [e \in Peer |-> Sent(e)],
  arrived <- [e \in Peer |-> Arrived(e)],
  allowed <- [e \in Peer |-> Allowed(e)]

(* ImplementsCreditFlow: a pass sends only from an open window and at most a *)
(* batch, and a sender is never allowed more than its receiver granted room  *)
(* for, however grants, batches that are put back and deferrals interleave   *)
(* (_flushSendBuffer, _checkConnectionWindow, _handleConnectionFrame).       *)
ImplementsCreditFlow == Flow!FlowSpec
=============================================================================
