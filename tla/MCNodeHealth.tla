---------------------------- MODULE MCNodeHealth ----------------------------
(* One run for what each process does about a node that fails: the server    *)
(* isolates it (CircuitBreaker), the node gets itself connected again        *)
(* (NodeReconnect).  The two share no state, so a behaviour here is one of   *)
(* the one or one of the other; the one that is not chosen rests.            *)
EXTENDS MCCircuitBreaker, NodeReconnect

VARIABLE part

(* A connection in which no timer of the node runs, so that its fairness     *)
(* asks for nothing: it has died before the server's answer.                 *)
Resting ==
  LET s == CHOOSE t \in Sock : TRUE
  IN /\ socket = [t \in Sock |-> IF t = s THEN [NoSocket EXCEPT !.state = "open"] ELSE NoSocket]
     /\ node = [ws |-> s, timer |-> FALSE, heartbeat |-> FALSE, authenticated |-> FALSE,
                missedPongs |-> 0, since |-> "none", work |-> {}]

BothInit ==
  /\ Init
  /\ \/ part = "breaker" /\ Resting
     \/ part = "reconnect" /\ ReconnectInit

BothNext ==
  /\ UNCHANGED part
  /\ \/ part = "breaker" /\ Next /\ UNCHANGED reconnectVars
     \/ part = "reconnect" /\ ReconnectNext /\ UNCHANGED vars

BothSpec ==
  BothInit /\ [][BothNext]_<<vars, reconnectVars, part>> /\ ReconnectFairness

(* Neither side gives a node up: one that keeps succeeding is selected       *)
(* again, and a node that lost its server gets itself connected again.       *)
NodesReturn == Recovery /\ GetsBack
=============================================================================
