--------------------------- MODULE NodeReconnect ---------------------------
(* A node's connection to the server: client/client.ts.  The node has one    *)
(* current socket (ws), at most one pending reconnect timer and a heartbeat, *)
(* and any number of earlier sockets whose events may still come.  The       *)
(* handlers share module variables and mostly do not ask which socket they   *)
(* run for; each is an operator on the record of those variables, so that    *)
(* the order of their parts - cleanupAll cancels the timer - is kept.        *)
(*                                                                           *)
(* Left out: the delay of the timer (reconnectAttempt), and shutdown, which  *)
(* ends the process and is all that sets intentionalClose.                   *)
EXTENDS Integers

CONSTANTS
  Sock,               \* sockets; one whose 'close' has fired may be a new one's name
  None,
  MAX_MISSED_PONGS

ASSUME ReconnectAssumption == None \notin Sock /\ MAX_MISSED_PONGS \in Nat \ {0}

VARIABLES
  socket,   \* socket[s]: the WebSocket, as the ws library and the network have it
  node      \* the module variables of client.ts

reconnectVars == <<socket, node>>

(* alive: the connection has not silently died; answered: the server's       *)
(* answer to the token sent over it has been handled.                        *)
SocketRecord == [ state : {"none", "connecting", "open", "closing"},
                  alive : BOOLEAN, answered : BOOLEAN ]

(* timer: reconnectTimer; heartbeat: heartbeatTimer; since: connectingSince, *)
(* none, within CONNECT_GRACE_MS or before; work: the sockets over which     *)
(* what is in activeTunnels and activeRequests came.                         *)
NodeRecord == [ ws : Sock \cup {None}, timer : BOOLEAN, heartbeat : BOOLEAN,
                authenticated : BOOLEAN, missedPongs : 0..MAX_MISSED_PONGS - 1,
                since : {"none", "recent", "old"}, work : SUBSET Sock ]

NoSocket == [state |-> "none", alive |-> FALSE, answered |-> FALSE]

(* The program starts as if its timer fired: with connect().                 *)
ReconnectInit ==
  /\ socket = [s \in Sock |-> NoSocket]
  /\ node = [ws |-> None, timer |-> TRUE, heartbeat |-> FALSE, authenticated |-> FALSE,
             missedPongs |-> 0, since |-> "none", work |-> {}]

Is(s, states) == s # None /\ socket[s].state \in states

----------------------------------------------------------------------------
(* What the handlers are made of.                                            *)
ScheduleReconnect(n) == [n EXCEPT !.timer = TRUE]
CleanupAll(n) == [n EXCEPT !.timer = FALSE, !.heartbeat = FALSE, !.work = {}]

OnCloseOfOwn(n, s) ==
  IF n.ws # s THEN n
  ELSE ScheduleReconnect(CleanupAll([n EXCEPT !.since = "none", !.ws = None]))
OnClose(n, s) ==
  ScheduleReconnect(CleanupAll([n EXCEPT !.since = "none", !.ws = IF @ = s THEN None ELSE @]))

ForcedEarly(n) ==
  CleanupAll(ScheduleReconnect([n EXCEPT !.missedPongs = 0, !.since = "none", !.ws = None]))
Forced(n) ==
  ScheduleReconnect(CleanupAll([n EXCEPT !.missedPongs = 0, !.since = "none", !.ws = None]))

(* ws.close() and ws.terminate(): the event 'close' is still to come.        *)
Closing(s) ==
  IF Is(s, {"connecting", "open"}) THEN [socket EXCEPT ![s].state = "closing"] ELSE socket
Terminated(s) ==
  IF s = None THEN socket
  ELSE [socket EXCEPT ![s].state = IF @ = "none" THEN @ ELSE "closing", ![s].alive = FALSE]

ForceReconnect == node' = Forced(node) /\ socket' = Terminated(node.ws)

----------------------------------------------------------------------------
(* connect(), called by the timer.  The constructor of WebSocket may throw.  *)
Connect(s) ==
  /\ node.timer /\ socket[s].state = "none"
  /\ socket' = [Closing(node.ws) EXCEPT ![s] = [state |-> "connecting", alive |-> TRUE,
                                                answered |-> FALSE]]
  /\ node' = [node EXCEPT !.timer = FALSE, !.ws = s, !.since = "recent"]

ConnectThrows ==
  /\ node.timer
  /\ socket' = Closing(node.ws)
  /\ node' = ScheduleReconnect([node EXCEPT !.timer = FALSE, !.since = "none"])

(* The events of a socket.                                                   *)
Open(s) ==
  /\ socket[s].state = "connecting" /\ socket[s].alive
  /\ socket' = [socket EXCEPT ![s].state = "open"]
  /\ node' = [node EXCEPT !.authenticated = FALSE, !.missedPongs = 0, !.since = "none"]

(* 'error' and 'close' of a handshake that is refused or times out.          *)
HandshakeFails(s) ==
  /\ socket[s].state = "connecting"
  /\ socket' = [socket EXCEPT ![s] = NoSocket]
  /\ node' = OnClose(node, s)

(* 'error' of an open socket: 'close' follows, maybe much later.             *)
Error(s) ==
  /\ socket[s].state = "open"
  /\ socket' = [socket EXCEPT ![s].state = "closing"]
  /\ node' = IF node.ws = s THEN ScheduleReconnect(node) ELSE node

(* 'close' of a socket the server closes or the network resets, and of one   *)
(* that this side is closing.                                                *)
ServerCloses(s) ==
  /\ socket[s].state = "open" /\ socket[s].alive
  /\ socket' = [socket EXCEPT ![s] = NoSocket]
  /\ node' = OnClose(node, s)

Close(s) ==
  /\ socket[s].state = "closing"
  /\ socket' = [socket EXCEPT ![s] = NoSocket]
  /\ node' = OnClose(node, s)

(* auth_ok and auth_error, which close or use the current socket whichever   *)
(* they came over.  send() throws while that one is connecting.              *)
Answered(s) ==
  /\ Is(s, {"open", "closing"}) /\ socket[s].alive /\ ~socket[s].answered

AuthOkUnwatched(s) ==
  /\ Answered(s)
  /\ socket' = [socket EXCEPT ![s].answered = TRUE]
  /\ node' = [node EXCEPT !.authenticated = TRUE]

AuthOk(s) ==
  /\ Answered(s)
  /\ socket' = [socket EXCEPT ![s].answered = TRUE]
  /\ node' = [node EXCEPT !.authenticated = TRUE,
                          !.heartbeat = @ \/ ~Is(node.ws, {"connecting"})]

AuthError(s) ==
  /\ Answered(s)
  /\ socket' = [Closing(node.ws) EXCEPT ![s].answered = TRUE]
  /\ node' = [node EXCEPT !.authenticated = FALSE]

(* A request or a tunnel over s, and its end.                                *)
Work(s) ==
  /\ Is(s, {"open", "closing"}) /\ socket[s].alive /\ node.authenticated
  /\ node' = [node EXCEPT !.work = @ \cup {s}]
  /\ UNCHANGED socket

WorkDone(s) ==
  /\ s \in node.work
  /\ node' = [node EXCEPT !.work = @ \ {s}]
  /\ UNCHANGED socket

----------------------------------------------------------------------------
(* One tick of the heartbeat.  On a living connection the pong to the last   *)
(* ping is there by then.                                                    *)
Ping ==
  /\ Is(node.ws, {"open"})
  /\ socket[node.ws].alive => node.missedPongs = 0
  /\ IF node.missedPongs + 1 >= MAX_MISSED_PONGS THEN ForceReconnect
     ELSE node' = [node EXCEPT !.missedPongs = @ + 1] /\ UNCHANGED socket

Heartbeat ==
  /\ node.heartbeat
  /\ IF node.ws = None THEN node' = ScheduleReconnect(node) /\ UNCHANGED socket
     ELSE \/ Is(node.ws, {"closing"}) /\ ForceReconnect
          \/ Is(node.ws, {"connecting"}) /\ node.since = "old" /\ ForceReconnect
          \/ Ping

Pong(s) ==
  /\ Is(s, {"open", "closing"}) /\ socket[s].alive /\ node.missedPongs > 0
  /\ node' = [node EXCEPT !.missedPongs = 0]
  /\ UNCHANGED socket

(* CONNECT_GRACE_MS passes.                                                  *)
Grace ==
  /\ node.since = "recent"
  /\ node' = [node EXCEPT !.since = "old"]
  /\ UNCHANGED socket

(* process.on('uncaughtException'), whatever threw.                          *)
UncaughtException == ~Is(node.ws, {"open"}) /\ ForceReconnect

(* The connection dies without a word: neither side hears of it.             *)
Dies(s) ==
  /\ socket[s].alive
  /\ socket' = [socket EXCEPT ![s].alive = FALSE]
  /\ UNCHANGED node

ReconnectNext ==
  \/ \E s \in Sock :
       \/ Connect(s) \/ Open(s) \/ HandshakeFails(s) \/ Error(s) \/ ServerCloses(s) \/ Close(s)
       \/ AuthOk(s) \/ AuthError(s) \/ Pong(s) \/ Work(s) \/ WorkDone(s) \/ Dies(s)
  \/ ConnectThrows \/ Heartbeat \/ Grace \/ UncaughtException

ReconnectSpec == ReconnectInit /\ [][ReconnectNext]_reconnectVars

(* Timers fire, a handshake ends (handshakeTimeout), a socket that is being  *)
(* closed closes (ws gives up waiting for the peer by itself), and a server  *)
(* that is reached answers.                                                  *)
ReconnectFairness ==
  /\ WF_reconnectVars(\E s \in Sock : Connect(s))
  /\ WF_reconnectVars(Heartbeat)
  /\ WF_reconnectVars(\E s \in Sock : s = node.ws /\ Pong(s))
  /\ \A s \in Sock :
       /\ WF_reconnectVars(Open(s) \/ HandshakeFails(s))
       /\ WF_reconnectVars(Close(s))
       /\ WF_reconnectVars(AuthOk(s))

ReconnectFairSpec == ReconnectSpec /\ ReconnectFairness

----------------------------------------------------------------------------
(* Types; the missed pongs stay below the limit at which the watchdog acts.  *)
ReconnectTypeOK ==
  /\ socket \in [Sock -> SocketRecord]
  /\ node \in NodeRecord

(* The chain is never lost: without a current socket a reconnect is pending, *)
(* and a session the server has accepted is watched by the heartbeat or      *)
(* about to be replaced - although every close cancels both.                 *)
Accepted == Is(node.ws, {"open"}) /\ socket[node.ws].answered
ChainAlive ==
  /\ node.ws = None => node.timer
  /\ Accepted => node.heartbeat \/ node.timer

(* No request or tunnel outlives the socket it came over, current or not: it *)
(* would hold its slot of the node for ever.                                 *)
WorkHasSocket == \A s \in node.work : Is(s, {"open", "closing"})

(* Once faults cease the node gets back, and stays, connected.  Two things   *)
(* count as faults here that the code does not rule out: the late close of   *)
(* an earlier socket, which replaces the current one (whose close is then a  *)
(* late one in turn), and a connection that dies between 'open' and the      *)
(* server's answer, which no heartbeat watches yet.                          *)
LateClose(s) == Close(s) /\ node.ws \notin {s, None}
Fault ==
  \/ ConnectThrows \/ UncaughtException
  \/ \E s \in Sock :
       HandshakeFails(s) \/ Error(s) \/ ServerCloses(s) \/ AuthError(s) \/ Dies(s) \/ LateClose(s)
Online == Accepted /\ socket[node.ws].alive /\ ~node.timer
Unwatched == Is(node.ws, {"open"}) /\ ~socket[node.ws].alive /\ ~socket[node.ws].answered
GetsBack == <>[][~Fault]_reconnectVars => <>[](Online \/ Unwatched)
=============================================================================
