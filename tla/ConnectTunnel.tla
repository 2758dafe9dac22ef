---------------------------- MODULE ConnectTunnel ----------------------------
(* One HTTP CONNECT tunnel, end to end, over the JSON messages it always     *)
(* uses, or a SOCKS5 tunnel through a node that has only those: the          *)
(* application's socket and the record of pendingTunnels at the server       *)
(* (proxy-http.ts, proxy-socks5.ts, ws-server.ts), the messages between the  *)
(* two WebSockets, and the connection to the target at the node (client.ts,  *)
(* and client-legacy.ts where it differs).                                   *)
EXTENDS Integers, Sequences, SequencesExt

CONSTANTS
  MaxChunks,    \* bound: chunks the application, or the target, sends
  IdleTimeout   \* tunnel_idle_timeout is set

ASSUME ConnectAssumption == MaxChunks \in Nat /\ IdleTimeout \in BOOLEAN

VARIABLES
  application,  \* what it sent, whether it closed its end, what it got
  relay,        \* the server: the record, its timers and the socket
  target,       \* the node: the tunnel, what its target got and sent
  nodeWire, serverWire,  \* messages under way
  up            \* up[e]: e's WebSocket is open

connectVars == <<application, relay, target, nodeWire, serverWire, up>>

(* Chunks are numbered from 1; the head, what came with the CONNECT, is the  *)
(* first if there is one.                                                    *)
Application == [head : 0..1, sent : Nat, fin : BOOLEAN, got : Seq([type : {"200", "failed", "head", "tunnel_data"}, n : Nat])]

(* flowing: something listens to the socket's data; unread: what waits;      *)
(* socks: the application speaks SOCKS5.                                     *)
Relay == [ socks : BOOLEAN, record : BOOLEAN, timer : BOOLEAN, ready : BOOLEAN, idle : BOOLEAN,
           socket : {"none", "open", "ended", "closed"}, flowing : BOOLEAN, unread : Seq(Nat) ]

Target == [ state : {"none", "connecting", "established", "ending", "closed"},
            timer : BOOLEAN, listed : BOOLEAN, got : Seq(Nat), sent : Nat ]

ConnectInit ==
  /\ application = [head |-> 0, sent |-> 0, fin |-> FALSE, got |-> << >>]
  /\ relay = [socks |-> FALSE, record |-> FALSE, timer |-> FALSE, ready |-> FALSE, idle |-> FALSE,
              socket |-> "none", flowing |-> FALSE, unread |-> << >>]
  /\ target = [state |-> "none", timer |-> FALSE, listed |-> FALSE, got |-> << >>, sent |-> 0]
  /\ nodeWire = << >> /\ serverWire = << >>
  /\ up = [server |-> TRUE, node |-> TRUE]

Message(type) == [type |-> type, n |-> 0]
TunnelChunk(n) == [type |-> "tunnel_data", n |-> n]

ToNode(ms) == nodeWire' = IF up.server THEN nodeWire \o ms ELSE nodeWire
ToServer(ms) == serverWire' = IF up.node THEN serverWire \o ms ELSE serverWire

----------------------------------------------------------------------------
(* The server.  safeWrite() and socket.end(): what the application gets.     *)
Written(items) ==
  application' = IF relay.socket = "open" THEN [application EXCEPT !.got = @ \o items]
                 ELSE application
EndedSocket == IF relay.socket = "open" THEN "ended" ELSE relay.socket

(* handleConnect: the SNI is looked for at once, in the head and, unless it  *)
(* settles that, in the data that follows.                                   *)
OpenedUntimed(flowing) ==
  [relay EXCEPT !.record = TRUE, !.socket = "open", !.flowing = flowing]
TunnelOpened(flowing) ==
  [relay EXCEPT !.record = TRUE, !.timer = TRUE, !.socket = "open", !.flowing = flowing]

HandleConnect ==
  /\ relay.socket = "none" /\ up.server
  /\ \E head \in 0..1, settled \in BOOLEAN :
       /\ settled => head = 1
       /\ application' = [application EXCEPT !.head = head, !.sent = head]
       /\ relay' = TunnelOpened(~settled)
  /\ ToNode(<<Message("tunnel_open")>>)
  /\ UNCHANGED <<target, serverWire, up>>

(* No tunnel: 407, 403, 503, or 502 where the message could not be sent.     *)
RefuseConnect ==
  /\ relay.socket = "none"
  /\ relay' = [relay EXCEPT !.socket = "ended"]
  /\ application' = [application EXCEPT !.got = <<Message("failed")>>]
  /\ UNCHANGED <<target, nodeWire, serverWire, up>>

(* handleTCPConnect, without the multiplexer: no head, and the handshake's   *)
(* listener goes on taking the data; or the message could not be sent, which *)
(* is found when record and timer are there.                                 *)
HandleSocks5 ==
  /\ relay.socket = "none" /\ up.server
  /\ \/ /\ relay' = [TunnelOpened(TRUE) EXCEPT !.socks = TRUE]
        /\ ToNode(<<Message("tunnel_open")>>) /\ UNCHANGED application
     \/ /\ relay' = [TunnelOpened(TRUE) EXCEPT !.socks = TRUE, !.socket = "ended"]
        /\ application' = [application EXCEPT !.got = <<Message("failed")>>] /\ UNCHANGED nodeWire
  /\ UNCHANGED <<target, serverWire, up>>

(* A chunk is lost where only the search for the SNI listens.                *)
ChunkArrives ==
  /\ relay.socket \in {"open", "ended"} /\ ~application.fin /\ application.sent < MaxChunks
  /\ LET n == application.sent + 1
     IN /\ application' = [application EXCEPT !.sent = n]
        /\ relay' = IF relay.ready THEN [relay EXCEPT !.idle = IdleTimeout]
                    ELSE IF relay.flowing THEN relay ELSE [relay EXCEPT !.unread = Append(@, n)]
        /\ ToNode(IF relay.ready THEN <<TunnelChunk(n)>> ELSE << >>)
  /\ UNCHANGED <<target, serverWire, up>>

(* The socket's 'close', after as many events as there are in all: of        *)
(* CONNECT, only a tunnel that was ready listens to it; of SOCKS5, cleanup() *)
(* listens to every event, whatever the tunnel has come to.                  *)
Closings(events) == (IF relay.socks THEN events ELSE 0) + (IF relay.ready THEN 1 ELSE 0)
SocketClosed(app, events) ==
  /\ application' = app
  /\ relay' = IF Closings(events) > 0
                THEN [relay EXCEPT !.socket = "closed", !.record = FALSE, !.timer = FALSE, !.idle = FALSE]
                ELSE [relay EXCEPT !.socket = "closed"]
  /\ ToNode([i \in 1..Closings(events) |-> Message("tunnel_close")])
  /\ UNCHANGED <<target, serverWire, up>>

(* A FIN alone ends nothing: sockets of an HTTP server stay half open.       *)
ApplicationCloses ==
  /\ relay.socket = "open" /\ ~application.fin
  /\ application' = [application EXCEPT !.fin = TRUE]
  /\ UNCHANGED <<relay, target, nodeWire, serverWire, up>>
ApplicationAborts ==
  relay.socket \in {"open", "ended"} /\ SocketClosed([application EXCEPT !.fin = TRUE], 2)
BothEnded ==
  relay.socket = "ended" /\ application.fin /\ SocketClosed(application, 1)
ApplicationEnds ==
  relay.socket = "ended" /\ ~application.fin /\ SocketClosed([application EXCEPT !.fin = TRUE], 1)

(* tunnel_timeout                                                            *)
TimedOut == [relay EXCEPT !.timer = FALSE, !.record = FALSE, !.socket = EndedSocket]
TunnelTimeout ==
  /\ relay.timer
  /\ relay' = TimedOut /\ Written(<<Message("failed")>>)
  /\ UNCHANGED <<target, nodeWire, serverWire, up>>

(* armTunnelIdle: the timer of an idle tunnel.                               *)
IdleFires ==
  /\ relay.idle
  /\ relay' = [relay EXCEPT !.idle = FALSE, !.socket = EndedSocket]
  /\ UNCHANGED <<application, target, nodeWire, serverWire, up>>

Receives(type) == up.server /\ serverWire # << >> /\ Head(serverWire).type = type

(* handleTunnelReadyLegacy: the head goes back to the application, and what  *)
(* waited in the socket to the node.  A socket that has closed may keep what *)
(* it has (that depends on the version of Node.js); here it gives it.        *)
HandleTunnelReady ==
  /\ Receives("tunnel_ready") /\ serverWire' = Tail(serverWire)
  /\ IF relay.record
       THEN /\ Written(<<Message("200")>> \o
                       (IF application.head = 1 THEN <<Message("head")>> ELSE << >>))
            /\ relay' = [relay EXCEPT !.timer = FALSE, !.ready = TRUE, !.flowing = TRUE,
                                      !.unread = << >>, !.idle = IdleTimeout]
            /\ ToNode([i \in 1..Len(relay.unread) |-> TunnelChunk(relay.unread[i])])
       ELSE UNCHANGED <<application, relay, nodeWire>>
  /\ UNCHANGED <<target, up>>

HandleTunnelData ==
  /\ Receives("tunnel_data") /\ serverWire' = Tail(serverWire)
  /\ IF relay.record /\ relay.socket # "closed"
       THEN Written(<<Head(serverWire)>>) /\ relay' = [relay EXCEPT !.idle = IdleTimeout]
       ELSE UNCHANGED <<application, relay>>
  /\ UNCHANGED <<target, nodeWire, up>>

(* handleTunnelCloseLegacy, handleTunnelErrorLegacy: the latter replies if   *)
(* nothing else has.                                                         *)
FailureReplyAlways(type) ==
  IF type = "tunnel_error" THEN <<Message("failed")>> ELSE << >>
FailureReply(type) ==
  IF type = "tunnel_error" /\ ~relay.ready THEN <<Message("failed")>> ELSE << >>
HandleTunnelEnd ==
  /\ Receives("tunnel_close") \/ Receives("tunnel_error")
  /\ serverWire' = Tail(serverWire)
  /\ IF relay.record
       THEN /\ relay' = TimedOut
            /\ Written(FailureReply(Head(serverWire).type))
       ELSE UNCHANGED <<application, relay>>
  /\ UNCHANGED <<target, nodeWire, up>>

ServerReceives == HandleTunnelReady \/ HandleTunnelData \/ HandleTunnelEnd

----------------------------------------------------------------------------
(* The node.                                                                 *)
Sent(type) == up.node /\ nodeWire # << >> /\ Head(nodeWire).type = type

(* handleTunnelOpen: busy or not a target, or the connection is begun.       *)
HandleTunnelOpen ==
  /\ Sent("tunnel_open") /\ nodeWire' = Tail(nodeWire)
  /\ \/ /\ target' = [target EXCEPT !.state = "connecting", !.timer = TRUE, !.listed = TRUE]
        /\ UNCHANGED serverWire
     \/ ToServer(<<Message("tunnel_error")>>) /\ UNCHANGED target
  /\ UNCHANGED <<application, relay, up>>

Gone == [target EXCEPT !.state = "closed", !.timer = FALSE, !.listed = FALSE]

Connected ==
  /\ target.state = "connecting"
  /\ target' = [target EXCEPT !.state = IF target.listed THEN "established" ELSE "ending", !.timer = FALSE]
  /\ ToServer(<<Message("tunnel_ready")>>)
  /\ UNCHANGED <<application, relay, nodeWire, up>>

(* 'error' or the timer, then 'close'.                                       *)
ConnectFails ==
  /\ target.state = "connecting"
  /\ target' = Gone /\ ToServer(<<Message("tunnel_error"), Message("tunnel_close")>>)
  /\ UNCHANGED <<application, relay, nodeWire, up>>

TargetSends ==
  /\ target.state \in {"established", "ending"} /\ target.sent < MaxChunks
  /\ target' = [target EXCEPT !.sent = @ + 1] /\ ToServer(<<TunnelChunk(target.sent + 1)>>)
  /\ UNCHANGED <<application, relay, nodeWire, up>>

(* 'close', or 'error' and then 'close': client-legacy.ts reports both.      *)
TargetCloses ==
  /\ target.state \in {"established", "ending"}
  /\ target' = Gone
  /\ \/ ToServer(<<Message("tunnel_close")>>)
     \/ ToServer(<<Message("tunnel_error"), Message("tunnel_close")>>)
  /\ UNCHANGED <<application, relay, nodeWire, up>>

NodeHandlesData ==
  /\ Sent("tunnel_data") /\ nodeWire' = Tail(nodeWire)
  /\ target' = IF target.listed THEN [target EXCEPT !.got = Append(@, Head(nodeWire).n)] ELSE target
  /\ UNCHANGED <<application, relay, serverWire, up>>

(* end() where the connection is still being made takes effect after it.     *)
ClosedByServer ==
  [target EXCEPT !.state = IF @ = "connecting" THEN @ ELSE "ending", !.timer = FALSE, !.listed = FALSE]
NodeHandlesClose ==
  /\ Sent("tunnel_close") /\ nodeWire' = Tail(nodeWire)
  /\ target' = IF target.listed THEN ClosedByServer ELSE target
  /\ UNCHANGED <<application, relay, serverWire, up>>

NodeReceives == HandleTunnelOpen \/ NodeHandlesData \/ NodeHandlesClose

----------------------------------------------------------------------------
(* The WebSocket: each end learns of its end for itself.  remove() ends the  *)
(* socket, with a reply where it is SOCKS5's, and to write that where the    *)
(* socket has been ended destroys it; cleanupAll() destroys the connection.  *)
RelayRemoved ==
  IF relay.socks /\ relay.socket = "ended"
    THEN [TimedOut EXCEPT !.socket = "closed", !.idle = FALSE] ELSE TimedOut
ServerLosesNode ==
  /\ up.server /\ up' = [up EXCEPT !.server = FALSE] /\ serverWire' = << >>
  /\ IF relay.record
       THEN relay' = RelayRemoved /\ Written(IF relay.socks THEN <<Message("failed")>> ELSE << >>)
       ELSE UNCHANGED <<relay, application>>
  /\ UNCHANGED <<target, nodeWire>>
NodeLosesServer ==
  /\ up.node /\ up' = [up EXCEPT !.node = FALSE] /\ nodeWire' = << >>
  /\ target' = IF target.listed THEN Gone ELSE target
  /\ UNCHANGED <<application, relay, serverWire>>

ConnectNext ==
  \/ HandleConnect \/ HandleSocks5 \/ RefuseConnect \/ ChunkArrives
  \/ ApplicationCloses \/ ApplicationAborts \/ ApplicationEnds \/ BothEnded
  \/ TunnelTimeout \/ IdleFires \/ ServerReceives
  \/ Connected \/ ConnectFails \/ TargetSends \/ TargetCloses \/ NodeReceives
  \/ ServerLosesNode \/ NodeLosesServer

ConnectSpec == ConnectInit /\ [][ConnectNext]_connectVars

(* Timers fire, and sockets that both ends have closed are closed.           *)
ConnectFairness ==
  WF_connectVars(TunnelTimeout) /\ WF_connectVars(IdleFires) /\ WF_connectVars(BothEnded)

ConnectFairSpec == ConnectSpec /\ ConnectFairness

----------------------------------------------------------------------------
ConnectTypeOK ==
  /\ application \in Application /\ relay \in Relay /\ target \in Target
  /\ relay.timer => relay.record

Gapless(ns) == \A i \in 1..(Len(ns) - 1) : ns[i + 1] = ns[i] + 1
IsData(m) == m.type = "tunnel_data"
IsReply(m) == m.type \in {"200", "failed"}

(* remove() says "failed" to every SOCKS5 application, also to one that has  *)
(* been answered: what it got before that.                                   *)
BeforeLoss ==
  LET got == application.got
  IN IF relay.socks /\ ~up.server /\ Len(got) > 1 /\ Last(got).type = "failed" THEN Front(got) ELSE got

(* One reply, before anything else, and alone if it tells of a failure;      *)
(* behind it and the head each chunk at the place of its number.             *)
AnsweredThenFed(got) ==
  /\ \A i \in DOMAIN got : IsReply(got[i]) <=> i = 1
  /\ got # << >> /\ got[1].type = "failed" => Len(got) = 1
  /\ \A i \in DOMAIN got : IsData(got[i]) => got[i].n = i - 1 - application.head

(* The application gets one reply, before anything else, whichever of the    *)
(* node's answer, its failure, the timer and the end of the session come     *)
(* when; after it, what the target sent, from the start and without a gap.   *)
(* The target gets no chunk twice and none after a missing one.              *)
CleanTunnel == AnsweredThenFed(BeforeLoss) /\ Gapless(target.got)

(* The application is answered, or its socket ended: no CONNECT hangs,       *)
(* whatever the node does or fails to do.                                    *)
ConnectAnswered == relay.socket = "open" /\ ~relay.ready ~> relay.socket # "open" \/ relay.ready

(* An established tunnel whose application has closed its end is given up,   *)
(* although nothing listens to that.                                         *)
HalfOpenReclaimed ==
  relay.ready /\ relay.socket # "closed" /\ application.fin ~> ~relay.record

(* "every listener on a socket receives the same chunks, so nothing is       *)
(* consumed, nothing is unshifted and the tunnel pipe is untouched", and the *)
(* head "is handed to the node separately" (tls-sni.ts:95-101): what the     *)
(* target gets starts with the application's first byte.                     *)
FaithfulConnect == target.got # << >> => target.got[1] = 1

(* Idle tunnels are closed "so orphaned tunnels [...] do not pile up"        *)
(* (ws-server.ts:527): a record goes with its application.                   *)
OrphanReclaimed == relay.socket = "closed" ~> ~relay.record
=============================================================================
