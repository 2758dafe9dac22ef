---------------------------- MODULE Socks5Tunnel ----------------------------
(* One SOCKS5 CONNECT, end to end: the application's socket and the pending  *)
(* record at the server (proxy-socks5.ts, ws-server.ts), the stream between  *)
(* server and node (MuxSession), the tunnel and its target at the node       *)
(* (client.ts), and the WebSocket session that may end under it.  The        *)
(* handshake before CONNECT is over, and the application waits for the reply *)
(* before it sends, as RFC 1928 asks of it.                                  *)
EXTENDS MuxSession

VARIABLES
  socket,    \* the application's socket, and what was written to it
  record,    \* the entry of pendingTunnels, and the handlers of the tunnel
  tunnel     \* the node's side: the entry of activeTunnels and the target

tunnelVars == <<stream, wire, socket, record, tunnel, session>>

Item == [kind : {"reply", "data"}, n : Nat]
Reply(code) == [kind |-> "reply", n |-> code]
GRANTED == 0
GENERAL_FAILURE == 1
UNREACHABLE == 3

(* What the node's HEADERS say.                                              *)
TUNNEL_READY == 1
TUNNEL_ERROR == 2

(* closed: the event 'close' has fired; ended: end() was called on it.       *)
Socket == [ended : BOOLEAN, closed : BOOLEAN, out : Seq(Item)]
(* timer: tunnel_timeout is armed; ready: the tunnel's handlers are set.     *)
Record == [pending : BOOLEAN, ready : BOOLEAN, timer : BOOLEAN]
(* slot: activeTunnels has it; fin: end() was called on the target's socket; *)
(* in: what was written to the target; "dead" is destroyed but not closed.   *)
Tunnel == [ slot : BOOLEAN, target : {"none", "connecting", "open", "dead", "closed"},
            fin : BOOLEAN, reported : BOOLEAN, hardClose : BOOLEAN, in : Seq(Nat) ]

TunnelInit ==
  /\ SessionInit
  /\ socket = [ended |-> FALSE, closed |-> FALSE, out |-> << >>]
  /\ record = [pending |-> FALSE, ready |-> FALSE, timer |-> FALSE]
  /\ tunnel = [slot |-> FALSE, target |-> "none", fin |-> FALSE,
               reported |-> FALSE, hardClose |-> FALSE, in |-> << >>]

----------------------------------------------------------------------------
(* The application's socket.                                                 *)
Writes(k, item) ==
  IF k.closed \/ k.ended THEN k ELSE [k EXCEPT !.out = Append(@, item)]
Ends(k) == [k EXCEPT !.ended = TRUE]
Refused(k, code) == Ends(Writes(k, Reply(code)))

Dropped(c) == [c EXCEPT !.pending = FALSE, !.timer = FALSE]

(* stream._onError, set once the tunnel is ready: no reply, end the socket,  *)
(* drop the record.                                                          *)
OnError(k, c) ==
  IF c.ready THEN [socket |-> Ends(k), record |-> Dropped(c)]
             ELSE [socket |-> k, record |-> c]

(* ClientManager.remove: every pending tunnel is refused - ready or not.     *)
Removed(k, c) ==
  IF c.pending THEN [socket |-> Refused(k, UNREACHABLE), record |-> Dropped(c)]
               ELSE [socket |-> k, record |-> c]

----------------------------------------------------------------------------
(* The server's side.                                                        *)
Idle == stream[Server].state = "idle" /\ ~socket.ended /\ ~socket.closed

(* CONNECT refused by the ACL, for want of a node, of capacity or of a       *)
(* stream.                                                                   *)
Refuse ==
  /\ Idle
  /\ socket' = Refused(socket, GENERAL_FAILURE)
  /\ UNCHANGED <<stream, wire, record, tunnel, session>>

Connect ==
  /\ Idle /\ session[Server] = "open"
  /\ Calls(Server, OpenTunnel(stream[Server]))
  /\ record' = [record EXCEPT !.pending = TRUE, !.timer = TRUE]
  /\ UNCHANGED <<socket, tunnel, session>>

(* tunnel_timeout.  The stream is left to the cleanup of the socket.         *)
TunnelTimeout ==
  /\ record.timer
  /\ socket' = Refused(socket, UNREACHABLE)
  /\ record' = Dropped(record)
  /\ UNCHANGED <<stream, wire, tunnel, session>>

(* The idle timer of an established tunnel.                                  *)
IdleTimeout ==
  /\ record.ready /\ ~socket.ended /\ ~socket.closed
  /\ socket' = Ends(socket)
  /\ UNCHANGED <<stream, wire, record, tunnel, session>>

(* Data of the application, once it has its reply.                           *)
ApplicationSends ==
  /\ record.ready /\ ~socket.closed
  /\ \E n \in 1..(MaxUnits[Server] - stream[Server].written) :
       Calls(Server, SendData(stream[Server], n, FALSE))
  /\ UNCHANGED <<socket, record, tunnel, session>>

(* The socket is gone, by its own end or an error: cleanup(), then the       *)
(* handler of the tunnel, whose stream.close() finds it closed.              *)
SocketCloses ==
  /\ ~socket.closed
  /\ socket' = [socket EXCEPT !.closed = TRUE]
  /\ record' = Dropped(record)
  /\ IF stream[Server].state = "idle" THEN UNCHANGED <<stream, wire>>
     ELSE Calls(Server, CloseTunnel(stream[Server]))
  /\ UNCHANGED <<tunnel, session>>

(* A frame of the node reaches the server.                                   *)
Says(n) == Gets(Server, "HEADERS") /\ FrameAt(Server).n = n

(* dispatchClientStream: HEADERS of a tunnel nobody waits for any more.      *)
OrphanReleased ==
  /\ Gets(Server, "HEADERS") /\ ~record.pending
  /\ Handles(Server, After(Handled(Server), Reset))
  /\ LET q == OnError(socket, record) IN socket' = q.socket /\ record' = q.record
  /\ UNCHANGED <<tunnel, session>>

HandleTunnelReadyTimed ==
  /\ Says(TUNNEL_READY) /\ record.pending
  /\ Handles(Server, Handled(Server))
  /\ socket' = Writes(socket, Reply(GRANTED))
  /\ record' = [record EXCEPT !.ready = TRUE]
  /\ UNCHANGED <<tunnel, session>>

HandleTunnelReady ==
  /\ Says(TUNNEL_READY) /\ record.pending
  /\ Handles(Server, Handled(Server))
  /\ IF record.ready THEN UNCHANGED <<socket, record>>
     ELSE /\ socket' = Writes(socket, Reply(GRANTED))
          /\ record' = [record EXCEPT !.ready = TRUE, !.timer = FALSE]
  /\ UNCHANGED <<tunnel, session>>

HandleTunnelError ==
  /\ Says(TUNNEL_ERROR) /\ record.pending
  /\ Handles(Server, Handled(Server))
  /\ socket' = IF record.ready THEN Ends(socket) ELSE Refused(socket, GENERAL_FAILURE)
  /\ record' = Dropped(record)
  /\ UNCHANGED <<tunnel, session>>

(* _onData and _onEnd of a ready tunnel, one after the other.                *)
Relayed(k, f) ==
  LET w == IF f.n > 0 THEN Writes(k, [kind |-> "data", n |-> f.n]) ELSE k
  IN IF f.fin THEN Ends(w) ELSE w

HandleTunnelData ==
  /\ Gets(Server, "DATA")
  /\ Handles(Server, Handled(Server))
  /\ socket' = IF record.ready THEN Relayed(socket, FrameAt(Server)) ELSE socket
  /\ UNCHANGED <<record, tunnel, session>>

(* Everything the mux handles alone.                                         *)
ServerMux ==
  /\ Arrives(Server)
  /\ Known(Server) => FrameAt(Server).type = "WINDOW_UPDATE"
  /\ Handles(Server, Handled(Server))
  /\ UNCHANGED <<socket, record, tunnel, session>>

ServerReceives ==
  OrphanReleased \/ HandleTunnelReady \/ HandleTunnelError \/ HandleTunnelData \/ ServerMux

----------------------------------------------------------------------------
(* The node's side.                                                          *)
ReleasedTimer(t) == [t EXCEPT !.hardClose = FALSE]
Released(t) == [t EXCEPT !.slot = FALSE, !.hardClose = FALSE]

(* stream._onEnd: the server ended the tunnel.                               *)
OnEnd(t) == [t EXCEPT !.slot = FALSE, !.fin = TRUE,
                      !.hardClose = t.target \in {"connecting", "open"}]
(* stream._onError, and cleanupAll for one tunnel.                           *)
Destroyed(t) ==
  [Released(t) EXCEPT !.target = IF @ \in {"connecting", "open"} THEN "dead" ELSE @]

(* handleMuxTunnel: busy, a target that is no target, or a connection.       *)
HandleMuxTunnel ==
  /\ Arrives(Node) /\ FrameAt(Node).type = "TUNNEL_OPEN" /\ ~Known(Node)
  /\ \/ /\ tunnel' = [tunnel EXCEPT !.slot = TRUE, !.target = "connecting"]
        /\ Handles(Node, Handled(Node))
     \/ LET refusal(s) == After(SendHeaders(s, TUNNEL_ERROR, FALSE), Close)
        IN Handles(Node, After(Handled(Node), refusal)) /\ UNCHANGED tunnel
  /\ UNCHANGED <<socket, record, session>>

TunnelData(t, f) ==
  LET w == IF f.n > 0 /\ t.target \in {"connecting", "open"}
             THEN [t EXCEPT !.in = Append(@, f.n)] ELSE t
  IN IF f.fin /\ t.target # "none" THEN OnEnd(w) ELSE w

NodeHandlesData ==
  /\ Gets(Node, "DATA")
  /\ Handles(Node, Handled(Node))
  /\ tunnel' = TunnelData(tunnel, FrameAt(Node))
  /\ UNCHANGED <<socket, record, session>>

NodeHandlesReset ==
  /\ Gets(Node, "RST_STREAM")
  /\ Handles(Node, Handled(Node))
  /\ tunnel' = Destroyed(tunnel)
  /\ UNCHANGED <<socket, record, session>>

NodeMux ==
  /\ Arrives(Node)
  /\ IF Known(Node) THEN FrameAt(Node).type \in {"WINDOW_UPDATE", "TUNNEL_CLOSE"}
                    ELSE FrameAt(Node).type # "TUNNEL_OPEN"
  /\ Handles(Node, Handled(Node))
  /\ UNCHANGED <<socket, record, tunnel, session>>

NodeReceives == HandleMuxTunnel \/ NodeHandlesData \/ NodeHandlesReset \/ NodeMux

(* The target accepts: the timer is cleared, and its data is forwarded.      *)
TargetConnects ==
  /\ tunnel.target = "connecting"
  /\ tunnel' = [tunnel EXCEPT !.target = "open"]
  /\ Calls(Node, SendHeaders(stream[Node], TUNNEL_READY, FALSE))
  /\ UNCHANGED <<socket, record, session>>

(* failTunnel, on an error or tunnel_timeout of the connection.              *)
FailTunnel ==
  /\ tunnel.target = "connecting"
  /\ tunnel' = [Released(tunnel) EXCEPT !.target = "dead", !.reported = TRUE]
  /\ IF tunnel.reported THEN UNCHANGED <<stream, wire>>
     ELSE Calls(Node, After(SendHeaders(stream[Node], TUNNEL_ERROR, FALSE), Close))
  /\ UNCHANGED <<socket, record, session>>

TargetSends ==
  /\ tunnel.target = "open"
  /\ \E n \in 1..(MaxUnits[Node] - stream[Node].written) :
       Calls(Node, SendData(stream[Node], n, FALSE))
  /\ UNCHANGED <<socket, record, tunnel, session>>

(* hardClose, or an error of the established connection: destroy().          *)
TargetDies ==
  /\ tunnel.target = "open" \/ (tunnel.hardClose /\ tunnel.target = "connecting")
  /\ tunnel' = [tunnel EXCEPT !.target = "dead", !.hardClose = FALSE]
  /\ UNCHANGED <<stream, wire, socket, record, session>>

(* 'close' of the target's socket, which it or either side has ended.  The   *)
(* _onEnd that stream.close() may call changes nothing more.                 *)
TargetClosed ==
  /\ tunnel.target \in {"open", "dead"}
  /\ tunnel' = [Released(tunnel) EXCEPT !.target = "closed"]
  /\ Calls(Node, Close(stream[Node]))
  /\ UNCHANGED <<socket, record, session>>

----------------------------------------------------------------------------
(* The session ends for e: the mux fails every stream, and the registration  *)
(* (or, at the node, everything active) goes.                                *)
SessionEnds(e) ==
  /\ Closes(e)
  /\ IF e = Server
       THEN LET q == OnError(socket, record)
                removed == Removed(q.socket, q.record)
            IN socket' = removed.socket /\ record' = removed.record /\ UNCHANGED tunnel
       ELSE tunnel' = Destroyed(tunnel) /\ UNCHANGED <<socket, record>>

(* The event 'error' of the server's socket: mux.destroy() forgets the       *)
(* streams without a word, and remove() follows.                             *)
SessionFails ==
  /\ Closes(Server)
  /\ LET q == Removed(socket, record) IN socket' = q.socket /\ record' = q.record
  /\ UNCHANGED tunnel

(* remove() with the socket still there: replaced, kicked, or given up by    *)
(* the health check, which call ws.close() first.                            *)
Kick ==
  /\ ServerCloses
  /\ LET q == Removed(socket, record) IN socket' = q.socket /\ record' = q.record
  /\ UNCHANGED tunnel

TunnelNext ==
  \/ Refuse \/ Connect \/ TunnelTimeout \/ IdleTimeout
  \/ ApplicationSends \/ SocketCloses \/ ServerReceives
  \/ NodeReceives
  \/ TargetConnects \/ FailTunnel \/ TargetSends \/ TargetDies \/ TargetClosed
  \/ Kick \/ SessionFails
  \/ \E e \in End : SessionEnds(e)

TunnelSpec == TunnelInit /\ [][TunnelNext]_tunnelVars

(* The sockets deliver, timers fire (the node's connection timer and         *)
(* hardClose among them), a destroyed socket closes, and an end of the       *)
(* session reaches the other end.                                            *)
TunnelFairness ==
  /\ WF_tunnelVars(ServerReceives)
  /\ WF_tunnelVars(NodeReceives)
  /\ WF_tunnelVars(TunnelTimeout)
  /\ WF_tunnelVars(TargetConnects \/ FailTunnel)
  /\ WF_tunnelVars(tunnel.hardClose /\ TargetDies)
  /\ WF_tunnelVars(tunnel.target = "dead" /\ TargetClosed)
  /\ \A e \in End : WF_tunnelVars(session[Other(e)] # "open" /\ SessionEnds(e))

TunnelFairSpec == TunnelSpec /\ TunnelFairness

----------------------------------------------------------------------------
TunnelTypeOK ==
  /\ SessionTypeOK
  /\ socket \in Socket /\ record \in Record /\ tunnel \in Tunnel
  /\ tunnel.slot => tunnel.target \in {"connecting", "open", "dead"}
  /\ record.timer => record.pending /\ ~record.ready

(* The application reads one reply, and data only behind a reply that        *)
(* granted the connection: handleTunnelReady, the errors and the timers      *)
(* never answer twice, in whatever order they come.  Only remove(), which    *)
(* does not ask whether the tunnel is ready, may write a second one, last.   *)
ReplyThenData(i) ==
  IF i = 1 THEN socket.out[1].kind = "reply"
  ELSE socket.out[i].kind = "data" /\ socket.out[1] = Reply(GRANTED)
OneReplyUntilRemoved ==
  \A i \in 1..Len(socket.out) :
    \/ ReplyThenData(i)
    \/ i = Len(socket.out) /\ socket.out[i] = Reply(UNREACHABLE) /\ session[Server] # "open"

(* Each side reads a prefix of what the other wrote, whatever is buffered,   *)
(* timed out or torn down on the way.                                        *)
Units1To(s) == \A i \in 1..Len(s) : s[i] = i
DataUpTo(i) == {j \in 1..i : socket.out[j].kind = "data"}
FaithfulRelay ==
  /\ Units1To(tunnel.in) /\ Len(tunnel.in) <= stream[Server].written
  /\ \A i \in DataUpTo(Len(socket.out)) :
       socket.out[i].n = Cardinality(DataUpTo(i)) /\ socket.out[i].n <= stream[Node].written

(* An application that asked for a tunnel and still waits has a timer that   *)
(* will answer it.                                                           *)
UnansweredHasTimer ==
  (stream[Server].state # "idle" /\ socket.out = << >> /\ ~socket.closed)
    => record.pending /\ record.timer

(* No stream outlives the socket it serves, and no record the tunnel: the    *)
(* leaks that once filled the table of streams.                              *)
StreamHasOwner ==
  socket.closed => ~record.pending /\ (Known(Server) => stream[Server].state = "idle")

(* Once the application's socket is gone the node gives the tunnel's slot    *)
(* back, whatever the target does.                                           *)
SlotReleased == (socket.closed /\ tunnel.slot) ~> ~tunnel.slot

(* "A finished mux stream must be released on both sides": once the          *)
(* application's socket and the target's are gone, so is the node's stream.  *)
ReleasedOnBothSides ==
  (socket.closed /\ tunnel.target = "closed") ~> ~Known(Node)
=============================================================================
