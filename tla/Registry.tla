------------------------------ MODULE Registry ------------------------------
(* The server's registry of nodes (client-manager.ts) and its sessions       *)
(* (ws-server.ts), with the SOCKS5 tunnels that run over them: which socket  *)
(* owns a registration, and which tunnel a frame of a node is taken to be    *)
(* about.  The tunnels of all nodes share one map, pendingTunnels, keyed by  *)
(* the number of the stream - and every session numbers its streams from 1.  *)
EXTENDS Integers

CONSTANTS
  Client,      \* the stable ids of the nodes
  Session,     \* the WebSockets they open, in any order
  Tunnel,      \* the SOCKS5 sockets of applications
  Nobody,
  MaxStreams   \* bound: streams per session

ASSUME RegistryAssumption ==
  /\ Nobody \notin Client \cup Session \cup Tunnel
  /\ MaxStreams \in Nat \ {0}

StreamId == 1..MaxStreams

VARIABLES
  clients,          \* clients[c]: the socket registered for c
  ws,               \* ws[s]: the state of s, and the client it said it is
  mux,              \* mux[s]: the last stream number, the streams, their handlers' tunnels
  pendingTunnels,   \* pendingTunnels[i]: the tunnel whose record has key i
  tunnel            \* tunnel[t]: its stream, its replies, and the stream it was joined to

registryVars == <<clients, ws, mux, pendingTunnels, tunnel>>

Stream == Session \X StreamId

(* ids: client.pendingTunnels of the registration this session made.         *)
Mux == [last : 0..MaxStreams, streams : SUBSET StreamId, ids : SUBSET StreamId,
        handlers : [StreamId -> Tunnel \cup {Nobody}]]

TunnelRecord == [ state : {"idle", "waiting", "ready", "ended", "closed"},
                  timer : BOOLEAN, stream : Stream \cup {Nobody}, joined : Stream \cup {Nobody} ]

RegistryInit ==
  /\ clients = [c \in Client |-> Nobody]
  /\ ws = [s \in Session |-> [state |-> "open", client |-> Nobody]]
  /\ mux = [s \in Session |-> [last |-> 0, streams |-> {}, ids |-> {},
                               handlers |-> [i \in StreamId |-> Nobody]]]
  /\ pendingTunnels = [i \in StreamId |-> Nobody]
  /\ tunnel = [t \in Tunnel |-> [state |-> "idle", timer |-> FALSE,
                                 stream |-> Nobody, joined |-> Nobody]]

----------------------------------------------------------------------------
(* The keys in ids are deleted.                                              *)
Without(map, ids) == [i \in StreamId |-> IF i \in ids THEN Nobody ELSE map[i]]
EndedSilently(r) == [r EXCEPT !.timer = FALSE]
Ended(r) == [r EXCEPT !.state = IF @ = "closed" THEN @ ELSE "ended", !.timer = FALSE]
(* The tunnels of ts are told (a failure, or the end) and ended.             *)
EndAll(tunnels, ts) == [t \in Tunnel |-> IF t \in ts THEN Ended(tunnels[t]) ELSE tunnels[t]]
Found(map, ids) == {map[i] : i \in ids} \ {Nobody}
(* client.pendingTunnels.delete, for the records of the tunnels ts.          *)
Unlisted(m, ts) ==
  [s \in Session |-> [m[s] EXCEPT !.ids = {i \in @ : \A t \in ts : tunnel[t].stream # <<s, i>>}]]

(* ClientManager.remove of the registration s made, on tunnels and records   *)
(* that an earlier part of the step has left: whatever records are under     *)
(* its keys.                                                                 *)
RemoveClient(s, tunnels, pending) ==
  /\ tunnel' = EndAll(tunnels, Found(pending, mux[s].ids))
  /\ pendingTunnels' = Without(pending, mux[s].ids)

ClosingSocket(s) == [ws EXCEPT ![s].state = IF @ = "open" THEN "closing" ELSE @]
Identified(s) == ws[s].client # Nobody
OwnedById(s) == Identified(s) /\ clients[ws[s].client] # Nobody
Owned(s) == Identified(s) /\ clients[ws[s].client] = s

(* ClientManager.add, on 'info': the socket registered for c, if it is       *)
(* another, is closed and its registration removed.                          *)
Info(s, c) ==
  /\ ws[s] = [state |-> "open", client |-> Nobody]
  /\ LET old == clients[c]
         replaced == IF old = Nobody THEN ws ELSE ClosingSocket(old)
     IN /\ ws' = [replaced EXCEPT ![s].client = c]
        /\ IF old = Nobody THEN UNCHANGED <<tunnel, pendingTunnels>>
                         ELSE RemoveClient(old, tunnel, pendingTunnels)
  /\ clients' = [clients EXCEPT ![c] = s]
  /\ UNCHANGED mux

(* A kick, or the health check: ws.close(), then remove().                   *)
Kick(c) ==
  /\ clients[c] # Nobody
  /\ ws' = ClosingSocket(clients[c])
  /\ RemoveClient(clients[c], tunnel, pendingTunnels)
  /\ clients' = [clients EXCEPT ![c] = Nobody]
  /\ UNCHANGED mux

(* The health check when ws.ping() throws: remove() alone.                   *)
PingFailed(c) ==
  /\ clients[c] # Nobody
  /\ RemoveClient(clients[c], tunnel, pendingTunnels)
  /\ clients' = [clients EXCEPT ![c] = Nobody]
  /\ UNCHANGED <<ws, mux>>

(* The event 'close' or 'error' of a socket, however late: the mux fails its *)
(* streams, and the registration goes if this socket still owns it.          *)
CloseEvent(s) ==
  /\ ws[s].state # "closed"
  /\ ws' = [ws EXCEPT ![s].state = "closed"]
  /\ LET failed == {i \in mux[s].streams : mux[s].handlers[i] # Nobody}
         joined == Found(mux[s].handlers, failed)
         tunnels == EndAll(tunnel, joined)
         pending == Without(pendingTunnels, failed)
     IN /\ mux' = [Unlisted(mux, joined) EXCEPT ![s].streams = {}]
        /\ IF Owned(s)
             THEN RemoveClient(s, tunnels, pending) /\ clients' = [clients EXCEPT ![ws[s].client] = Nobody]
             ELSE tunnel' = tunnels /\ pendingTunnels' = pending /\ UNCHANGED clients

(* A heartbeat over a socket that owns no registration closes it.            *)
ServerHeartbeat(s) ==
  /\ ws[s].state = "open" /\ Identified(s) /\ ~Owned(s)
  /\ ws' = ClosingSocket(s)
  /\ UNCHANGED <<clients, mux, pendingTunnels, tunnel>>

----------------------------------------------------------------------------
(* handleTCPConnect through the node registered as c: the record goes under  *)
(* the stream's number, over whatever is there.                              *)
OpenTunnel(t, c) ==
  LET s == clients[c] IN
  /\ tunnel[t].state = "idle" /\ s # Nobody
  /\ ws[s].state # "closed" /\ mux[s].last < MaxStreams
  /\ LET i == mux[s].last + 1 IN
     /\ mux' = [mux EXCEPT ![s].last = i, ![s].streams = @ \cup {i}, ![s].ids = @ \cup {i}]
     /\ pendingTunnels' = [pendingTunnels EXCEPT ![i] = t]
     /\ tunnel' = [tunnel EXCEPT ![t].state = "waiting", ![t].timer = TRUE,
                                 ![t].stream = <<s, i>>]
  /\ UNCHANGED <<clients, ws>>

(* The node's HEADERS on stream i of session s.  The mux makes a stream for  *)
(* it when it has none (it retired the one it opened), and                   *)
(* dispatchClientStream looks the record up by the number alone.             *)
Frame(s, i) ==
  /\ ws[s].state # "closed" /\ i <= mux[s].last
  /\ i \in mux[s].streams => mux[s].handlers[i] = Nobody
Opened(s, i) ==
  [mux EXCEPT ![s].streams = @ \cup {i}, ![s].handlers[i] = Nobody]

OrphanFrame(s, i) ==
  /\ Frame(s, i) /\ pendingTunnels[i] = Nobody
  /\ mux' = [mux EXCEPT ![s].streams = @ \ {i}]
  /\ UNCHANGED <<clients, ws, pendingTunnels, tunnel>>

TunnelReady(s, i) ==
  LET t == pendingTunnels[i] IN
  /\ Frame(s, i) /\ t # Nobody
  /\ IF tunnel[t].joined # Nobody THEN mux' = Opened(s, i) /\ UNCHANGED tunnel
     ELSE /\ tunnel' = [tunnel EXCEPT ![t].timer = FALSE, ![t].joined = <<s, i>>,
                                      ![t].state = IF @ = "waiting" THEN "ready" ELSE @]
          /\ mux' = [Opened(s, i) EXCEPT ![s].handlers[i] = t]
  /\ UNCHANGED <<clients, ws, pendingTunnels>>

TunnelError(s, i) ==
  LET t == pendingTunnels[i] IN
  /\ Frame(s, i) /\ t # Nobody
  /\ tunnel' = EndAll(tunnel, {t})
  /\ pendingTunnels' = Without(pendingTunnels, {i})
  /\ mux' = Unlisted(Opened(s, i), {t})
  /\ UNCHANGED <<clients, ws>>

(* tunnel_timeout: t's own number is forgotten, whoever has it now.          *)
TunnelTimeout(t) ==
  /\ tunnel[t].timer
  /\ tunnel' = EndAll(tunnel, {t})
  /\ pendingTunnels' = Without(pendingTunnels, {tunnel[t].stream[2]})
  /\ mux' = Unlisted(mux, {t})
  /\ UNCHANGED <<clients, ws>>

(* cleanup() of t's socket, with the tunnel's own 'close' handler: both      *)
(* forget the number of t's stream, which is that of the stream it joined.   *)
SocketCloses(t) ==
  /\ tunnel[t].state \in {"waiting", "ready", "ended"}
  /\ tunnel' = [tunnel EXCEPT ![t].state = "closed", ![t].timer = FALSE]
  /\ pendingTunnels' = Without(pendingTunnels, {tunnel[t].stream[2]})
  /\ mux' = [Unlisted(mux, {t}) EXCEPT ![tunnel[t].stream[1]].streams = @ \ {tunnel[t].stream[2]}]
  /\ UNCHANGED <<clients, ws>>

RegistryNext ==
  \/ \E s \in Session, c \in Client : Info(s, c)
  \/ \E c \in Client : Kick(c) \/ PingFailed(c)
  \/ \E s \in Session : CloseEvent(s) \/ ServerHeartbeat(s)
  \/ \E t \in Tunnel, c \in Client : OpenTunnel(t, c)
  \/ \E s \in Session, i \in StreamId : OrphanFrame(s, i) \/ TunnelReady(s, i) \/ TunnelError(s, i)
  \/ \E t \in Tunnel : TunnelTimeout(t) \/ SocketCloses(t)

RegistrySpec == RegistryInit /\ [][RegistryNext]_registryVars

----------------------------------------------------------------------------
RegistryTypeOK ==
  /\ clients \in [Client -> Session \cup {Nobody}]
  /\ ws \in [Session -> [state : {"open", "closing", "closed"}, client : Client \cup {Nobody}]]
  /\ mux \in [Session -> Mux]
  /\ pendingTunnels \in [StreamId -> Tunnel \cup {Nobody}]
  /\ tunnel \in [Tunnel -> TunnelRecord]

(* A registered socket is one that said it is that client and is not closed: *)
(* nothing is routed to a socket that is gone.                               *)
RegistrationsLive ==
  \A c \in Client : clients[c] # Nobody =>
    ws[clients[c]].client = c /\ ws[clients[c]].state # "closed"

(* The late 'close' of a replaced socket never drops the registration of     *)
(* the socket that took over.                                                *)
Closed(s) == ws[s].state # "closed" /\ ws'[s].state = "closed"
StaleCloseHarmless ==
  [][\A s \in Session, c \in Client :
       Closed(s) /\ clients'[c] # clients[c] => clients[c] = s]_registryVars

(* An application that waits for its tunnel has a tunnel_timeout running,    *)
(* even when another tunnel has taken its record, or a frame of another node *)
(* was taken for its answer.                                                 *)
WaitingIsTimed == \A t \in Tunnel : tunnel[t].state = "waiting" => tunnel[t].timer

(* pendingTunnels does not fill with records of sockets that are gone: a     *)
(* record is that of a tunnel the application has not closed, whichever of   *)
(* the two that had its key closed first.                                    *)
RecordsHaveSockets ==
  \A i \in StreamId : pendingTunnels[i] # Nobody =>
    tunnel[pendingTunnels[i]].state \in {"waiting", "ready", "ended"}

(* Nothing is routed to a socket that is gone, no application waits for a    *)
(* tunnel without a timer, and no record outlives its application.           *)
RegistrationsSound == RegistrationsLive /\ WaitingIsTimed /\ RecordsHaveSockets

(* "A frame naming an id with no pending tunnel behind it belongs to a       *)
(* stream that was already retired", and one that names a tunnel is about    *)
(* that tunnel: an application is only ever joined to the stream that was    *)
(* opened for it.                                                            *)
JoinedToOwnStream ==
  \A t \in Tunnel : tunnel[t].joined # Nobody => tunnel[t].joined = tunnel[t].stream
=============================================================================
