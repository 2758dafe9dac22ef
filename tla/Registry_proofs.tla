--------------------------- MODULE Registry_proofs ---------------------------
(* The registry is sound for any number of nodes, sockets and tunnels: what  *)
(* is registered is live, late events of replaced sockets harm nobody, and   *)
(* the shared map of records never keeps one whose application has gone.     *)
EXTENDS Registry, TLAPS

Attended == {"waiting", "ready", "ended"}

(* A tunnel that was begun has a stream, a timer belongs to one that was     *)
(* begun, and one that waits has a timer.                                    *)
TunnelsOK(tun) ==
  \A t \in Tunnel : /\ tun[t].state # "idle" => tun[t].stream \in Stream
                    /\ tun[t].timer => tun[t].state # "idle"
                    /\ tun[t].state = "waiting" => tun[t].timer

(* Sessions and tunnels share the keys, but a tunnel's record is only ever   *)
(* under the number of its own stream: who forgets that number forgets it.   *)
KeysOK(tun, map) ==
  \A i \in StreamId : map[i] # Nobody => tun[map[i]].state \in Attended /\ tun[map[i]].stream[2] = i

HandlersOK(tun, m) ==
  \A s \in Session, i \in StreamId : m[s].handlers[i] # Nobody => tun[m[s].handlers[i]].state # "idle"

RegistryInv ==
  /\ RegistryTypeOK
  /\ RegistrationsLive
  /\ TunnelsOK(tunnel)
  /\ KeysOK(tunnel, pendingTunnels)
  /\ HandlersOK(tunnel, mux)

(* One state of the tunnels follows from another: the same tunnels are begun *)
(* and have the same streams, and no application has gone.                   *)
Follows(tun, new) ==
  \A t \in Tunnel : /\ new[t].stream = tun[t].stream
                    /\ new[t].state = "idle" <=> tun[t].state = "idle"
                    /\ tun[t].state \in Attended => new[t].state \in Attended

TunnelMap == [Tunnel -> TunnelRecord]
RecordMap == [StreamId -> Tunnel \cup {Nobody}]

----------------------------------------------------------------------------
(* Ending tunnels that were begun keeps them begun.                          *)
LEMMA EndingKeeps ==
  ASSUME NEW tun \in TunnelMap, TunnelsOK(tun), NEW ts \in SUBSET Tunnel,
         \A t \in ts : tun[t].state # "idle"
  PROVE  /\ EndAll(tun, ts) \in TunnelMap
         /\ TunnelsOK(EndAll(tun, ts))
         /\ Follows(tun, EndAll(tun, ts))
<1> DEFINE new == EndAll(tun, ts)
<1>1. ASSUME NEW r \in TunnelRecord
      PROVE  /\ Ended(r) \in TunnelRecord
             /\ Ended(r).stream = r.stream
             /\ Ended(r).state = IF r.state = "closed" THEN "closed" ELSE "ended"
             /\ Ended(r).timer = FALSE
  BY DEF Ended, TunnelRecord
<1>2. ASSUME NEW t \in Tunnel
      PROVE  /\ tun[t] \in TunnelRecord
             /\ new[t] = IF t \in ts THEN Ended(tun[t]) ELSE tun[t]
  BY DEF EndAll, TunnelMap
<1>3. new \in TunnelMap
  BY <1>1 DEF EndAll, TunnelMap
<1>4. ASSUME NEW t \in Tunnel
      PROVE  /\ new[t].state # "idle" => new[t].stream \in Stream
             /\ new[t].timer => new[t].state # "idle"
             /\ new[t].state = "waiting" => new[t].timer
  <2>1. CASE t \in ts
    <3>1. new[t] = Ended(tun[t]) /\ tun[t].state # "idle" /\ tun[t] \in TunnelRecord
      BY <1>2, <2>1
    <3>2. tun[t].stream \in Stream
      BY <3>1 DEF TunnelsOK
    <3>3. Ended(tun[t]).stream = tun[t].stream
      BY <3>1, <1>1
    <3>4. Ended(tun[t]).timer = FALSE
      BY <3>1, <1>1
    <3>5. Ended(tun[t]).state # "waiting"
      BY <3>1, <1>1
    <3>6. new[t].stream \in Stream /\ new[t].timer = FALSE /\ new[t].state # "waiting"
      BY <3>1, <3>2, <3>3, <3>4, <3>5
    <3> QED BY <3>6
  <2>2. CASE t \notin ts
    <3>1. new[t] = tun[t]
      BY <1>2, <2>2
    <3> QED BY <3>1 DEF TunnelsOK
  <2> QED BY <2>1, <2>2
<1>5. Follows(tun, new)
  BY <1>1, <1>2 DEF Follows, Attended
<1>6. TunnelsOK(new)
  BY <1>4 DEF TunnelsOK
<1> QED BY <1>3, <1>5, <1>6

(* Deleting keys leaves the other records where they were.                   *)
LEMMA DeletingKeeps ==
  ASSUME NEW tun \in TunnelMap, NEW new \in TunnelMap, Follows(tun, new),
         NEW map \in RecordMap, KeysOK(tun, map), NEW ids \in SUBSET StreamId
  PROVE  /\ Without(map, ids) \in RecordMap
         /\ KeysOK(new, Without(map, ids))
<1>1. Without(map, ids) \in RecordMap
  BY DEF Without, RecordMap
<1>2. ASSUME NEW i \in StreamId, Without(map, ids)[i] # Nobody
      PROVE  Without(map, ids)[i] = map[i] /\ map[i] \in Tunnel
  BY <1>2 DEF Without, RecordMap
<1>3. ASSUME NEW i \in StreamId, Without(map, ids)[i] # Nobody
      PROVE  new[map[i]].state \in Attended /\ new[map[i]].stream[2] = i
  BY <1>2, <1>3 DEF KeysOK, Follows
<1> QED BY <1>1, <1>2, <1>3 DEF KeysOK

(* The tunnels found under keys are tunnels that were begun.                 *)
LEMMA FoundAreBegun ==
  ASSUME NEW tun \in TunnelMap, NEW map \in RecordMap, NEW ids \in SUBSET StreamId,
         \A i \in StreamId : map[i] # Nobody => tun[map[i]].state # "idle"
  PROVE  Found(map, ids) \in SUBSET Tunnel /\ \A t \in Found(map, ids) : tun[t].state # "idle"
BY DEF Found, RecordMap

LEMMA KeysAreBegun ==
  ASSUME NEW tun \in TunnelMap, NEW map \in RecordMap, KeysOK(tun, map)
  PROVE  \A i \in StreamId : map[i] # Nobody => tun[map[i]].state # "idle"
BY DEF KeysOK, Attended

(* Handlers of tunnels that were begun stay so.                              *)
LEMMA HandlersKeep ==
  ASSUME NEW tun \in TunnelMap, NEW new \in TunnelMap, Follows(tun, new),
         NEW m \in [Session -> Mux], HandlersOK(tun, m)
  PROVE  HandlersOK(new, m)
BY DEF HandlersOK, Follows, Mux

(* remove(), after whatever the step has done before it.                     *)
LEMMA RemovingKeeps ==
  ASSUME mux \in [Session -> Mux], NEW s \in Session,
         NEW tun \in TunnelMap, TunnelsOK(tun), NEW map \in RecordMap, KeysOK(tun, map),
         RemoveClient(s, tun, map)
  PROVE  /\ tunnel' \in TunnelMap /\ pendingTunnels' \in RecordMap
         /\ TunnelsOK(tunnel') /\ KeysOK(tunnel', pendingTunnels')
         /\ Follows(tun, tunnel')
<1>1. mux[s].ids \in SUBSET StreamId
  BY DEF Mux
<1>2. /\ Found(map, mux[s].ids) \in SUBSET Tunnel
      /\ \A t \in Found(map, mux[s].ids) : tun[t].state # "idle"
  BY <1>1, KeysAreBegun, FoundAreBegun
<1>3. tunnel' \in TunnelMap /\ TunnelsOK(tunnel') /\ Follows(tun, tunnel')
  BY <1>2, EndingKeeps DEF RemoveClient
<1>4. pendingTunnels' \in RecordMap /\ KeysOK(tunnel', pendingTunnels')
  BY <1>1, <1>3, DeletingKeeps DEF RemoveClient
<1> QED BY <1>3, <1>4

(* Unlisting changes no stream and no handler.                               *)
LEMMA UnlistingKeeps ==
  ASSUME NEW m \in [Session -> Mux], NEW ts
  PROVE  /\ Unlisted(m, ts) \in [Session -> Mux]
         /\ \A s \in Session : /\ Unlisted(m, ts)[s].handlers = m[s].handlers
                               /\ Unlisted(m, ts)[s].streams = m[s].streams
BY DEF Unlisted, Mux

----------------------------------------------------------------------------
(* The initial states.                                                       *)
LEMMA RegistryInvInit == RegistryInit => RegistryInv
<1> SUFFICES ASSUME RegistryInit PROVE RegistryInv
  OBVIOUS
<1>1. 0 \in 0..MaxStreams
  BY RegistryAssumption
<1>2. RegistryTypeOK
  BY <1>1 DEF RegistryInit, RegistryTypeOK, Mux, TunnelRecord
<1>3. RegistrationsLive
  BY DEF RegistryInit, RegistrationsLive
<1>4. TunnelsOK(tunnel) /\ KeysOK(tunnel, pendingTunnels) /\ HandlersOK(tunnel, mux)
  BY DEF RegistryInit, TunnelsOK, KeysOK, HandlersOK
<1> QED BY <1>2, <1>3, <1>4 DEF RegistryInv

(* The registrations look at clients and ws alone; the tunnels, at the rest. *)
LEMMA InfoKeeps ==
  ASSUME RegistryInv, NEW s \in Session, NEW c \in Client, Info(s, c)
  PROVE  RegistryInv'
<1> DEFINE old == clients[c]
<1> USE DEF RegistryInv
<1>1. /\ clients \in [Client -> Session \cup {Nobody}]
      /\ ws \in [Session -> [state : {"open", "closing", "closed"}, client : Client \cup {Nobody}]]
      /\ mux \in [Session -> Mux] /\ tunnel \in TunnelMap /\ pendingTunnels \in RecordMap
      /\ mux' = mux /\ clients' = [clients EXCEPT ![c] = s]
      /\ ws[s] = [state |-> "open", client |-> Nobody]
  BY DEF RegistryTypeOK, TunnelMap, RecordMap, Info
<1>2. /\ ws' \in [Session -> [state : {"open", "closing", "closed"}, client : Client \cup {Nobody}]]
      /\ ws'[s] = [state |-> "open", client |-> c]
      /\ \A u \in Session \ {s} : ws'[u].client = ws[u].client
      /\ \A u \in Session : ws[u].state # "closed" => ws'[u].state # "closed"
  <2>1. CASE old = Nobody
    <3>1. ws' = [ws EXCEPT ![s].client = c]
      BY <2>1 DEF Info
    <3> QED BY <1>1, <3>1
  <2>2. CASE old # Nobody
    <3>1. old \in Session /\ old # s
      BY <1>1, <2>2, RegistryAssumption DEF RegistrationsLive
    <3>2. ws' = [ClosingSocket(old) EXCEPT ![s].client = c]
      BY <2>2 DEF Info
    <3> QED BY <1>1, <3>1, <3>2 DEF ClosingSocket
  <2> QED BY <2>1, <2>2
<1>3. RegistrationsLive'
  BY <1>1, <1>2, RegistryAssumption DEF RegistrationsLive
<1>4. /\ tunnel' \in TunnelMap /\ pendingTunnels' \in RecordMap
      /\ TunnelsOK(tunnel') /\ KeysOK(tunnel', pendingTunnels') /\ HandlersOK(tunnel', mux')
  <2>1. CASE old = Nobody
    <3>1. tunnel' = tunnel /\ pendingTunnels' = pendingTunnels
      BY <2>1 DEF Info
    <3> QED BY <1>1, <3>1
  <2>2. CASE old # Nobody
    <3>1. old \in Session /\ RemoveClient(old, tunnel, pendingTunnels)
      BY <1>1, <2>2 DEF Info
    <3>2. /\ tunnel' \in TunnelMap /\ pendingTunnels' \in RecordMap
          /\ TunnelsOK(tunnel') /\ KeysOK(tunnel', pendingTunnels') /\ Follows(tunnel, tunnel')
      BY <1>1, <3>1, RemovingKeeps
    <3>3. HandlersOK(tunnel', mux)
      BY <1>1, <3>2, HandlersKeep
    <3> QED BY <1>1, <3>2, <3>3
  <2> QED BY <2>1, <2>2
<1>5. RegistryTypeOK'
  BY <1>1, <1>2, <1>4 DEF RegistryTypeOK, TunnelMap, RecordMap
<1>6. TunnelsOK(tunnel)' /\ KeysOK(tunnel, pendingTunnels)' /\ HandlersOK(tunnel, mux)'
  BY <1>4 DEF TunnelsOK, KeysOK, HandlersOK
<1> QED BY <1>3, <1>5, <1>6

(* A kick and a failed ping: the registration goes with its tunnels.         *)
LEMMA RemovalKeeps ==
  ASSUME RegistryInv, NEW c \in Client, Kick(c) \/ PingFailed(c)
  PROVE  RegistryInv'
<1> USE DEF RegistryInv
<1>1. /\ clients \in [Client -> Session \cup {Nobody}]
      /\ ws \in [Session -> [state : {"open", "closing", "closed"}, client : Client \cup {Nobody}]]
      /\ mux \in [Session -> Mux] /\ tunnel \in TunnelMap /\ pendingTunnels \in RecordMap
      /\ mux' = mux /\ clients' = [clients EXCEPT ![c] = Nobody]
      /\ clients[c] \in Session /\ RemoveClient(clients[c], tunnel, pendingTunnels)
      /\ ws' = ws \/ ws' = ClosingSocket(clients[c])
  BY DEF RegistryTypeOK, TunnelMap, RecordMap, Kick, PingFailed
<1>2. /\ ws' \in [Session -> [state : {"open", "closing", "closed"}, client : Client \cup {Nobody}]]
      /\ \A u \in Session : /\ ws'[u].client = ws[u].client
                            /\ ws[u].state # "closed" => ws'[u].state # "closed"
  BY <1>1 DEF ClosingSocket
<1>3. RegistrationsLive'
  BY <1>1, <1>2 DEF RegistrationsLive
<1>4. /\ tunnel' \in TunnelMap /\ pendingTunnels' \in RecordMap
      /\ TunnelsOK(tunnel') /\ KeysOK(tunnel', pendingTunnels') /\ Follows(tunnel, tunnel')
  BY <1>1, RemovingKeeps
<1>5. HandlersOK(tunnel', mux)
  BY <1>1, <1>4, HandlersKeep
<1>6. RegistryTypeOK'
  BY <1>1, <1>2, <1>4 DEF RegistryTypeOK, TunnelMap, RecordMap
<1>7. TunnelsOK(tunnel)' /\ KeysOK(tunnel, pendingTunnels)' /\ HandlersOK(tunnel, mux)'
  BY <1>1, <1>4, <1>5 DEF TunnelsOK, KeysOK, HandlersOK
<1> QED BY <1>3, <1>6, <1>7
----------------------------------------------------------------------------
(* What an action on tunnels owes the invariant.                             *)
LEMMA TunnelsOnly ==
  ASSUME RegistryInv, UNCHANGED <<clients, ws>>,
         mux' \in [Session -> Mux], tunnel' \in TunnelMap, pendingTunnels' \in RecordMap,
         TunnelsOK(tunnel'), KeysOK(tunnel', pendingTunnels'), HandlersOK(tunnel', mux')
  PROVE  RegistryInv'
<1>1. RegistryTypeOK'
  BY DEF RegistryInv, RegistryTypeOK, TunnelMap, RecordMap
<1>2. RegistrationsLive'
  BY DEF RegistryInv, RegistrationsLive
<1>3. TunnelsOK(tunnel)' /\ KeysOK(tunnel, pendingTunnels)' /\ HandlersOK(tunnel, mux)'
  BY DEF TunnelsOK, KeysOK, HandlersOK
<1> QED BY <1>1, <1>2, <1>3 DEF RegistryInv

LEMMA TypesOfInv ==
  RegistryInv =>
    /\ clients \in [Client -> Session \cup {Nobody}]
    /\ ws \in [Session -> [state : {"open", "closing", "closed"}, client : Client \cup {Nobody}]]
    /\ mux \in [Session -> Mux] /\ tunnel \in TunnelMap /\ pendingTunnels \in RecordMap
    /\ RegistrationsLive
    /\ TunnelsOK(tunnel) /\ KeysOK(tunnel, pendingTunnels) /\ HandlersOK(tunnel, mux)
BY DEF RegistryInv, RegistryTypeOK, TunnelMap, RecordMap

(* The mux of a session has failed its streams: tunnels are ended, and keys  *)
(* and streams forgotten.                                                    *)
LEMMA CloseKeeps ==
  ASSUME RegistryInv, NEW s \in Session, CloseEvent(s)
  PROVE  RegistryInv'
<1> DEFINE failed == {i \in mux[s].streams : mux[s].handlers[i] # Nobody}
           joined == Found(mux[s].handlers, failed)
           tunnels == EndAll(tunnel, joined)
           pending == Without(pendingTunnels, failed)
<1>1. /\ failed \in SUBSET StreamId /\ mux[s].handlers \in RecordMap
      /\ joined \in SUBSET Tunnel /\ \A t \in joined : tunnel[t].state # "idle"
  <2>1. failed \in SUBSET StreamId /\ mux[s].handlers \in RecordMap
    BY TypesOfInv DEF Mux, RecordMap
  <2>2. \A i \in StreamId : mux[s].handlers[i] # Nobody => tunnel[mux[s].handlers[i]].state # "idle"
    BY TypesOfInv DEF HandlersOK
  <2> QED BY <2>1, <2>2, TypesOfInv, FoundAreBegun
<1>2. tunnels \in TunnelMap /\ TunnelsOK(tunnels) /\ Follows(tunnel, tunnels)
  BY <1>1, TypesOfInv, EndingKeeps
<1>3. pending \in RecordMap /\ KeysOK(tunnels, pending)
  BY <1>1, <1>2, TypesOfInv, DeletingKeeps
<1>4. /\ mux' \in [Session -> Mux]
      /\ \A u \in Session : mux'[u].handlers = mux[u].handlers
  <2>1. mux' = [Unlisted(mux, joined) EXCEPT ![s].streams = {}]
    BY DEF CloseEvent
  <2>2. /\ Unlisted(mux, joined) \in [Session -> Mux]
        /\ \A u \in Session : Unlisted(mux, joined)[u].handlers = mux[u].handlers
    BY TypesOfInv, UnlistingKeeps
  <2> QED BY <2>1, <2>2 DEF Mux
<1>5. /\ tunnel' \in TunnelMap /\ pendingTunnels' \in RecordMap
      /\ TunnelsOK(tunnel') /\ KeysOK(tunnel', pendingTunnels') /\ Follows(tunnel, tunnel')
  <2>1. CASE Owned(s)
    <3>1. RemoveClient(s, tunnels, pending)
      BY <2>1 DEF CloseEvent
    <3>2. /\ tunnel' \in TunnelMap /\ pendingTunnels' \in RecordMap
          /\ TunnelsOK(tunnel') /\ KeysOK(tunnel', pendingTunnels') /\ Follows(tunnels, tunnel')
      BY <1>2, <1>3, <3>1, TypesOfInv, RemovingKeeps
    <3>3. Follows(tunnel, tunnel')
      BY <1>2, <3>2 DEF Follows
    <3> QED BY <3>2, <3>3
  <2>2. CASE ~Owned(s)
    <3>1. tunnel' = tunnels /\ pendingTunnels' = pending
      BY <2>2 DEF CloseEvent
    <3> QED BY <1>2, <1>3, <3>1
  <2> QED BY <2>1, <2>2
<1>6. HandlersOK(tunnel', mux')
  <2>1. HandlersOK(tunnel', mux)
    BY <1>5, TypesOfInv, HandlersKeep
  <2> QED BY <1>4, <2>1 DEF HandlersOK
<1>7. /\ ws' \in [Session -> [state : {"open", "closing", "closed"}, client : Client \cup {Nobody}]]
      /\ \A u \in Session : /\ ws'[u].client = ws[u].client
                            /\ u # s => ws'[u] = ws[u]
  BY TypesOfInv DEF CloseEvent
<1>8. /\ clients' \in [Client -> Session \cup {Nobody}]
      /\ \A c \in Client : clients'[c] # Nobody => clients'[c] = clients[c] /\ clients[c] # s
  <2>1. CASE Owned(s)
    <3>1. clients' = [clients EXCEPT ![ws[s].client] = Nobody] /\ ws[s].client \in Client
      BY <2>1, TypesOfInv DEF CloseEvent, Owned, Identified
    <3>2. \A c \in Client : clients[c] = s => c = ws[s].client
      BY TypesOfInv, RegistryAssumption DEF RegistrationsLive
    <3> QED BY <3>1, <3>2, TypesOfInv
  <2>2. CASE ~Owned(s)
    <3>1. clients' = clients
      BY <2>2 DEF CloseEvent
    <3>2. ASSUME NEW c \in Client, clients[c] = s
          PROVE  FALSE
      <4>1. ws[s].client = c
        BY <3>2, TypesOfInv, RegistryAssumption DEF RegistrationsLive
      <4>2. Owned(s)
        BY <3>2, <4>1, RegistryAssumption DEF Owned, Identified
      <4> QED BY <2>2, <4>2
    <3> QED BY <3>1, <3>2, TypesOfInv
  <2> QED BY <2>1, <2>2
<1>9. RegistrationsLive'
  BY <1>7, <1>8, TypesOfInv DEF RegistrationsLive
<1>10. RegistryTypeOK'
  BY <1>4, <1>5, <1>7, <1>8 DEF RegistryTypeOK, TunnelMap, RecordMap
<1>11. TunnelsOK(tunnel)' /\ KeysOK(tunnel, pendingTunnels)' /\ HandlersOK(tunnel, mux)'
  BY <1>5, <1>6 DEF TunnelsOK, KeysOK, HandlersOK
<1> QED BY <1>9, <1>10, <1>11 DEF RegistryInv

LEMMA HeartbeatKeeps ==
  ASSUME RegistryInv, NEW s \in Session, ServerHeartbeat(s)
  PROVE  RegistryInv'
<1>1. /\ ws' \in [Session -> [state : {"open", "closing", "closed"}, client : Client \cup {Nobody}]]
      /\ \A u \in Session : /\ ws'[u].client = ws[u].client
                            /\ ws[u].state # "closed" => ws'[u].state # "closed"
  BY TypesOfInv DEF ServerHeartbeat, ClosingSocket
<1>2. UNCHANGED <<clients, mux, pendingTunnels, tunnel>>
  BY DEF ServerHeartbeat
<1>3. RegistryTypeOK'
  BY <1>1, <1>2 DEF RegistryInv, RegistryTypeOK
<1>4. RegistrationsLive'
  BY <1>1, <1>2, TypesOfInv DEF RegistrationsLive
<1>5. TunnelsOK(tunnel)' /\ KeysOK(tunnel, pendingTunnels)' /\ HandlersOK(tunnel, mux)'
  BY <1>2, TypesOfInv DEF TunnelsOK, KeysOK, HandlersOK
<1> QED BY <1>3, <1>4, <1>5 DEF RegistryInv
----------------------------------------------------------------------------
(* A tunnel that waits to be begun is begun: it takes the next number of its *)
(* session, and the record under it.                                         *)
LEMMA OpenKeeps ==
  ASSUME RegistryInv, NEW t \in Tunnel, NEW c \in Client, OpenTunnel(t, c)
  PROVE  RegistryInv'
<1> DEFINE s == clients[c]
           i == mux[s].last + 1
<1>1. s \in Session /\ mux[s] \in Mux /\ i \in StreamId /\ tunnel[t].state = "idle" /\ t # Nobody
  BY TypesOfInv, RegistryAssumption DEF OpenTunnel, Mux, StreamId
<1>2. /\ mux' = [mux EXCEPT ![s].last = i, ![s].streams = @ \cup {i}, ![s].ids = @ \cup {i}]
      /\ pendingTunnels' = [pendingTunnels EXCEPT ![i] = t]
      /\ tunnel' = [tunnel EXCEPT ![t].state = "waiting", ![t].timer = TRUE, ![t].stream = <<s, i>>]
      /\ UNCHANGED <<clients, ws>>
  BY DEF OpenTunnel
<1>3. /\ mux' \in [Session -> Mux]
      /\ \A u \in Session : mux'[u].handlers = mux[u].handlers
  <2>1. i \in 0..MaxStreams
    BY <1>1, RegistryAssumption DEF StreamId
  <2> HIDE DEF i
  <2> QED BY <1>1, <1>2, <2>1, TypesOfInv DEF Mux
<1> HIDE DEF i, s
<1>4. pendingTunnels' \in RecordMap
  BY <1>1, <1>2, TypesOfInv DEF RecordMap
<1>5. <<s, i>> \in Stream
  BY <1>1 DEF Stream
<1>6. /\ tunnel' \in TunnelMap
      /\ tunnel'[t].state = "waiting" /\ tunnel'[t].timer = TRUE /\ tunnel'[t].stream = <<s, i>>
      /\ \A u \in Tunnel \ {t} : tunnel'[u] = tunnel[u]
  BY <1>2, <1>5, TypesOfInv DEF TunnelMap, TunnelRecord
<1>7. TunnelsOK(tunnel')
  <2>1. ASSUME NEW u \in Tunnel
        PROVE  /\ tunnel'[u].state # "idle" => tunnel'[u].stream \in Stream
               /\ tunnel'[u].timer => tunnel'[u].state # "idle"
               /\ tunnel'[u].state = "waiting" => tunnel'[u].timer
    <3>1. CASE u = t
      BY <1>5, <1>6, <3>1
    <3>2. CASE u # t
      <4>1. tunnel'[u] = tunnel[u]
        BY <1>6, <3>2
      <4> QED BY <4>1, TypesOfInv DEF TunnelsOK
    <3> QED BY <3>1, <3>2
  <2> QED BY <2>1 DEF TunnelsOK
<1>8. KeysOK(tunnel', pendingTunnels')
  <2>1. ASSUME NEW j \in StreamId, pendingTunnels'[j] # Nobody
        PROVE  /\ tunnel'[pendingTunnels'[j]].state \in Attended
               /\ tunnel'[pendingTunnels'[j]].stream[2] = j
    <3>1. CASE j = i
      <4>1. pendingTunnels'[j] = t
        BY <1>1, <1>2, <3>1, TypesOfInv DEF RecordMap
      <4> QED BY <1>6, <3>1, <4>1 DEF Attended
    <3>2. CASE j # i
      <4>1. pendingTunnels'[j] = pendingTunnels[j] /\ pendingTunnels[j] \in Tunnel
        BY <1>2, <2>1, <3>2, TypesOfInv DEF RecordMap
      <4>2. tunnel[pendingTunnels[j]].state \in Attended /\ tunnel[pendingTunnels[j]].stream[2] = j
        BY <2>1, <4>1, TypesOfInv DEF KeysOK
      <4>3. pendingTunnels[j] # t
        BY <1>1, <4>2 DEF Attended
      <4> QED BY <1>6, <4>1, <4>2, <4>3
    <3> QED BY <3>1, <3>2
  <2> QED BY <2>1 DEF KeysOK
<1>9. HandlersOK(tunnel', mux')
  <2>1. ASSUME NEW u \in Tunnel, tunnel[u].state # "idle"
        PROVE  tunnel'[u].state # "idle"
    BY <1>6, <2>1
  <2>2. HandlersOK(tunnel, mux')
    BY <1>3, TypesOfInv DEF HandlersOK
  <2> QED BY <1>3, <2>1, <2>2 DEF HandlersOK, Mux
<1> QED BY <1>2, <1>3, <1>4, <1>6, <1>7, <1>8, <1>9, TunnelsOnly

(* A stream the mux makes for a late frame has no handler yet.               *)
LEMMA OpenedKeeps ==
  ASSUME NEW s \in Session, NEW i \in StreamId, mux \in [Session -> Mux], HandlersOK(tunnel, mux)
  PROVE  Opened(s, i) \in [Session -> Mux] /\ HandlersOK(tunnel, Opened(s, i))
<1>1. /\ Opened(s, i) \in [Session -> Mux]
      /\ \A u \in Session, j \in StreamId :
           Opened(s, i)[u].handlers[j] \in {mux[u].handlers[j], Nobody}
  BY DEF Opened, Mux
<1> QED BY <1>1 DEF HandlersOK

(* A frame for a stream no record is kept for.                               *)
LEMMA OrphanKeeps ==
  ASSUME RegistryInv, NEW s \in Session, NEW i \in StreamId, OrphanFrame(s, i)
  PROVE  RegistryInv'
<1>1. mux' = [mux EXCEPT ![s].streams = @ \ {i}] /\ UNCHANGED <<clients, ws, pendingTunnels, tunnel>>
  BY DEF OrphanFrame
<1>2. mux' \in [Session -> Mux] /\ \A u \in Session : mux'[u].handlers = mux[u].handlers
  BY <1>1, TypesOfInv DEF Mux
<1>3. HandlersOK(tunnel', mux')
  BY <1>1, <1>2, TypesOfInv DEF HandlersOK
<1> QED BY <1>1, <1>2, <1>3, TypesOfInv, TunnelsOnly

(* The answer of a node joins the tunnel whose record is under the number.   *)
LEMMA ReadyKeeps ==
  ASSUME RegistryInv, NEW s \in Session, NEW i \in StreamId, TunnelReady(s, i)
  PROVE  RegistryInv'
<1> DEFINE t == pendingTunnels[i]
<1>1. /\ t \in Tunnel /\ t # Nobody /\ tunnel[t].state \in Attended
      /\ UNCHANGED <<clients, ws, pendingTunnels>>
  BY TypesOfInv DEF TunnelReady, RecordMap, KeysOK
<1>2. Opened(s, i) \in [Session -> Mux] /\ HandlersOK(tunnel, Opened(s, i))
  BY TypesOfInv, OpenedKeeps
<1>3. CASE tunnel[t].joined # Nobody
  <2>1. mux' = Opened(s, i) /\ UNCHANGED tunnel
    BY <1>3 DEF TunnelReady
  <2> QED BY <1>1, <1>2, <2>1, TypesOfInv, TunnelsOnly
<1>4. CASE tunnel[t].joined = Nobody
  <2>1. /\ tunnel' = [tunnel EXCEPT ![t].timer = FALSE, ![t].joined = <<s, i>>,
                                   ![t].state = IF @ = "waiting" THEN "ready" ELSE @]
        /\ mux' = [Opened(s, i) EXCEPT ![s].handlers[i] = t]
    BY <1>4 DEF TunnelReady
  <2> HIDE DEF t
  <2>2. <<s, i>> \in Stream
    BY DEF Stream
  <2>3. /\ tunnel' \in TunnelMap
        /\ tunnel'[t].timer = FALSE /\ tunnel'[t].stream = tunnel[t].stream
        /\ tunnel'[t].state \in {"ready", "ended"}
        /\ \A u \in Tunnel \ {t} : tunnel'[u] = tunnel[u]
    <3>1. /\ tunnel[t] \in TunnelRecord /\ tunnel \in TunnelMap
          /\ tunnel[t].state \in {"waiting", "ready", "ended"}
      BY <1>1, TypesOfInv DEF TunnelMap, Attended
    <3> DEFINE r == [tunnel[t] EXCEPT !.timer = FALSE, !.joined = <<s, i>>,
                                      !.state = IF @ = "waiting" THEN "ready" ELSE @]
    <3>2. r \in TunnelRecord
      BY <2>2, <3>1 DEF TunnelRecord
    <3>3. r.timer = FALSE /\ r.stream = tunnel[t].stream /\ r.state \in {"ready", "ended"}
      BY <3>1 DEF TunnelRecord
    <3>4. tunnel' = [tunnel EXCEPT ![t] = r]
      BY <2>1, <3>1 DEF TunnelMap, TunnelRecord
    <3> HIDE DEF r
    <3>5. tunnel' \in TunnelMap /\ tunnel'[t] = r /\ \A u \in Tunnel \ {t} : tunnel'[u] = tunnel[u]
      BY <1>1, <3>1, <3>2, <3>4 DEF TunnelMap
    <3> QED BY <3>3, <3>5
  <2>4. Follows(tunnel, tunnel')
    BY <1>1, <2>3 DEF Follows, Attended
  <2>5. TunnelsOK(tunnel')
    <3>1. ASSUME NEW u \in Tunnel
          PROVE  /\ tunnel'[u].state # "idle" => tunnel'[u].stream \in Stream
                 /\ tunnel'[u].timer => tunnel'[u].state # "idle"
                 /\ tunnel'[u].state = "waiting" => tunnel'[u].timer
      <4>1. CASE u = t
        <5>1. tunnel[t].stream \in Stream
          BY <1>1, TypesOfInv DEF TunnelsOK, Attended
        <5> QED BY <2>3, <4>1, <5>1
      <4>2. CASE u # t
        <5>1. tunnel'[u] = tunnel[u]
          BY <2>3, <4>2
        <5> QED BY <5>1, TypesOfInv DEF TunnelsOK
      <4> QED BY <4>1, <4>2
    <3> QED BY <3>1 DEF TunnelsOK
  <2>6. KeysOK(tunnel', pendingTunnels')
    <3>1. pendingTunnels' = pendingTunnels /\ pendingTunnels \in RecordMap
      BY <1>1, TypesOfInv
    <3> QED BY <2>4, <3>1, TypesOfInv DEF KeysOK, Follows, RecordMap
  <2>7. mux' \in [Session -> Mux]
    BY <1>1, <1>2, <2>1 DEF Mux
  <2>8. HandlersOK(tunnel', mux')
    <3>1. HandlersOK(tunnel', Opened(s, i))
      BY <1>2, <2>3, <2>4, TypesOfInv, HandlersKeep
    <3>2. ASSUME NEW u \in Session, NEW j \in StreamId
          PROVE  mux'[u].handlers[j] \in {Opened(s, i)[u].handlers[j], t}
      BY <1>2, <2>1 DEF Mux
    <3> QED BY <2>3, <3>1, <3>2 DEF HandlersOK
  <2> QED BY <1>1, <2>3, <2>5, <2>6, <2>7, <2>8, TypesOfInv, TunnelsOnly
<1> QED BY <1>3, <1>4
(* A tunnel is told, and the key it is known by is forgotten.                *)
LEMMA TellingKeeps ==
  ASSUME RegistryInv, UNCHANGED <<clients, ws>>,
         NEW t \in Tunnel, tunnel[t].state # "idle", NEW i \in StreamId,
         tunnel' = EndAll(tunnel, {t}), pendingTunnels' = Without(pendingTunnels, {i}),
         NEW m \in [Session -> Mux], HandlersOK(tunnel, m), mux' = Unlisted(m, {t})
  PROVE  RegistryInv'
<1>1. tunnel' \in TunnelMap /\ TunnelsOK(tunnel') /\ Follows(tunnel, tunnel')
  BY TypesOfInv, EndingKeeps
<1>2. pendingTunnels' \in RecordMap /\ KeysOK(tunnel', pendingTunnels')
  BY <1>1, TypesOfInv, DeletingKeeps
<1>3. mux' \in [Session -> Mux] /\ \A s \in Session : mux'[s].handlers = m[s].handlers
  BY UnlistingKeeps
<1>4. HandlersOK(tunnel', m)
  BY <1>1, TypesOfInv, HandlersKeep
<1>5. HandlersOK(tunnel', mux')
  BY <1>3, <1>4 DEF HandlersOK
<1> QED BY <1>1, <1>2, <1>3, <1>5, TunnelsOnly

LEMMA ErrorKeeps ==
  ASSUME RegistryInv, NEW s \in Session, NEW i \in StreamId, TunnelError(s, i)
  PROVE  RegistryInv'
<1>1. /\ pendingTunnels[i] \in Tunnel /\ tunnel[pendingTunnels[i]].state # "idle"
      /\ UNCHANGED <<clients, ws>>
  BY TypesOfInv DEF TunnelError, RecordMap, KeysOK, Attended
<1>2. Opened(s, i) \in [Session -> Mux] /\ HandlersOK(tunnel, Opened(s, i))
  BY TypesOfInv, OpenedKeeps
<1>3. /\ tunnel' = EndAll(tunnel, {pendingTunnels[i]})
      /\ pendingTunnels' = Without(pendingTunnels, {i})
      /\ mux' = Unlisted(Opened(s, i), {pendingTunnels[i]})
  BY DEF TunnelError
<1> QED BY <1>1, <1>2, <1>3, TellingKeeps

LEMMA TimeoutKeeps ==
  ASSUME RegistryInv, NEW t \in Tunnel, TunnelTimeout(t)
  PROVE  RegistryInv'
<1>1. tunnel[t].state # "idle" /\ tunnel[t].stream \in Stream
  BY TypesOfInv DEF TunnelTimeout, TunnelsOK
<1>2. tunnel[t].stream[2] \in StreamId
  BY <1>1 DEF Stream
<1>3. /\ tunnel' = EndAll(tunnel, {t})
      /\ pendingTunnels' = Without(pendingTunnels, {tunnel[t].stream[2]})
      /\ mux' = Unlisted(mux, {t}) /\ UNCHANGED <<clients, ws>>
  BY DEF TunnelTimeout
<1> QED BY <1>1, <1>2, <1>3, TypesOfInv, TellingKeeps

(* An application that goes takes its record along: it is under the number   *)
(* that is forgotten, if it is anywhere.                                     *)
LEMMA SocketKeeps ==
  ASSUME RegistryInv, NEW t \in Tunnel, SocketCloses(t)
  PROVE  RegistryInv'
<1> DEFINE s == tunnel[t].stream[1]
           i == tunnel[t].stream[2]
<1>1. tunnel[t] \in TunnelRecord /\ tunnel[t].state # "idle" /\ tunnel[t].stream \in Stream
  BY TypesOfInv DEF SocketCloses, TunnelsOK, TunnelMap
<1>2. s \in Session /\ i \in StreamId
  BY <1>1 DEF Stream
<1>3. /\ tunnel' = [tunnel EXCEPT ![t].state = "closed", ![t].timer = FALSE]
      /\ pendingTunnels' = Without(pendingTunnels, {i})
      /\ mux' = [Unlisted(mux, {t}) EXCEPT ![s].streams = @ \ {i}]
      /\ UNCHANGED <<clients, ws>>
  BY DEF SocketCloses
<1>4. /\ tunnel' \in TunnelMap
      /\ tunnel'[t].state = "closed" /\ tunnel'[t].timer = FALSE
      /\ tunnel'[t].stream = tunnel[t].stream
      /\ \A u \in Tunnel \ {t} : tunnel'[u] = tunnel[u]
  BY <1>3, TypesOfInv DEF TunnelMap, TunnelRecord
<1> HIDE DEF s, i
<1>5. TunnelsOK(tunnel')
  <2>1. ASSUME NEW u \in Tunnel
        PROVE  /\ tunnel'[u].state # "idle" => tunnel'[u].stream \in Stream
               /\ tunnel'[u].timer => tunnel'[u].state # "idle"
               /\ tunnel'[u].state = "waiting" => tunnel'[u].timer
    <3>1. CASE u = t
      BY <1>1, <1>4, <3>1
    <3>2. CASE u # t
      <4>1. tunnel'[u] = tunnel[u]
        BY <1>4, <3>2
      <4> QED BY <4>1, TypesOfInv DEF TunnelsOK
    <3> QED BY <3>1, <3>2
  <2> QED BY <2>1 DEF TunnelsOK
<1>6. pendingTunnels' \in RecordMap
  BY <1>3, TypesOfInv DEF RecordMap, Without
<1>7. KeysOK(tunnel', pendingTunnels')
  <2>1. ASSUME NEW j \in StreamId, pendingTunnels'[j] # Nobody
        PROVE  /\ tunnel'[pendingTunnels'[j]].state \in Attended
               /\ tunnel'[pendingTunnels'[j]].stream[2] = j
    <3>1. j # i /\ pendingTunnels'[j] = pendingTunnels[j] /\ pendingTunnels[j] \in Tunnel
      BY <1>3, <2>1, TypesOfInv DEF RecordMap, Without
    <3>2. tunnel[pendingTunnels[j]].state \in Attended /\ tunnel[pendingTunnels[j]].stream[2] = j
      BY <2>1, <3>1, TypesOfInv DEF KeysOK
    <3>3. pendingTunnels[j] # t
      BY <3>1, <3>2 DEF i
    <3> QED BY <1>4, <3>1, <3>2, <3>3
  <2> QED BY <2>1 DEF KeysOK
<1>8. mux' \in [Session -> Mux] /\ \A u \in Session : mux'[u].handlers = mux[u].handlers
  <2>1. /\ Unlisted(mux, {t}) \in [Session -> Mux]
        /\ \A u \in Session : Unlisted(mux, {t})[u].handlers = mux[u].handlers
    BY TypesOfInv, UnlistingKeeps
  <2> QED BY <1>2, <1>3, <2>1 DEF Mux
<1>9. HandlersOK(tunnel', mux')
  <2>1. ASSUME NEW u \in Tunnel, tunnel[u].state # "idle"
        PROVE  tunnel'[u].state # "idle"
    BY <1>4, <2>1
  <2>2. HandlersOK(tunnel, mux')
    BY <1>8, TypesOfInv DEF HandlersOK
  <2> QED BY <1>8, <2>1, <2>2 DEF HandlersOK, Mux
<1> QED BY <1>3, <1>4, <1>5, <1>6, <1>7, <1>8, <1>9, TunnelsOnly

----------------------------------------------------------------------------
(* Every step keeps the invariant.                                           *)
LEMMA RegistryInvStep == RegistryInv /\ [RegistryNext]_registryVars => RegistryInv'
<1> SUFFICES ASSUME RegistryInv, [RegistryNext]_registryVars PROVE RegistryInv'
  OBVIOUS
<1>1. ASSUME NEW s \in Session, NEW c \in Client, Info(s, c) PROVE RegistryInv'
  BY <1>1, InfoKeeps
<1>2. ASSUME NEW c \in Client, Kick(c) \/ PingFailed(c) PROVE RegistryInv'
  BY <1>2, RemovalKeeps
<1>3. ASSUME NEW s \in Session, CloseEvent(s) PROVE RegistryInv'
  BY <1>3, CloseKeeps
<1>4. ASSUME NEW s \in Session, ServerHeartbeat(s) PROVE RegistryInv'
  BY <1>4, HeartbeatKeeps
<1>5. ASSUME NEW t \in Tunnel, NEW c \in Client, OpenTunnel(t, c) PROVE RegistryInv'
  BY <1>5, OpenKeeps
<1>6. ASSUME NEW s \in Session, NEW i \in StreamId, OrphanFrame(s, i) PROVE RegistryInv'
  BY <1>6, OrphanKeeps
<1>7. ASSUME NEW s \in Session, NEW i \in StreamId, TunnelReady(s, i) PROVE RegistryInv'
  BY <1>7, ReadyKeeps
<1>8. ASSUME NEW s \in Session, NEW i \in StreamId, TunnelError(s, i) PROVE RegistryInv'
  BY <1>8, ErrorKeeps
<1>9. ASSUME NEW t \in Tunnel, TunnelTimeout(t) PROVE RegistryInv'
  BY <1>9, TimeoutKeeps
<1>10. ASSUME NEW t \in Tunnel, SocketCloses(t) PROVE RegistryInv'
  BY <1>10, SocketKeeps
<1>11. CASE UNCHANGED registryVars
  BY <1>11, TypesOfInv, TunnelsOnly DEF registryVars
<1> QED BY <1>1, <1>2, <1>3, <1>4, <1>5, <1>6, <1>7, <1>8, <1>9, <1>10, <1>11 DEF RegistryNext

LEMMA InvIsSound == RegistryInv => RegistryTypeOK /\ RegistrationsSound
<1> SUFFICES ASSUME RegistryInv PROVE RegistryTypeOK /\ RegistrationsSound
  OBVIOUS
<1>1. WaitingIsTimed
  BY TypesOfInv DEF WaitingIsTimed, TunnelsOK
<1>2. RecordsHaveSockets
  BY TypesOfInv DEF RecordsHaveSockets, KeysOK, Attended
<1> QED BY <1>1, <1>2 DEF RegistryInv, RegistrationsSound

(* A node is only routed to over a live socket, an application that waits    *)
(* has its timer, and a record never outlives its application: for any       *)
(* number of nodes, of sockets whose events come late, and of tunnels that   *)
(* take each other's keys (client-manager.ts, proxy-socks5.ts).              *)
THEOREM RegistryStaysSound == RegistrySpec => [](RegistryTypeOK /\ RegistrationsSound)
<1>1. RegistryInit => RegistryInv
  BY RegistryInvInit
<1>2. RegistryInv /\ [RegistryNext]_registryVars => RegistryInv'
  BY RegistryInvStep
<1>3. RegistryInv => RegistryTypeOK /\ RegistrationsSound
  BY InvIsSound
<1> QED BY <1>1, <1>2, <1>3, PTL DEF RegistrySpec

----------------------------------------------------------------------------
(* A socket closes in a single action, and the registrations that action     *)
(* takes away are of that socket.                                            *)
LEMMA CloseTakesItsOwn ==
  ASSUME RegistryInv, RegistryNext, NEW s \in Session, NEW c \in Client,
         Closed(s), clients'[c] # clients[c]
  PROVE  clients[c] = s
<1> USE DEF Closed
<1>1. ASSUME NEW u \in Session, CloseEvent(u) PROVE clients[c] = s
  <2>1. ws' = [ws EXCEPT ![u].state = "closed"]
    BY <1>1 DEF CloseEvent
  <2>2. u = s
    BY <2>1, TypesOfInv
  <2>3. Owned(u) /\ clients' = [clients EXCEPT ![ws[u].client] = Nobody]
    BY <1>1 DEF CloseEvent
  <2> QED BY <2>2, <2>3, TypesOfInv DEF Owned, Identified
<1>2. ASSUME NEW u \in Session, NEW d \in Client, Info(u, d) PROVE FALSE
  <2>1. \A v \in Session : ws[v].state # "closed" => ws'[v].state # "closed"
    <3>1. CASE clients[d] = Nobody
      <4>1. ws' = [ws EXCEPT ![u].client = d]
        BY <1>2, <3>1 DEF Info
      <4> QED BY <4>1, TypesOfInv
    <3>2. CASE clients[d] # Nobody
      <4>1. ws' = [ClosingSocket(clients[d]) EXCEPT ![u].client = d]
        BY <1>2, <3>2 DEF Info
      <4> QED BY <4>1, TypesOfInv DEF ClosingSocket
    <3> QED BY <3>1, <3>2
  <2> QED BY <2>1
<1>3. ASSUME NEW d \in Client, Kick(d) \/ PingFailed(d) PROVE FALSE
  <2>1. ws' = ws \/ ws' = ClosingSocket(clients[d])
    BY <1>3 DEF Kick, PingFailed
  <2> QED BY <2>1, TypesOfInv DEF ClosingSocket
<1>4. ASSUME NEW u \in Session, ServerHeartbeat(u) PROVE FALSE
  BY <1>4 DEF ServerHeartbeat
<1>5. ASSUME UNCHANGED clients PROVE FALSE
  BY <1>5
<1>6. \A t \in Tunnel, d \in Client : OpenTunnel(t, d) => UNCHANGED clients
  BY DEF OpenTunnel
<1>7. \A u \in Session, i \in StreamId :
        OrphanFrame(u, i) \/ TunnelReady(u, i) \/ TunnelError(u, i) => UNCHANGED clients
  BY DEF OrphanFrame, TunnelReady, TunnelError
<1>8. \A t \in Tunnel : TunnelTimeout(t) \/ SocketCloses(t) => UNCHANGED clients
  BY DEF TunnelTimeout, SocketCloses
<1> QED BY <1>1, <1>2, <1>3, <1>4, <1>5, <1>6, <1>7, <1>8 DEF RegistryNext

(* The 'close' of a socket a node's reconnect has replaced, however late,    *)
(* leaves the registration of its successor alone (ws-server.ts:72).         *)
THEOREM StaleCloseIsHarmless == RegistrySpec => StaleCloseHarmless
<1> DEFINE Harmless == \A s \in Session, c \in Client :
                         Closed(s) /\ clients'[c] # clients[c] => clients[c] = s
<1>1. RegistryInit => RegistryInv
  BY RegistryInvInit
<1>2. RegistryInv /\ [RegistryNext]_registryVars => RegistryInv'
  BY RegistryInvStep
<1>3. RegistryInv /\ [RegistryNext]_registryVars => [Harmless]_registryVars
  BY CloseTakesItsOwn
<1> QED BY <1>1, <1>2, <1>3, PTL DEF RegistrySpec, StaleCloseHarmless
=============================================================================
