------------------------------ MODULE UdpRelay ------------------------------
(* The UDP relay of SOCKS5 (proxy-socks5.ts, client.ts): associations, each  *)
(* with a control connection and a relay port at the server; the one handler *)
(* of answers they share; and at the nodes a socket for each association,    *)
(* with a timer that closes it when it is idle.                              *)
EXTENDS Integers, Sequences, SequencesExt, FiniteSets

CONSTANTS
  Association,   \* UDP ASSOCIATE requests, each on its control connection
  Source,        \* ports the application sends from
  Destination,   \* targets
  Relays,        \* nodes
  None,
  MaxDatagrams,  \* bound: datagrams of the applications
  MaxSockets,    \* bound: sockets a node opens
  MaxAnswers,    \* bound: answers of the targets
  MaxPending     \* datagrams a socket remembers

ASSUME UdpAssumption ==
  /\ MaxDatagrams \in Nat /\ MaxSockets \in Nat /\ MaxAnswers \in Nat
  /\ MaxPending \in Nat \ {0}
  /\ None \notin Association \cup Source \cup Destination

SocketId == 1..MaxSockets

VARIABLES
  udpAssociations,  \* the associations that are open; closed ones never return
  ended,            \* those whose control connection has closed
  onUdpData,        \* the association whose handler is installed
  toRelay,          \* toRelay[k]: udp_data messages under way
  answers,          \* answers[k]: udp_data_response messages under way
  udpClients,       \* udpClients[k][a]: the number of its socket, 0 for none
  udpSocket,        \* udpSocket[k][i]
  count,            \* datagrams and answers so far
  delivered         \* history: what applications got

udpVars ==
  <<udpAssociations, ended, onUdpData, toRelay, answers, udpClients, udpSocket, count, delivered>>

(* src: of the association's first datagram; timer: a close timer refers to  *)
(* it; sent: history, the targets it wrote to.                               *)
UdpSocket == [ open : BOOLEAN, association : Association \cup {None}, src : Source \cup {None},
               pending : Seq(Nat), timer : BOOLEAN, sent : SUBSET Destination ]

UdpInit ==
  /\ udpAssociations = {} /\ ended = {} /\ onUdpData = None
  /\ toRelay = [k \in Relays |-> << >>] /\ answers = [k \in Relays |-> << >>]
  /\ udpClients = [k \in Relays |-> [a \in Association |-> 0]]
  /\ udpSocket = [k \in Relays |-> [i \in SocketId |->
       [open |-> FALSE, association |-> None, src |-> None, pending |-> << >>,
        timer |-> FALSE, sent |-> {}]]]
  /\ count = [datagrams |-> 0, answers |-> 0] /\ delivered = {}

relayVars == <<udpAssociations, ended, onUdpData>>
socketVars == <<udpClients, udpSocket>>

----------------------------------------------------------------------------
(* The server.                                                               *)
HandleUDPAssociate(a) ==
  /\ a \notin udpAssociations \cup ended
  /\ udpAssociations' = udpAssociations \cup {a} /\ onUdpData' = a
  /\ UNCHANGED <<ended, toRelay, answers, socketVars, count, delivered>>

(* cleanup(), for the control connection of a.                               *)
ControlCloses(a) ==
  /\ a \in udpAssociations
  /\ udpAssociations' = udpAssociations \ {a} /\ ended' = ended \cup {a}
  /\ UNCHANGED <<onUdpData, toRelay, answers, socketVars, count, delivered>>

(* A datagram of the application that is not dropped, to some node.          *)
RelayDatagram(a, s, d, k) ==
  /\ a \in udpAssociations /\ count.datagrams < MaxDatagrams
  /\ count' = [count EXCEPT !.datagrams = @ + 1]
  /\ toRelay' = [toRelay EXCEPT ![k] = Append(@,
       [id |-> count'.datagrams, assocId |-> a, src |-> s, to |-> d])]
  /\ UNCHANGED <<relayVars, answers, socketVars, delivered>>

(* The header of a datagram is two zero bytes, a zero FRAG, ATYP and the     *)
(* address; here one number, and the address in one piece.                   *)
IPV4 == "ipv4"
RequestHeader(address) == <<"zero", "zero", "zero", IPV4, address>>
ResponseHeader(address) == <<"zero", "zero", "zero">> \o <<"zero", "zero", "zero", IPV4, address>>
Parsed(header) == IF header[3] = "zero" /\ header[4] = IPV4 THEN header[5] ELSE None

(* clientManager.onUdpData: the association is the answer's, whichever       *)
(* association's handler it is.  An answer names its source, too: nodes      *)
(* always send it, so that the handler's own application, which stands in    *)
(* for a source there is none of, is never used.                             *)
AssociationOf(m) == m.assocId

HandleAnswer(k) ==
  /\ answers[k] # << >>
  /\ answers' = [answers EXCEPT ![k] = Tail(@)]
  /\ LET m == Head(answers[k])
     IN delivered' =
          IF m.from # None /\ AssociationOf(m) \in udpAssociations
            THEN delivered \cup {[association |-> AssociationOf(m), to |-> m.src, from |-> m.from,
                                  for |-> m.for, header |-> ResponseHeader(m.src)]}
            ELSE delivered
  /\ UNCHANGED <<relayVars, toRelay, socketVars, count>>

----------------------------------------------------------------------------
(* The node.                                                                 *)
Remembered(pending, id) ==
  LET all == Append(pending, id) IN IF Len(all) > MaxPending THEN Tail(all) ELSE all

Unused(k) == {i \in SocketId : udpSocket[k][i].association = None}

(* An existing socket's timer is set again; a new one keeps the source of    *)
(* its first datagram.                                                       *)
Reused(socket) == [socket EXCEPT !.timer = TRUE]

HandleUdpData(k) ==
  /\ toRelay[k] # << >>
  /\ LET m == Head(toRelay[k])
         known == udpClients[k][m.assocId]
         i == IF known # 0 THEN known ELSE CHOOSE j \in Unused(k) : TRUE
         socket == IF known # 0 THEN Reused(udpSocket[k][i])
                   ELSE [udpSocket[k][i] EXCEPT !.open = TRUE, !.association = m.assocId,
                                                !.src = m.src, !.timer = TRUE]
     IN /\ known # 0 \/ Unused(k) # {}
        /\ udpClients' = [udpClients EXCEPT ![k][m.assocId] = i]
        /\ udpSocket' = [udpSocket EXCEPT ![k][i] =
             [socket EXCEPT !.pending = Remembered(@, m.id), !.sent = @ \cup {m.to}]]
  /\ toRelay' = [toRelay EXCEPT ![k] = Tail(@)]
  /\ UNCHANGED <<relayVars, answers, count, delivered>>

(* send() fails: the answer to the server carries no data.                   *)
SendFails(k, i) ==
  /\ udpSocket[k][i].pending # << >>
  /\ udpSocket' = [udpSocket EXCEPT ![k][i].pending = Front(@)]
  /\ answers' = [answers EXCEPT ![k] = Append(@,
       [assocId |-> udpSocket[k][i].association, src |-> udpSocket[k][i].src, from |-> None,
        for |-> udpSocket[k][i].association])]
  /\ UNCHANGED <<relayVars, toRelay, udpClients, count, delivered>>

(* 'message': the port of a pending entry is 0, so that the answer goes with *)
(* the last one, and to the source of the socket's first datagram.           *)
TargetAnswers(k, i, d) ==
  /\ count.answers < MaxAnswers
  /\ udpSocket[k][i].open /\ d \in udpSocket[k][i].sent
  /\ count' = [count EXCEPT !.answers = @ + 1]
  /\ answers' = IF udpSocket[k][i].pending = << >> THEN answers
                ELSE [answers EXCEPT ![k] = Append(@,
                  [assocId |-> udpSocket[k][i].association, src |-> udpSocket[k][i].src,
                   from |-> d, for |-> udpSocket[k][i].association])]
  /\ UNCHANGED <<relayVars, toRelay, socketVars, delivered>>

(* closeTimer: the association's entry is deleted, also if it has become     *)
(* another socket's.                                                         *)
IdleTimer(k, i) ==
  /\ udpSocket[k][i].timer
  /\ udpSocket' = [udpSocket EXCEPT ![k][i].open = FALSE, ![k][i].timer = FALSE]
  /\ udpClients' = [udpClients EXCEPT ![k][udpSocket[k][i].association] = 0]
  /\ UNCHANGED <<relayVars, toRelay, answers, count, delivered>>

(* 'error': 'close' stops the first timer of the socket only, so that one    *)
(* set later may still be running.                                           *)
SocketError(k, i) ==
  /\ udpSocket[k][i].open
  /\ \E still \in {FALSE, udpSocket[k][i].timer} :
       udpSocket' = [udpSocket EXCEPT ![k][i].open = FALSE, ![k][i].timer = still]
  /\ udpClients' = [udpClients EXCEPT ![k][udpSocket[k][i].association] = 0]
  /\ UNCHANGED <<relayVars, toRelay, answers, count, delivered>>

(* cleanupAll(), when the node has lost its session.                         *)
RelayLost(k) ==
  /\ \E i \in SocketId : udpSocket[k][i].open
  /\ udpSocket' = [udpSocket EXCEPT ![k] = [i \in SocketId |->
       IF \E a \in Association : udpClients[k][a] = i
         THEN [@[i] EXCEPT !.open = FALSE, !.timer = FALSE] ELSE @[i]]]
  /\ udpClients' = [udpClients EXCEPT ![k] = [a \in Association |-> 0]]
  /\ toRelay' = [toRelay EXCEPT ![k] = << >>] /\ answers' = [answers EXCEPT ![k] = << >>]
  /\ UNCHANGED <<relayVars, count, delivered>>

UdpNext ==
  \/ \E a \in Association :
       \/ HandleUDPAssociate(a) \/ ControlCloses(a)
       \/ \E s \in Source, d \in Destination, k \in Relays : RelayDatagram(a, s, d, k)
  \/ \E k \in Relays :
       \/ HandleAnswer(k) \/ HandleUdpData(k) \/ RelayLost(k)
       \/ \E i \in SocketId :
            \/ SendFails(k, i) \/ IdleTimer(k, i) \/ SocketError(k, i)
            \/ \E d \in Destination : TargetAnswers(k, i, d)

UdpSpec == UdpInit /\ [][UdpNext]_udpVars

(* Timers fire.                                                              *)
UdpFairness == \A k \in Relays : \A i \in SocketId : WF_udpVars(IdleTimer(k, i))
UdpFairSpec == UdpSpec /\ UdpFairness

----------------------------------------------------------------------------
UdpTypeOK ==
  /\ udpAssociations \in SUBSET Association /\ ended \in SUBSET Association
  /\ udpAssociations \cap ended = {} /\ onUdpData \in Association \cup {None}
  /\ \A k \in Relays : \A i \in SocketId : udpSocket[k][i] \in UdpSocket

(* The handler of the last association answers for all of them: still, what  *)
(* an application gets comes from a target of the association it gets it     *)
(* through.  A socket that is listed at a node is open and belongs to that   *)
(* association.                                                              *)
NoCrossing ==
  /\ \A m \in delivered : m.association = m.for
  /\ \A k \in Relays : \A a \in Association :
       udpClients[k][a] # 0 =>
         udpSocket[k][udpClients[k][a]].open /\ udpSocket[k][udpClients[k][a]].association = a

(* Every relay socket of a node is closed in the end, whatever became of its *)
(* association: the server never says that one has ended.                    *)
SocketsReclaimed ==
  \A k \in Relays : \A i \in SocketId : udpSocket[k][i].open ~> ~udpSocket[k][i].open

(* "Wrap in SOCKS5 UDP response header" (proxy-socks5.ts:651): an answer has *)
(* a header that the parser of such headers would accept.                    *)
AnswersParse == \A m \in delivered : Parsed(m.header) # None
=============================================================================
