----------------------------- MODULE MCExchanges -----------------------------
(* One run for what passes between server, node and target outside the       *)
(* multiplexed streams: SOCKS5 handshakes, CONNECT tunnels, UDP relays,      *)
(* requests over the JSON protocol, network tests and their probes, updates. *)
(* They share no state, so a behaviour here is one of one of them, and the   *)
(* others rest.                                                              *)
EXTENDS Handshake, ConnectTunnel, UdpRelay, Admission, NetworkTest, Probes, AutoUpdate

CONSTANTS n1, n2

VARIABLE part

exchangesVars ==
  <<handshakeVars, connectVars, udpVars, admissionVars, testVars, probeVars, updateVars, part>>

(* Two tests: one of the server or of two nodes or of the same node twice,   *)
(* one of the server.                                                        *)
SomeNodes == {n1, n2}
SomeOrders == <<{<<Here>>, <<n1, n2>>, <<n1, n1>>}, {<<Here>>}>>

(* Offers of updates with a right, a wrong and no checksum, with and without *)
(* an archive, to be applied or not, whose script fails or not.              *)
SomeOffers ==
  [version : {1, 2}, url : {TRUE}, sha : {"right", "wrong"}, apply : {TRUE}, script : {"none", "fails"}]
    \cup [version : {3}, url : BOOLEAN, sha : {"right", "absent"}, apply : BOOLEAN, script : {"runs"}]

(* Applications that name themselves or not, with every way to give an       *)
(* address, commands and versions of which one is wrong at most, and those   *)
(* that do not wait.                                                         *)
Plain ==
  [ enabled |-> FALSE, methods |-> {"none", "password"}, user |-> 0, password |-> 0,
    version |-> TRUE, requestVersion |-> TRUE, command |-> "connect",
    address |-> "v4", name |-> 0, eager |-> FALSE ]
Addressed ==
  {[Plain EXCEPT !.address = a, !.name = n] : a \in {"v4", "name", "v6", "other"}, n \in 0..1}
Named ==
  {[d EXCEPT !.enabled = e, !.methods = m, !.user = u, !.password = p] :
     d \in Addressed, e \in BOOLEAN, m \in SUBSET {"none", "password"}, u \in 0..1, p \in 0..1}
Commanded == {[d EXCEPT !.command = c] : d \in Addressed, c \in {"udp", "bind"}}
Garbled == {[Plain EXCEPT !.version = FALSE], [Plain EXCEPT !.requestVersion = FALSE]}
Hasty == {[d EXCEPT !.enabled = e, !.methods = {"none"}, !.eager = TRUE] : d \in Addressed, e \in BOOLEAN}
SomeDialogues == Named \cup Commanded \cup Garbled \cup Hasty

(* States in which no timer runs and no report is due.                       *)
AdmissionRests ==
  /\ stage = [r \in Calls |-> "new"] /\ replies = [r \in Calls |-> 0]
  /\ pending = {} /\ booked = {} /\ nodeInbox = << >> /\ serverInbox = << >>
  /\ active = {} /\ broken = {} /\ nodeLimit = NodeCap
  /\ reported = [requests |-> 0, limit |-> NodeCap] /\ cap = FirstCap /\ pushes = 0
ProbesRest ==
  /\ tool = "tcping" /\ runner = "node" /\ open = {} /\ sent = 1 /\ waiting = {} /\ timers = {}
  /\ list = << >> /\ result = "ok" /\ answered = {}

HandshakeRests ==
  /\ dialogue = (CHOOSE d \in Dialogues : TRUE) /\ spoken = [bytes |-> 0, fin |-> FALSE] /\ state = "greeting"
  /\ start = 0 /\ connection = "open" /\ told = << >>

Parts == {"handshakes", "tunnels", "datagrams", "admission", "tests", "probes", "updates"}
ExchangesInit ==
  /\ part \in Parts
  /\ ConnectInit /\ UdpInit /\ NetworkTestInit /\ UpdateInit
  /\ IF part = "handshakes" THEN HandshakeInit ELSE HandshakeRests
  /\ IF part = "admission" THEN AdmissionInit ELSE AdmissionRests
  /\ IF part = "probes" THEN ProbesInit ELSE ProbesRest

Only(p) ==
  /\ part = p /\ UNCHANGED part
  /\ IF p = "handshakes" THEN TRUE ELSE UNCHANGED handshakeVars
  /\ IF p = "tunnels" THEN TRUE ELSE UNCHANGED connectVars
  /\ IF p = "datagrams" THEN TRUE ELSE UNCHANGED udpVars
  /\ IF p = "admission" THEN TRUE ELSE UNCHANGED admissionVars
  /\ IF p = "tests" THEN TRUE ELSE UNCHANGED testVars
  /\ IF p = "probes" THEN TRUE ELSE UNCHANGED probeVars
  /\ IF p = "updates" THEN TRUE ELSE UNCHANGED updateVars

ExchangesNext ==
  \/ Only("handshakes") /\ HandshakeNext
  \/ Only("tunnels") /\ ConnectNext
  \/ Only("datagrams") /\ UdpNext
  \/ Only("admission") /\ AdmissionNext
  \/ Only("tests") /\ NetworkTestNext
  \/ Only("probes") /\ ProbesNext
  \/ Only("updates") /\ UpdateNext

(* Each part has the fairness of its own; a part that rests has none to ask. *)
ExchangesSpec ==
  /\ ExchangesInit /\ [][ExchangesNext]_exchangesVars
  /\ ConnectFairness /\ UdpFairness /\ AdmissionFairness
  /\ NetworkTestFairness /\ ProbesFairness /\ UpdateFairness

----------------------------------------------------------------------------
(* Types, of every part.                                                     *)
ExchangesTypeOK ==
  /\ HandshakeTypeOK /\ ConnectTypeOK /\ UdpTypeOK /\ AdmissionTypeOK
  /\ NetworkTestTypeOK /\ ProbesTypeOK /\ UpdateTypeOK

(* Nothing crosses over in a relay: a handshake is read as it was sent and   *)
(* opens no more than it may; the application of a CONNECT tunnel gets one   *)
(* status line and a gapless stream, that of an association only what is     *)
(* meant for it.                                                             *)
CleanRelays == HandshakeInStep /\ CleanTunnel /\ NoCrossing

(* A relay or a node is not taken up for ever: a CONNECT is answered, a half *)
(* open tunnel and an idle UDP socket are closed, a full node reopens.       *)
RelaysEnd == ConnectAnswered /\ HalfOpenReclaimed /\ SocketsReclaimed /\ AdmissionReopens

(* What is reported is true: a task that is done has every result once, a    *)
(* ping or traceroute reports the answers it got, an update that is ready    *)
(* was verified.                                                             *)
ReportsTrue == DoneIsComplete /\ ReportIsWhatWasSeen /\ ReadyIsVerified

(* What was started ends: tests of nodes, probes, checks and downloads.      *)
JobsEnd == TestEnds /\ ProbeEnds /\ UpdatesGoOn
=============================================================================
