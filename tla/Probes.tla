------------------------------- MODULE Probes -------------------------------
(* The tools of the network tests, as the server and the node run them       *)
(* (network-test.ts of both).  The network answers late, twice or never, and *)
(* ping and traceroute get whatever arrives on the host's raw socket.        *)
EXTENDS Integers, FiniteSets, Sequences, SequencesExt

CONSTANTS
  Count,        \* echo requests of a ping
  MaxHops,      \* TRACEROUTE_MAX_HOPS
  Distance,     \* hops to the target
  Redirects,    \* redirects a request may follow
  Limit,        \* HTTP_BODY_LIMIT, in chunks
  RecordTypes   \* record types a DNS lookup asks for

ASSUME ProbesAssumption ==
  /\ Count \in Nat \ {0} /\ MaxHops \in Nat \ {0} /\ Distance \in Nat \ {0}
  /\ Redirects \in Nat /\ Limit \in Nat /\ RecordTypes \in Nat \ {0}

VARIABLES
  tool,         \* "ping", "tcping", "http", "dns" or "traceroute"
  runner,       \* "server" or "node"
  open,         \* the ports, of 80 and 443, at which the target can be reached
  sent,         \* probes sent: idx, ttl, hop
  waiting,      \* ping: sendMap; traceroute: the hops that still listen
  timers,       \* traceroute: the hops whose timer runs, 0 for the watchdog's
  list,         \* ping: times; traceroute: hops; http: chunks; dns: records
  result,       \* "none", "ok", "failed"; ping: "icmp", "tcp" in between
  answered      \* history: the probes answered while they were waited for

probeVars == <<tool, runner, open, sent, waiting, timers, list, result, answered>>

ProbeSettled == result \in {"ok", "failed"}

(* Without raw sockets a ping is done over TCP and a traceroute fails.       *)
ProbesInit ==
  /\ tool \in {"ping", "tcping", "http", "dns", "traceroute"} /\ runner \in {"server", "node"}
  /\ open \in SUBSET {80, 443}
  /\ CASE tool = "ping" -> sent = 0 /\ timers = {} /\ result \in {"icmp", "tcp"}
       [] tool = "traceroute" -> sent = 1 /\ timers = {0, 1} /\ result \in {"none", "failed"}
       [] OTHER -> sent = 1 /\ timers = {} /\ result = "none"
  /\ waiting = 1..sent /\ list = <<>> /\ answered = {}

----------------------------------------------------------------------------
(* Ping: the loop sends a probe at a time, then waits a grace for the last.  *)
SendOne ==
  /\ tool = "ping" /\ result = "icmp" /\ sent < Count
  /\ sent' = sent + 1 /\ waiting' = waiting \cup {sent + 1}
  /\ UNCHANGED <<tool, runner, open, timers, list, result, answered>>

(* An echo, the first of this probe or one more: sendMap tells.              *)
Forgetting(seq) == waiting' = waiting
Matched(seq) == waiting' = waiting \ {seq}
Echo(seq) ==
  /\ tool = "ping" /\ result = "icmp" /\ seq \in waiting
  /\ Matched(seq)
  /\ list' = Append(list, seq) /\ answered' = answered \cup {seq}
  /\ result' = IF Len(list') >= Count THEN "ok" ELSE result
  /\ UNCHANGED <<tool, runner, open, sent, timers>>

(* finish() after the grace, or when a packet cannot be sent: with no echo,  *)
(* or after an error, the ping is done over TCP.                             *)
Finish ==
  /\ tool = "ping" /\ result = "icmp" /\ sent = Count
  /\ result' = IF list # <<>> THEN "ok" ELSE "tcp"
  /\ UNCHANGED <<tool, runner, open, sent, waiting, timers, list, answered>>
IcmpError ==
  /\ tool = "ping" /\ result = "icmp" /\ result' = "tcp" /\ list' = <<>>
  /\ answered' = {}
  /\ UNCHANGED <<tool, runner, open, sent, waiting, timers>>

TcpProbe(port) == port \in open

(* _tcpProbe() resolves to null when it fails, which .catch() does not see:  *)
(* the second port is never tried.                                           *)
TcpPing ==
  /\ tool = "ping" /\ result = "tcp"
  /\ result' = IF TcpProbe(443) THEN "ok" ELSE "failed"
  /\ UNCHANGED <<tool, runner, open, sent, waiting, timers, list, answered>>

Tcping ==
  /\ tool = "tcping" /\ ~ProbeSettled
  /\ result' = IF TcpProbe(80) THEN "ok" ELSE "failed"
  /\ UNCHANGED <<tool, runner, open, sent, waiting, timers, list, answered>>

----------------------------------------------------------------------------
(* HTTP: redirects are followed until there are too many, a body is read     *)
(* until it ends or is too long; a request that fails or stays silent fails. *)
Following(hop) == hop <= Redirects
Redirected ==
  /\ tool = "http" /\ ~ProbeSettled /\ list = <<>>
  /\ IF Following(sent) THEN sent' = sent + 1 /\ UNCHANGED result ELSE result' = "ok" /\ UNCHANGED sent
  /\ UNCHANGED <<tool, runner, open, waiting, timers, list, answered>>

BodyChunk ==
  /\ tool = "http" /\ ~ProbeSettled
  /\ list' = Append(list, sent)
  /\ result' = IF Len(list') > Limit THEN "ok" ELSE result
  /\ UNCHANGED <<tool, runner, open, sent, waiting, timers, answered>>

HttpEnds ==
  /\ tool = "http" /\ ~ProbeSettled /\ result' \in {"ok", "failed"}
  /\ UNCHANGED <<tool, runner, open, sent, waiting, timers, list, answered>>

(* DNS: one type after the other, each with a timer.                         *)
Resolved(found) ==
  /\ tool = "dns" /\ ~ProbeSettled
  /\ list' = IF found THEN Append(list, sent) ELSE list
  /\ IF sent < RecordTypes THEN sent' = sent + 1 /\ UNCHANGED result
       ELSE result' = (IF list' = <<>> THEN "failed" ELSE "ok") /\ UNCHANGED sent
  /\ UNCHANGED <<tool, runner, open, waiting, timers, answered>>

----------------------------------------------------------------------------
(* Traceroute: done() after the last hop, at the target or by the watchdog.  *)
ProbeDone == result' = "ok" /\ timers' = {} /\ waiting' = {} /\ UNCHANGED sent

(* The node takes an answer only for the hop it is at (the tokens of two     *)
(* hops are taken to differ).                                                *)
OwnHop(hop) == hop \in waiting /\ hop = sent
NodeAnswer(hop) ==
  /\ runner = "node" /\ OwnHop(hop)
  /\ list' = Append(list, hop)
  /\ IF hop >= Distance \/ sent >= MaxHops THEN ProbeDone ELSE
       /\ sent' = sent + 1
       /\ waiting' = (waiting \ {hop}) \cup {sent + 1}
       /\ timers' = (timers \ {hop}) \cup {sent + 1}
       /\ UNCHANGED result

(* The server's listeners each take the first message that comes and never   *)
(* add to the list; each of them goes on to the next hop.                    *)
ServerMessage(reached) ==
  /\ runner = "server" /\ waiting # {}
  /\ IF reached \/ sent + Cardinality(waiting) > MaxHops THEN ProbeDone ELSE
       /\ sent' = sent + Cardinality(waiting)
       /\ waiting' = sent + 1..sent'
       /\ timers' = (timers \ waiting) \cup (sent + 1..sent')
       /\ UNCHANGED result
  /\ UNCHANGED list

Answer(hop) ==
  /\ tool = "traceroute" /\ ~ProbeSettled
  /\ hop \in 1..sent
  /\ NodeAnswer(hop) \/ ServerMessage(hop >= Distance)
  /\ answered' = IF hop = sent THEN answered \cup {hop} ELSE answered
  /\ UNCHANGED <<tool, runner, open>>

Foreign ==
  /\ tool = "traceroute" /\ ~ProbeSettled /\ ServerMessage(FALSE)
  /\ UNCHANGED <<tool, runner, open, answered>>

HopTimeout(hop) ==
  /\ tool = "traceroute" /\ ~ProbeSettled /\ hop \in timers \ {0}
  /\ IF sent >= MaxHops THEN ProbeDone ELSE
       /\ sent' = sent + 1 /\ waiting' = waiting \cup {sent + 1}
       /\ timers' = (timers \ {hop}) \cup {sent + 1}
       /\ UNCHANGED result
  /\ UNCHANGED <<tool, runner, open, list, answered>>

PingSendFails ==
  /\ tool = "traceroute" /\ ~ProbeSettled /\ result' = "failed" /\ timers' = {} /\ waiting' = {}
  /\ UNCHANGED <<tool, runner, open, sent, list, answered>>

Watchdog25s ==
  /\ tool = "traceroute" /\ ~ProbeSettled /\ 0 \in timers /\ ProbeDone
  /\ UNCHANGED <<tool, runner, open, list, answered>>

ProbesNext ==
  \/ SendOne \/ Finish \/ IcmpError \/ TcpPing \/ Tcping
  \/ Redirected \/ BodyChunk \/ HttpEnds \/ (\E found \in BOOLEAN : Resolved(found))
  \/ Foreign \/ PingSendFails \/ Watchdog25s
  \/ \E seq \in 1..Count : Echo(seq)
  \/ \E hop \in 1..MaxHops : Answer(hop) \/ HopTimeout(hop)

(* The timers: each attempt to connect or to resolve has one, and so has the *)
(* silence of an HTTP response - which may go on without ever ending, chunk  *)
(* by chunk and redirect by redirect.                                        *)
ProbesFairness ==
  /\ WF_probeVars(SendOne \/ Finish \/ TcpPing \/ Tcping \/ Watchdog25s)
  /\ WF_probeVars(Redirected \/ BodyChunk \/ HttpEnds)
  /\ WF_probeVars(\E found \in BOOLEAN : Resolved(found))
ProbesSpec == ProbesInit /\ [][ProbesNext]_probeVars

----------------------------------------------------------------------------
ProbesTypeOK ==
  /\ sent \in CASE tool = "ping" -> 0..Count [] tool = "traceroute" -> 1..MaxHops
              [] tool = "http" -> 1..Redirects + 1 [] OTHER -> 1..RecordTypes
  /\ Len(list) <= CASE tool = "http" -> Limit + 1 [] tool = "dns" -> RecordTypes [] OTHER -> sent
  /\ waiting \subseteq 1..sent /\ timers \subseteq 0..sent
  /\ result \in {"none", "icmp", "tcp", "ok", "failed"}

(* What a node reports is what it saw: every echo counted once, every hop in *)
(* its place, of a router that answered that very probe.                     *)
ReportIsWhatWasSeen ==
  (tool = "ping" \/ (tool = "traceroute" /\ runner = "node")) /\ result \in {"none", "icmp", "ok"} =>
    /\ Range(list) = answered
    /\ \A i, j \in DOMAIN list : i < j => list[i] # list[j]
    /\ tool = "traceroute" => \A i, j \in DOMAIN list : i < j => list[i] < list[j]

(* "Mirrors the server runner so results are consistent whichever side       *)
(* executes" (client/lib/network-test.ts:4): also the server lists the       *)
(* routers that answered while it waited for them.                           *)
TraceListsAnswers == tool = "traceroute" => answered \subseteq Range(list)

(* "no reply (ICMP unavailable, TCP 80/443 unreachable)"                     *)
(* (server/lib/network-test.ts:519): a ping fails when neither port answers. *)
FailedMeansUnreachable == tool = "ping" /\ result = "failed" => open \cap {80, 443} = {}

(* Every probe comes to an end.                                              *)
ProbeEnds == <>ProbeSettled
=============================================================================
