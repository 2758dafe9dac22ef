----------------------------- MODULE Admission -----------------------------
(* Requests over the JSON protocol, of which a node takes so many at a time: *)
(* the server admits by what it has sent and by what the node last reported  *)
(* (proxy-http.ts, client-manager.ts, ws-server.ts), the node refuses above  *)
(* its own limit (client.ts, client-legacy.ts), and the panel changes the    *)
(* limit. The node stays connected: Registry has its coming and going.       *)
EXTENDS Integers, Sequences, SequencesExt, FiniteSets

CONSTANTS
  Calls,        \* requests of browsers
  Caps,         \* limits the panel may set
  FirstCap,     \* client.max_concurrent at first
  NodeCap,      \* max_concurrent_requests of the node's own configuration
  MaxPushes     \* bound: limits pushed

ASSUME AdmissionAssumption ==
  Caps \subseteq Nat \ {0} /\ FirstCap \in Caps /\ NodeCap \in Nat \ {0} /\ MaxPushes \in Nat

VARIABLES
  stage,        \* a request: "new", "refused", "collecting", "sent", "gone"
  replies,      \* calls of res.writeHead, of each request
  pending,      \* pendingRequests
  booked,       \* the node's pendingRequests, of the server
  nodeInbox,    \* messages to the node
  serverInbox,  \* messages to the server
  active,       \* activeRequests, of the node
  broken,       \* history: those whose target broke off within its response
  nodeLimit,    \* maxConcurrent() of the node
  reported,     \* client.stats: what the node reported last; limit 0 at first
  cap,          \* client.max_concurrent
  pushes        \* limits pushed

admissionVars ==
  <<stage, replies, pending, booked, nodeInbox, serverInbox, active, broken, nodeLimit, reported, cap, pushes>>
serverSide == <<stage, replies, pending, booked, reported, cap, pushes>>
nodeSide == <<active, broken, nodeLimit>>

AdmissionInit ==
  /\ stage = [r \in Calls |-> "new"] /\ replies = [r \in Calls |-> 0]
  /\ pending = {} /\ booked = {} /\ nodeInbox = << >> /\ serverInbox = << >>
  /\ active = {} /\ broken = {} /\ nodeLimit = NodeCap
  /\ reported = [requests |-> 0, limit |-> 0] /\ cap = FirstCap /\ pushes = 0

Request(r) == [type |-> "request", request |-> r]
NodeResponse(r) == [type |-> "response", request |-> r]
LimitsPush(n) == [type |-> "limits", limit |-> n]
Stats == [type |-> "stats", requests |-> Cardinality(active), limit |-> nodeLimit]

Larger(a, b) == IF a > b THEN a ELSE b
Smaller(a, b) == IF a < b THEN a ELSE b
LoadOf == Larger(reported.requests, Cardinality(booked))
CapacityOf == Smaller(IF reported.limit > 0 THEN reported.limit ELSE cap, cap)
IsSaturated == LoadOf >= CapacityOf

----------------------------------------------------------------------------
(* handleHttpRequest(): the slot is checked when the request arrives, and    *)
(* taken when its body is there.                                             *)
Arrives(r) ==
  /\ stage[r] = "new"
  /\ stage' = [stage EXCEPT ![r] = IF IsSaturated THEN "refused" ELSE "collecting"]
  /\ replies' = IF IsSaturated THEN [replies EXCEPT ![r] = @ + 1] ELSE replies
  /\ UNCHANGED <<pending, booked, nodeInbox, serverInbox, nodeSide, reported, cap, pushes>>

(* Its body is too large, or the browser goes away: its end never comes.     *)
BodyStops(r) ==
  /\ stage[r] = "collecting" /\ stage' = [stage EXCEPT ![r] = "gone"]
  /\ \E tooLarge \in BOOLEAN : replies' = IF tooLarge THEN [replies EXCEPT ![r] = @ + 1] ELSE replies
  /\ UNCHANGED <<pending, booked, nodeInbox, serverInbox, nodeSide, reported, cap, pushes>>

BodyEnds(r) ==
  /\ stage[r] = "collecting" /\ stage' = [stage EXCEPT ![r] = "sent"]
  /\ pending' = pending \cup {r} /\ booked' = booked \cup {r}
  /\ nodeInbox' = Append(nodeInbox, Request(r))
  /\ UNCHANGED <<replies, serverInbox, nodeSide, reported, cap, pushes>>

(* The record goes from both books; headers are written once.                *)
SettledHere(r) == pending' = pending \ {r} /\ booked' = booked
Settled(r) == pending' = pending \ {r} /\ booked' = booked \ {r}
Replied(r) == replies' = IF replies[r] = 0 THEN [replies EXCEPT ![r] = 1] ELSE replies

RequestTimesOut(r) ==
  /\ r \in pending /\ Settled(r) /\ Replied(r)
  /\ UNCHANGED <<stage, nodeInbox, serverInbox, nodeSide, reported, cap, pushes>>

(* An answer to a request that timed out finds no record.                    *)
HandleResponse ==
  /\ serverInbox # << >> /\ Head(serverInbox).type = "response" /\ serverInbox' = Tail(serverInbox)
  /\ LET r == Head(serverInbox).request
     IN IF r \in pending THEN Settled(r) /\ Replied(r) ELSE UNCHANGED <<pending, booked, replies>>
  /\ UNCHANGED <<stage, nodeInbox, nodeSide, reported, cap, pushes>>

HandleStats ==
  /\ serverInbox # << >> /\ Head(serverInbox).type = "stats" /\ serverInbox' = Tail(serverInbox)
  /\ reported' = [requests |-> Head(serverInbox).requests, limit |-> Head(serverInbox).limit]
  /\ UNCHANGED <<stage, replies, pending, booked, nodeInbox, nodeSide, cap, pushes>>

PushConcurrencyLimit(n) ==
  /\ pushes < MaxPushes /\ n # cap /\ pushes' = pushes + 1 /\ cap' = n
  /\ nodeInbox' = Append(nodeInbox, LimitsPush(n))
  /\ UNCHANGED <<stage, replies, pending, booked, serverInbox, nodeSide, reported>>

----------------------------------------------------------------------------
(* The node's handleRequest(): refused above the limit, or for a URL that    *)
(* does not parse; else the target is called.                                *)
HandleRequest ==
  /\ nodeInbox # << >> /\ Head(nodeInbox).type = "request" /\ nodeInbox' = Tail(nodeInbox)
  /\ LET r == Head(nodeInbox).request
     IN \/ /\ Cardinality(active) < nodeLimit /\ active' = active \cup {r} /\ UNCHANGED serverInbox
        \/ serverInbox' = Append(serverInbox, NodeResponse(r)) /\ UNCHANGED active
  /\ UNCHANGED <<serverSide, broken, nodeLimit>>

HandleLimits ==
  /\ nodeInbox # << >> /\ Head(nodeInbox).type = "limits" /\ nodeInbox' = Tail(nodeInbox)
  /\ nodeLimit' = Head(nodeInbox).limit
  /\ UNCHANGED <<serverSide, serverInbox, active, broken>>

(* The response is whole, or the call failed or timed out.                   *)
CallEnds(r) ==
  /\ r \in active \ broken /\ active' = active \ {r}
  /\ serverInbox' = Append(serverInbox, NodeResponse(r))
  /\ UNCHANGED <<serverSide, nodeInbox, broken, nodeLimit>>

(* The target closes its connection within the response: `end` never comes,  *)
(* and neither the request's error nor its timeout tells of it.              *)
TargetBreaksOff(r) ==
  /\ r \in active \ broken /\ broken' = broken \cup {r}
  /\ UNCHANGED <<serverSide, nodeInbox, serverInbox, active, nodeLimit>>

(* The heartbeat of the node reports.                                        *)
Due == <<Stats.requests, Stats.limit>> # <<reported.requests, reported.limit>>
Heartbeat ==
  /\ Due /\ \A i \in DOMAIN serverInbox : serverInbox[i].type # "stats"
  /\ serverInbox' = Append(serverInbox, Stats)
  /\ UNCHANGED <<serverSide, nodeInbox, nodeSide>>

AdmissionNext ==
  \/ \E r \in Calls : \/ Arrives(r) \/ BodyStops(r) \/ BodyEnds(r) \/ RequestTimesOut(r)
                      \/ CallEnds(r) \/ TargetBreaksOff(r)
  \/ HandleResponse \/ HandleStats \/ HandleRequest \/ HandleLimits \/ Heartbeat
  \/ \E n \in Caps : PushConcurrencyLimit(n)

AdmissionSpec == AdmissionInit /\ [][AdmissionNext]_admissionVars

(* Messages are handled, timers fire, heartbeats are sent, and a call that   *)
(* is not broken off ends.                                                   *)
AdmissionFairness ==
  /\ WF_admissionVars(HandleResponse) /\ WF_admissionVars(HandleStats) /\ WF_admissionVars(HandleRequest)
  /\ WF_admissionVars(HandleLimits) /\ WF_admissionVars(Heartbeat)
  /\ \A r \in Calls : WF_admissionVars(RequestTimesOut(r)) /\ WF_admissionVars(CallEnds(r))
AdmissionFairSpec == AdmissionSpec /\ AdmissionFairness

----------------------------------------------------------------------------
AdmissionTypeOK ==
  /\ stage \in [Calls -> {"new", "refused", "collecting", "sent", "gone"}]
  /\ replies \in [Calls -> 0..1] /\ pending \cup booked \cup active \cup broken \subseteq Calls
  /\ {nodeLimit, cap} \subseteq Caps \cup {NodeCap}

(* The server's two books agree, and hold just the requests that were sent   *)
(* and not yet answered; whichever of answer, refusal and timeout was first. *)
BooksAgree == pending = booked /\ pending = {r \in Calls : stage[r] = "sent" /\ replies[r] = 0}

(* A node that is full is not full for ever: when its calls have ended, its  *)
(* reports let requests through again, unless a target broke off.            *)
AdmissionReopens == IsSaturated ~> (~IsSaturated \/ broken # {})

(* "The per-node concurrency limit the server admits against"                *)
(* (client-manager.ts:714): no more requests are sent to a node than the     *)
(* limit, here one that never changed.                                       *)
WithinTheLimit == pushes = 0 => Cardinality(booked) <= cap
=============================================================================
