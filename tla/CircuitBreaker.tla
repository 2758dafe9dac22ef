--------------------------- MODULE CircuitBreaker ---------------------------
(* The circuit breaker that isolates failing nodes, with the calls that feed *)
(* it: server/lib/circuit-breaker.ts, the selection of a node by             *)
(* server/lib/router.ts and server/lib/client-manager.ts, and the sessions   *)
(* of a node that ClientManager.add and remove begin and end.                *)
(*                                                                           *)
(* Times are ages in ticks, capped at MaxAge, which is beyond every limit    *)
(* they are compared with: Date.now() - windowStart is windowAge, and so on. *)
(* halfOpenAttempts, lastFailure and failureTypes, which the code only       *)
(* reports, are left out.                                                    *)
EXTENDS Integers, Sequences

CONSTANTS
  Nodes,          \* client ids
  Configs,        \* the settings updateConfig may be given
  MaxAge,         \* bound: the age at which times stop
  MaxHistory,    \* bound: how many outcomes the histories remember
  MaxInFlight     \* bound: requests in flight at a node

ASSUME BoundAssumption == {MaxAge, MaxHistory, MaxInFlight} \subseteq Nat
ASSUME ConfigAssumption ==
  Configs \subseteq [error_threshold : 1..MaxHistory, window_ms : 0..MaxAge-1,
                     recovery_timeout_ms : 0..MaxAge-1, half_open_max_attempts : 1..MaxHistory]

VARIABLES
  config,      \* _defaults
  cb,          \* states: an entry or NoEntry for each node
  registered,  \* the keys of ClientManager.clients
  current,     \* current[n]: requests in flight that this session of n was given
  timedOut,    \* timedOut[n]: those over for their user whose stream is still open
  stale,       \* stale[n]: requests in flight that an earlier session was given
  recent,      \* history: the failures counted since the last event that forgives
  streak       \* history: the successes counted since the last failure

requests == <<current, timedOut, stale>>
history == <<recent, streak>>
vars == <<config, cb, registered, requests, history>>

States == {"CLOSED", "OPEN", "HALF_OPEN"}
Entry == [state : States, failures : Nat, successes : Nat,
          windowAge : 0..MaxAge, openAge : 0..MaxAge]
NoEntry == [state |-> "NONE"]

(* A failure of the history: its age, and whether its request was given to   *)
(* the session that is registered now.                                       *)
Failed == [age : 0..MaxAge, own : BOOLEAN]

(* _get: an entry is created at its first use.                               *)
NewEntry == [state |-> "CLOSED", failures |-> 0, successes |-> 0,
             windowAge |-> 0, openAge |-> MaxAge]
Get(n) == IF cb[n] = NoEntry THEN NewEntry ELSE cb[n]
IsClosed(n) == cb[n].state \in {"NONE", "CLOSED"}

(* The element that i others follow.                                         *)
FromLast(s, i) == s[Len(s) - i]

(* Pushes x and forgets all but the last MaxHistory.                        *)
Remember(s, x) == IF Len(s) < MaxHistory THEN Append(s, x) ELSE Append(Tail(s), x)

----------------------------------------------------------------------------
Init ==
  /\ config \in Configs
  /\ cb = [n \in Nodes |-> NoEntry]
  /\ registered = {}
  /\ current = [n \in Nodes |-> 0]
  /\ timedOut = [n \in Nodes |-> 0]
  /\ stale = [n \in Nodes |-> 0]
  /\ recent = [n \in Nodes |-> << >>]
  /\ streak = [n \in Nodes |-> 0]

(* Time passes, for everyone alike.                                          *)
Older(age) == IF age < MaxAge THEN age + 1 ELSE age
OlderEntry(e) == [e EXCEPT !.windowAge = Older(@), !.openAge = Older(@)]
OlderFailures(r) == [i \in 1..Len(r) |-> [r[i] EXCEPT !.age = Older(@)]]

Tick ==
  /\ cb' = [n \in Nodes |-> IF cb[n] = NoEntry THEN NoEntry ELSE OlderEntry(cb[n])]
  /\ recent' = [n \in Nodes |-> OlderFailures(recent[n])]
  /\ UNCHANGED <<config, registered, requests, streak>>

----------------------------------------------------------------------------
(* isAllowed: whether n may be given a request, and its entry afterwards.    *)
Recovering(e) == e.state = "OPEN" /\ e.openAge > config.recovery_timeout_ms
Allowed(e) == e.state # "OPEN" \/ Recovering(e)
Retested(e) == IF Recovering(e) THEN [e EXCEPT !.state = "HALF_OPEN", !.successes = 0] ELSE e

Dispatch(n) ==
  /\ current[n] + timedOut[n] + stale[n] < MaxInFlight
  /\ current' = [current EXCEPT ![n] = @ + 1]

(* Router.select filters every registered node by isAllowed before it looks  *)
(* at tags and strategy; one of the nodes left is given the request, or none *)
(* (no tag matches, or the node is saturated).                               *)
Select ==
  /\ registered # {}
  /\ cb' = [n \in Nodes |-> IF n \in registered THEN Retested(Get(n)) ELSE cb[n]]
  /\ \/ \E n \in registered : Allowed(Get(n)) /\ Dispatch(n)
     \/ UNCHANGED current
  /\ UNCHANGED <<config, registered, timedOut, stale, history>>

(* selectClient of one node: a proxy password bound to its id.               *)
SelectForced(n) ==
  /\ n \in registered
  /\ cb' = [cb EXCEPT ![n] = Retested(Get(n))]
  /\ \/ Allowed(Get(n)) /\ Dispatch(n)
     \/ UNCHANGED current
  /\ UNCHANGED <<config, registered, timedOut, stale, history>>

----------------------------------------------------------------------------
(* A request ends.  However it does, trackSuccess and trackError only know   *)
(* the node's id.                                                            *)
Ends(count, n) ==
  /\ count[n] > 0
  /\ count' = [count EXCEPT ![n] = @ - 1]

EndOwn(n) ==
  \/ Ends(current, n) /\ UNCHANGED <<timedOut, stale>>
  \/ Ends(timedOut, n) /\ UNCHANGED <<current, stale>>
EndStale(n) == Ends(stale, n) /\ UNCHANGED <<current, timedOut>>

(* onSuccess.                                                                *)
Recovered(e) == e.state = "HALF_OPEN" /\ e.successes + 1 >= config.half_open_max_attempts
Succeeded(e) ==
  CASE Recovered(e) -> [e EXCEPT !.state = "CLOSED", !.failures = 0, !.successes = 0]
    [] e.state = "HALF_OPEN" /\ ~Recovered(e) -> [e EXCEPT !.successes = @ + 1]
    [] e.state = "CLOSED" -> [e EXCEPT !.failures = 0, !.windowAge = 0]
    [] e.state = "OPEN" -> e

(* Also of a request of a replaced socket, which still handles what arrives. *)
Success(n) ==
  /\ \/ Ends(current, n) /\ UNCHANGED <<timedOut, stale>>
     \/ EndStale(n)
  /\ cb' = [cb EXCEPT ![n] = Succeeded(Get(n))]
  /\ recent' = IF Get(n).state = "CLOSED" \/ Recovered(Get(n))
                 THEN [recent EXCEPT ![n] = << >>] ELSE recent
  /\ streak' = [streak EXCEPT ![n] = IF @ < MaxHistory THEN @ + 1 ELSE @]
  /\ UNCHANGED <<config, registered>>

(* onFailure.                                                                *)
Expired(e) == e.windowAge > config.window_ms
CountedStale(e) == [e EXCEPT !.failures = @ + 1]
Counted(e) == IF Expired(e) THEN [e EXCEPT !.failures = 1, !.windowAge = 0]
              ELSE [e EXCEPT !.failures = @ + 1]
ReopenedKept(e) == [e EXCEPT !.state = "OPEN", !.openAge = 0]
Reopened(e) == [e EXCEPT !.state = "OPEN", !.openAge = 0, !.successes = 0]
FailedOnceLenient(e) ==
  LET c == Counted(e) IN
  IF e.state # "CLOSED" THEN e
  ELSE IF c.failures >= config.error_threshold
         THEN [c EXCEPT !.state = "OPEN", !.openAge = 0] ELSE c
FailedOnce(e) ==
  CASE e.state = "CLOSED" ->
         LET c == Counted(e) IN
         IF c.failures >= config.error_threshold
           THEN [c EXCEPT !.state = "OPEN", !.openAge = 0] ELSE c
    [] e.state = "HALF_OPEN" -> Reopened(e)
    [] e.state = "OPEN" -> e

CountFailure(n, own) ==
  /\ cb' = [cb EXCEPT ![n] = FailedOnce(Get(n))]
  /\ recent' = [recent EXCEPT ![n] = Remember(@, [age |-> 0, own |-> own])]
  /\ streak' = [streak EXCEPT ![n] = 0]
  /\ UNCHANGED <<config, registered>>

Fail(n) ==
  \/ EndOwn(n) /\ CountFailure(n, TRUE)
  \/ EndStale(n) /\ CountFailure(n, FALSE)

(* The target failed, not the node (isNodeFailure), or nobody keeps count.   *)
Uncounted(n) ==
  /\ EndOwn(n) \/ EndStale(n)
  /\ UNCHANGED <<config, cb, registered, history>>

(* An HTTP request times out: that describes the request, not the node, and  *)
(* is not counted.  It is over for its user, but its stream stays open and   *)
(* may still fail.                                                           *)
TimeOut(n) ==
  /\ Ends(current, n)
  /\ timedOut' = [timedOut EXCEPT ![n] = @ + 1]
  /\ UNCHANGED <<config, cb, registered, stale, history>>

----------------------------------------------------------------------------
(* The entry of n is dropped.                                                *)
Forget(n) ==
  /\ cb' = [cb EXCEPT ![n] = NoEntry]
  /\ recent' = [recent EXCEPT ![n] = << >>]
  /\ UNCHANGED streak

(* What the sessions of ns were given is no longer their successors'.        *)
Orphan(ns) ==
  /\ current' = [n \in Nodes |-> IF n \in ns THEN 0 ELSE current[n]]
  /\ timedOut' = [n \in Nodes |-> IF n \in ns THEN 0 ELSE timedOut[n]]
  /\ stale' = [n \in Nodes |->
                 IF n \in ns THEN stale[n] + current[n] + timedOut[n] ELSE stale[n]]

(* ClientManager.add: a session that is still registered is replaced - its   *)
(* socket is closed and its streams fail later, with 'close'.                *)
Register(n) ==
  /\ registered' = registered \cup {n}
  /\ Forget(n)
  /\ Orphan({n})
  /\ UNCHANGED config

(* The socket of n closes: its streams have failed by the time remove runs.  *)
Disconnect(n) ==
  /\ n \in registered
  /\ current[n] = 0 /\ timedOut[n] = 0
  /\ registered' = registered \ {n}
  /\ UNCHANGED <<config, cb, requests, history>>

(* The health check removes silent nodes before their sockets have closed,   *)
(* then the breaker's cleanup drops the entries of every node that is gone.  *)
HealthCheck ==
  \E silent \in SUBSET registered :
    /\ registered' = registered \ silent
    /\ Orphan(silent)
    /\ cb' = [n \in Nodes |-> IF n \in registered' THEN cb[n] ELSE NoEntry]
    /\ recent' = [n \in Nodes |-> IF n \in registered' THEN recent[n] ELSE << >>]
    /\ UNCHANGED <<config, streak>>

(* reset and updateConfig, from the panel.                                   *)
Reset(n) ==
  /\ Forget(n)
  /\ UNCHANGED <<config, registered, requests>>

UpdateConfig ==
  /\ config' \in Configs
  /\ UNCHANGED <<cb, registered, requests, history>>

----------------------------------------------------------------------------
Next ==
  \/ Tick
  \/ Select
  \/ HealthCheck
  \/ UpdateConfig
  \/ \E n \in Nodes :
       \/ SelectForced(n)
       \/ Success(n)
       \/ TimeOut(n)
       \/ Fail(n)
       \/ Uncounted(n)
       \/ Register(n)
       \/ Disconnect(n)
       \/ Reset(n)

Spec == Init /\ [][Next]_vars

----------------------------------------------------------------------------
(* Types.  Successes are counted only while a breaker is half open.          *)
TypeOK ==
  /\ config \in Configs
  /\ cb \in [Nodes -> Entry \cup {NoEntry}]
  /\ \A n \in Nodes : cb[n].state \in {"CLOSED", "OPEN"} => cb[n].successes = 0
  /\ registered \subseteq Nodes
  /\ current \in [Nodes -> Nat]
  /\ timedOut \in [Nodes -> Nat]
  /\ stale \in [Nodes -> Nat]
  /\ recent \in [Nodes -> Seq(Failed)]
  /\ streak \in [Nodes -> 0..MaxHistory]

(* A node is isolated only on evidence: when its breaker opens from CLOSED,  *)
(* error_threshold failures in a row lie within window_ms, whatever settings *)
(* changed meanwhile and wherever the counting window happened to start.     *)
OpensOnEvidence ==
  \A n \in Nodes :
    IsClosed(n) /\ cb'[n].state = "OPEN" =>
      \A i \in 0..config.error_threshold - 1 :
        /\ i < Len(recent'[n])
        /\ FromLast(recent'[n], i).age <= config.window_ms
IsolationNeedsEvidence == [][OpensOnEvidence]_vars

(* An isolated node returns only on consecutive successes: when a half-open  *)
(* breaker closes, half_open_max_attempts requests in a row have succeeded,  *)
(* whatever failed, recovered or was reconfigured before.                    *)
ReturnsOnSuccesses ==
  \A n \in Nodes :
    cb[n].state = "HALF_OPEN" /\ cb'[n].state = "CLOSED" =>
      streak'[n] >= config.half_open_max_attempts
ReturnNeedsSuccesses == [][ReturnsOnSuccesses]_vars

(* The breaker forgives: a node that keeps succeeding and stops failing does *)
(* not stay out of rotation.                                                 *)
Recovery ==
  \A n \in Nodes :
    []<><<Success(n)>>_vars /\ <>[][~Fail(n)]_vars => []<>IsClosed(n)

(* A session answers for its own failures: a registered node is isolated     *)
(* only if a request of this session failed.                                 *)
FreshSession ==
  \A n \in registered :
    cb[n].state = "OPEN" => \E i \in 1..Len(recent[n]) : recent[n][i].own
=============================================================================
