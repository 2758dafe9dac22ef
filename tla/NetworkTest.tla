----------------------------- MODULE NetworkTest -----------------------------
(* The panel's network tests (network-test.ts, client.ts): a task runs on    *)
(* the server, one after the other, or is sent to nodes that report target   *)
(* by target, while nodes come and go and a watchdog limits the wait.        *)
EXTENDS Integers, Sequences, FiniteSets, SequencesExt

CONSTANTS
  TestNodes,
  Here,         \* the server itself as the one that tests
  Orders,       \* Orders[k]: the testers the k-th task may ask for; bounds the tasks
  Targets,      \* number of targets of a task
  MaxDeaths     \* bound: connections that die

ASSUME NetworkTestAssumption ==
  /\ Here \notin TestNodes /\ Targets \in Nat \ {0} /\ MaxDeaths \in Nat
  /\ DOMAIN Orders = 1..Len(Orders) /\ Len(Orders) \in Nat
  /\ \A k \in DOMAIN Orders :
       Orders[k] \subseteq Seq(TestNodes) \cup {<<Here>>} /\ <<>> \notin Orders[k]

VARIABLES
  task,         \* the tasks map, in the order of its keys
  session,      \* session[n]: "up", "dying" (registered, not open) or "gone"
  tester,       \* tester[n]: the node's runner: its task (0: none), next target
  toNode,       \* toNode[n]: tasks sent
  toServer,     \* toServer[n]: reports sent
  deaths

testVars == <<task, session, tester, toNode, toServer, deaths>>

Index == 1..Targets
Idle == [task |-> 0, next |-> 1]

NetworkTestInit ==
  /\ task = <<>>
  /\ session = [n \in TestNodes |-> "up"] /\ tester = [n \in TestNodes |-> Idle]
  /\ toNode = [n \in TestNodes |-> <<>>] /\ toServer = [n \in TestNodes |-> <<>>]
  /\ deaths = 0

----------------------------------------------------------------------------
(* results[c][i]: how many results of c for target i the task has.           *)
ResultsOf(t) == UNION {{<<c, i>>} \X (1..t.results[c][i]) : c \in DOMAIN t.results, i \in Index}
TaskDone(t) == Cardinality(ResultsOf(t))
Expect(t) == Len(t.order) * Targets
IsFull(t) == TaskDone(t) >= Expect(t)
OnNodes(t) == t.order # <<Here>>

Concluded(t) ==
  IF t.state = "running" /\ IsFull(t) THEN [t EXCEPT !.state = "done", !.watchdog = FALSE] ELSE t

(* _finalizeClient(), for each of cs: what it has not reported has failed.   *)
FilledTwice(t, cs) ==
  [t EXCEPT !.results = [c \in DOMAIN @ |-> [i \in Index |-> IF c \in cs THEN @[c][i] + 1 ELSE @[c][i]]]]
Filled(t, cs) ==
  [t EXCEPT !.results = [c \in DOMAIN @ |->
     [i \in Index |-> IF c \in cs /\ @[c][i] = 0 THEN 1 ELSE @[c][i]]]]
Finalized(t, cs) == Concluded(Filled(t, cs))

Absent(n) == session[n] = "gone"

(* onClientsChanged()                                                        *)
Changed(gone) ==
  [k \in DOMAIN task |->
     IF OnNodes(task[k]) /\ task[k].state = "running" THEN Finalized(task[k], gone) ELSE task[k]]

(* start(): a task for nodes is sent at once and watched, one for the server *)
(* waits for its turn.                                                       *)
New(order) ==
  [order |-> order, state |-> "queued", watchdog |-> FALSE,
   results |-> [c \in Range(order) |-> [i \in Index |-> 0]]]

Watched(t) == [t EXCEPT !.watchdog = TRUE]

StartOnNodes(order) ==
  LET id == Len(task) + 1
      t == Finalized([New(order) EXCEPT !.state = "running"],
                     {n \in TestNodes : session[n] # "up"})
  IN /\ order # <<Here>>
     /\ task' = Append(task, Watched(t))
     /\ toNode' = [n \in TestNodes |->
          IF session[n] = "up"
            THEN toNode[n] \o [i \in 1..Cardinality({j \in DOMAIN order : order[j] = n}) |-> id]
            ELSE toNode[n]]

(* _kick(): the next queued task runs when none does.                        *)
Kicked(tasks) ==
  LET mine(state) == {k \in DOMAIN tasks : ~OnNodes(tasks[k]) /\ tasks[k].state = state}
      next == {k \in mine("queued") : mine("running") = {} /\ \A j \in mine("queued") : k <= j}
  IN [k \in DOMAIN tasks |-> IF k \in next THEN [tasks[k] EXCEPT !.state = "running"] ELSE tasks[k]]

StartHere(order) ==
  /\ order = <<Here>>
  /\ task' = Kicked(Append(task, New(order))) /\ UNCHANGED toNode

Start ==
  /\ Len(task) < Len(Orders)
  /\ \E order \in Orders[Len(task) + 1] : StartOnNodes(order) \/ StartHere(order)
  /\ UNCHANGED <<session, tester, toServer, deaths>>

(* _run(): one target at a time.                                             *)
RunHere(k) ==
  LET t == task[k]
  IN /\ ~OnNodes(t) /\ t.state = "running"
     /\ \E i \in Index :
          /\ t.results[Here][i] = 0 /\ \A j \in 1..(i - 1) : t.results[Here][j] # 0
          /\ task' = Kicked([task EXCEPT ![k] = Concluded([t EXCEPT !.results[Here][i] = 1])])
     /\ UNCHANGED <<session, tester, toNode, toServer, deaths>>

(* The timer of the task; then the finished task is forgotten.               *)
Watchdog(k) ==
  /\ task[k].watchdog
  /\ LET t == [task[k] EXCEPT !.watchdog = FALSE]
     IN task' = [task EXCEPT ![k] =
          IF t.state = "running"
            THEN [Finalized(t, DOMAIN t.results) EXCEPT !.state = "done"] ELSE t]
  /\ UNCHANGED <<session, tester, toNode, toServer, deaths>>

GC(k) ==
  /\ task[k].state = "done"
  /\ task' = [task EXCEPT ![k].state = "forgotten", ![k].results = <<>>]
  /\ UNCHANGED <<session, tester, toNode, toServer, deaths>>

----------------------------------------------------------------------------
(* The node.  safeSend() drops what it cannot send.                          *)
Send(n, report) ==
  toServer' = IF session[n] = "up" THEN [toServer EXCEPT ![n] = Append(@, report)] ELSE toServer

Report(k, index, error) == [task |-> k, index |-> index, error |-> error]

HandleNetTest(n) ==
  /\ toNode[n] # <<>>
  /\ toNode' = [toNode EXCEPT ![n] = Tail(@)]
  /\ IF tester[n].task # 0
       THEN Send(n, Report(Head(toNode[n]), 0, TRUE)) /\ UNCHANGED tester
       ELSE tester' = [tester EXCEPT ![n] = [task |-> Head(toNode[n]), next |-> 1]] /\ UNCHANGED toServer
  /\ UNCHANGED <<task, session, deaths>>

TargetTested(n) ==
  LET r == tester[n]
  IN /\ r.task # 0
     /\ IF r.next \in Index
          THEN /\ Send(n, Report(r.task, r.next, FALSE))
               /\ tester' = [tester EXCEPT ![n].next = @ + 1]
          ELSE /\ Send(n, Report(r.task, 0, FALSE))
               /\ tester' = [tester EXCEPT ![n] = Idle]
     /\ UNCHANGED <<task, session, toNode, deaths>>

----------------------------------------------------------------------------
(* What the server does with a report: onClientProgress(), onClientDone().   *)
Reported(t, n, i) ==
  IF t.results[n][i] > 0 \/ IsFull(t) THEN t ELSE Concluded([t EXCEPT !.results[n][i] = 1])

Handled(t, n, report) ==
  IF t.state # "running" THEN t
  ELSE IF report.index # 0 THEN Reported(t, n, report.index)
  ELSE IF report.error THEN Finalized(t, {n}) ELSE t

HandleReport(n) ==
  /\ toServer[n] # <<>>
  /\ LET report == Head(toServer[n])
     IN task' = [task EXCEPT ![report.task] = Handled(@, n, report)]
  /\ toServer' = [toServer EXCEPT ![n] = Tail(@)]
  /\ UNCHANGED <<session, tester, toNode, deaths>>

(* A connection dies, its end is noticed, the node is back - possibly before *)
(* the end was noticed.                                                      *)
NodeDies(n) ==
  /\ session[n] = "up" /\ deaths < MaxDeaths /\ deaths' = deaths + 1
  /\ session' = [session EXCEPT ![n] = "dying"] /\ toNode' = [toNode EXCEPT ![n] = <<>>]
  /\ UNCHANGED <<task, tester, toServer>>

Removed(n) ==
  /\ session[n] = "dying"
  /\ session' = [session EXCEPT ![n] = "gone"] /\ toServer' = [toServer EXCEPT ![n] = <<>>]
  /\ task' = Changed({m \in TestNodes : m = n \/ Absent(m)})
  /\ UNCHANGED <<tester, toNode, deaths>>

Returns(n) ==
  /\ session[n] # "up"
  /\ session' = [session EXCEPT ![n] = "up"] /\ toServer' = [toServer EXCEPT ![n] = <<>>]
  /\ task' = Changed({m \in TestNodes \ {n} : Absent(m)})
  /\ UNCHANGED <<tester, toNode, deaths>>

NetworkTestNext ==
  \/ Start
  \/ \E k \in DOMAIN task : RunHere(k) \/ Watchdog(k) \/ GC(k)
  \/ \E n \in TestNodes : \/ HandleNetTest(n) \/ TargetTested(n) \/ HandleReport(n)
                      \/ NodeDies(n) \/ Removed(n) \/ Returns(n)

NetworkTestSpec == NetworkTestInit /\ [][NetworkTestNext]_testVars

(* Only the timer is sure to come: a node may never answer, and a target the *)
(* server tests itself may answer a byte at a time.                          *)
NetworkTestFairness ==
  \A k \in DOMAIN Orders : WF_testVars(k \in DOMAIN task /\ Watchdog(k))

----------------------------------------------------------------------------
NetworkTestTypeOK ==
  /\ \A n \in TestNodes : tester[n].task \in 0..Len(task) /\ tester[n].next \in 1..Targets + 1
  /\ \A k \in DOMAIN task :
       /\ task[k].order \in Orders[k] /\ DOMAIN task[k].results \in {{}, Range(task[k].order)}
       /\ task[k].state \in {"queued", "running", "done", "forgotten"}
  /\ Cardinality({k \in DOMAIN task : ~OnNodes(task[k]) /\ task[k].state = "running"}) <= 1

(* A task that is done has exactly one result for every tester and target,   *)
(* in whatever order reports, disconnects, returns and the watchdog came.    *)
DoneIsComplete ==
  \A k \in DOMAIN task :
    \A c \in DOMAIN task[k].results : \A i \in Index :
      /\ task[k].results[c][i] <= 1
      /\ task[k].state = "done" => task[k].results[c][i] = 1

(* A task for nodes is done in the end, though nodes die and reports are     *)
(* lost.                                                                     *)
TestEnds ==
  \A k \in DOMAIN Orders :
    (k \in DOMAIN task /\ OnNodes(task[k])) ~> (k \in DOMAIN task /\ task[k].state \in {"done", "forgotten"})
=============================================================================
