-------------------------- MODULE NodeHealth_proofs --------------------------
(* What each process does about a node that fails: proofs about CircuitBreaker, *)
(* for every set of nodes, every set of settings and all bounds, and about the *)
(* safety of NodeReconnect, for any number of sockets and of missed pongs.   *)
(*                                                                           *)
(* The counters of an entry say less than the properties speak of: failures  *)
(* is a number, not the list of failures, and successes counts since the     *)
(* last test began.  The invariant ties them to the histories: the last      *)
(* `failures` failures of a closed breaker lie within its window, and the    *)
(* `successes` of a half-open one are the last outcomes of the node.         *)
EXTENDS CircuitBreaker, NodeReconnect, TLAPS

Evidence(e, r) ==
  e.state = "CLOSED" =>
    /\ e.failures < MaxHistory
    /\ e.failures <= Len(r)
    /\ \A i \in 0..e.failures - 1 : FromLast(r, i).age <= e.windowAge

Tested(e, k) == e.state = "HALF_OPEN" => e.successes < MaxHistory /\ e.successes <= k

Dormant(e) == e.state \in {"CLOSED", "OPEN"} => e.successes = 0

EntryInv(e, r, k) ==
  /\ e \in Entry
  /\ r \in Seq(Failed)
  /\ k \in 0..MaxHistory
  /\ Evidence(e, r)
  /\ Tested(e, k)
  /\ Dormant(e)

NodeInv(n) == cb[n] # NoEntry => EntryInv(cb[n], recent[n], streak[n])

IInv == TypeOK /\ \A n \in Nodes : NodeInv(n)

----------------------------------------------------------------------------
(* What the constants promise of the settings in force.                      *)
LEMMA SettingTypes ==
  ASSUME config \in Configs
  PROVE  /\ config.error_threshold \in 1..MaxHistory
         /\ config.half_open_max_attempts \in 1..MaxHistory
         /\ config.window_ms \in 0..MaxAge
         /\ config.recovery_timeout_ms \in 0..MaxAge
         /\ MaxHistory \in Nat \ {0}
         /\ MaxAge \in Nat
BY BoundAssumption, ConfigAssumption

LEMMA NoAge == MaxAge \in Nat /\ 0 \in 0..MaxAge
BY BoundAssumption

(* Remember puts x last, and what it keeps it keeps in its place from the    *)
(* end.                                                                      *)
LEMMA RememberKeeps ==
  ASSUME MaxHistory # 0, NEW s \in Seq(Failed), NEW x \in Failed,
         NEW t, t = Remember(s, x)
  PROVE  /\ t \in Seq(Failed)
         /\ Len(t) \in Nat /\ Len(t) >= 1
         /\ Len(t) = Len(s) + 1 \/ (Len(t) = Len(s) /\ Len(s) >= MaxHistory)
         /\ FromLast(t, 0) = x
         /\ \A i \in 1..Len(t) - 1 : FromLast(t, i) = FromLast(s, i - 1)
<1> USE BoundAssumption
<1>1. CASE Len(s) < MaxHistory
  <2>1. t = Append(s, x)
    BY <1>1 DEF Remember
  <2>2. t \in Seq(Failed) /\ Len(t) = Len(s) + 1 /\ t[Len(t)] = x /\ Len(s) \in Nat
    BY <2>1
  <2>3. ASSUME NEW j \in 1..Len(s) PROVE t[j] = s[j]
    BY <2>1
  <2>4. ASSUME NEW i \in 1..Len(t) - 1
        PROVE  FromLast(t, i) = FromLast(s, i - 1)
    <3>1. Len(t) - i \in 1..Len(s) /\ Len(t) - i = Len(s) - (i - 1)
      BY <2>2
    <3> QED BY <3>1, <2>3 DEF FromLast
  <2> QED BY <2>2, <2>4 DEF FromLast
<1>2. CASE ~(Len(s) < MaxHistory)
  <2>1. Len(s) \in Nat /\ Len(s) >= MaxHistory /\ s # << >>
    BY <1>2
  <2>2. /\ Tail(s) \in Seq(Failed)
        /\ Len(Tail(s)) = Len(s) - 1
        /\ \A j \in 1..Len(s) - 1 : Tail(s)[j] = s[j + 1]
    BY <2>1
  <2>3. t = Append(Tail(s), x)
    BY <1>2 DEF Remember
  <2>4. t \in Seq(Failed) /\ Len(t) = Len(s) /\ t[Len(t)] = x
    BY <2>1, <2>2, <2>3
  <2>5. ASSUME NEW j \in 1..Len(s) - 1 PROVE t[j] = s[j + 1]
    BY <2>1, <2>2, <2>3
  <2>6. ASSUME NEW i \in 1..Len(t) - 1
        PROVE  FromLast(t, i) = FromLast(s, i - 1)
    <3>1. Len(t) - i \in 1..Len(s) - 1 /\ (Len(t) - i) + 1 = Len(s) - (i - 1)
      BY <2>1, <2>4
    <3>2. t[Len(t) - i] = s[(Len(t) - i) + 1]
      BY <3>1, <2>5
    <3> QED BY <3>1, <3>2 DEF FromLast
  <2> QED BY <2>1, <2>4, <2>6 DEF FromLast
<1> QED BY <1>1, <1>2

----------------------------------------------------------------------------
(* The operators on entries keep the invariant of an entry.                  *)
LEMMA NewEntryInv ==
  ASSUME NEW r \in Seq(Failed), NEW k \in 0..MaxHistory, config \in Configs
  PROVE  EntryInv(NewEntry, r, k)
BY SettingTypes DEF EntryInv, Evidence, Tested, Dormant, NewEntry, Entry, States

LEMMA GetInv ==
  ASSUME IInv, NEW n \in Nodes
  PROVE  EntryInv(Get(n), recent[n], streak[n])
BY NewEntryInv DEF IInv, NodeInv, TypeOK, Get

LEMMA RetestedInv ==
  ASSUME config \in Configs, NEW e, NEW r, NEW k, EntryInv(e, r, k)
  PROVE  EntryInv(Retested(e), r, k)
<1>1. CASE Recovering(e)
  <2>1. e \in Entry
    BY DEF EntryInv
  <2>2. /\ Retested(e) \in Entry
        /\ Retested(e).state = "HALF_OPEN"
        /\ Retested(e).successes = 0
    BY <1>1, <2>1 DEF Retested, Entry, States
  <2> QED BY <2>2, SettingTypes DEF EntryInv, Evidence, Tested, Dormant
<1>2. CASE ~Recovering(e)
  BY <1>2 DEF Retested
<1> QED BY <1>1, <1>2

(* A success counts towards the closing of a half-open breaker, and forgives *)
(* a closed one.                                                             *)
LEMMA SucceededInv ==
  ASSUME config \in Configs, NEW e, NEW r, NEW k, EntryInv(e, r, k),
         NEW l, l = (IF k < MaxHistory THEN k + 1 ELSE k)
  PROVE  /\ EntryInv(Succeeded(e), r, l)
         /\ e.state = "CLOSED" \/ Recovered(e) => EntryInv(Succeeded(e), << >>, l)
         /\ e.state = "HALF_OPEN" /\ Succeeded(e).state = "CLOSED" =>
              l >= config.half_open_max_attempts
<1>1. e \in Entry
  BY DEF EntryInv
<1>2. l \in 0..MaxHistory /\ (l > k \/ l = MaxHistory) /\ << >> \in Seq(Failed)
  BY SettingTypes DEF EntryInv
<1>3. CASE e.state = "CLOSED"
  <2>1. /\ Succeeded(e) \in Entry
        /\ Succeeded(e).state = "CLOSED"
        /\ Succeeded(e).failures = 0
        /\ Succeeded(e).successes = e.successes
    BY <1>1, <1>3, NoAge DEF Succeeded, Recovered, Entry, States
  <2> QED
    BY <1>2, <1>3, <2>1, SettingTypes
    DEF EntryInv, Evidence, Tested, Dormant, Recovered
<1>4. CASE e.state = "OPEN"
  <2>1. Succeeded(e) = e
    BY <1>4 DEF Succeeded, Recovered
  <2> QED
    BY <1>2, <1>4, <2>1, SettingTypes
    DEF EntryInv, Evidence, Tested, Dormant, Recovered
<1>5. CASE Recovered(e)
  <2>1. /\ Succeeded(e) \in Entry
        /\ Succeeded(e).state = "CLOSED"
        /\ Succeeded(e).failures = 0
        /\ Succeeded(e).successes = 0
    BY <1>1, <1>5 DEF Succeeded, Recovered, Entry, States
  <2>2. e.successes < MaxHistory /\ e.successes <= k /\ e.successes \in Nat
    BY <1>1, <1>5 DEF EntryInv, Tested, Recovered, Entry
  <2>3. l >= config.half_open_max_attempts
    BY <1>2, <1>5, <2>2, SettingTypes DEF Recovered, EntryInv
  <2> QED
    BY <1>2, <2>1, <2>3, SettingTypes
    DEF EntryInv, Evidence, Tested, Dormant
<1>6. CASE e.state = "HALF_OPEN" /\ ~Recovered(e)
  <2>1. /\ Succeeded(e) \in Entry
        /\ Succeeded(e).state = "HALF_OPEN"
        /\ Succeeded(e).successes = e.successes + 1
    BY <1>1, <1>6 DEF Succeeded, Entry, States
  <2>2. /\ e.successes < MaxHistory /\ e.successes <= k /\ e.successes \in Nat
        /\ e.successes + 1 < MaxHistory
    BY <1>1, <1>6, SettingTypes DEF EntryInv, Tested, Recovered, Entry
  <2> QED
    BY <1>2, <1>6, <2>1, <2>2, SettingTypes
    DEF EntryInv, Evidence, Tested, Dormant
<1>7. e.state \in States
  BY <1>1 DEF Entry
<1> QED BY <1>3, <1>4, <1>5, <1>6, <1>7 DEF States

(* A failure opens a closed breaker only when it is the last of              *)
(* error_threshold failures within the window.                               *)
LEMMA FailedInv ==
  ASSUME config \in Configs, NEW e, NEW r, NEW k, EntryInv(e, r, k),
         NEW own \in BOOLEAN, NEW t, t = Remember(r, [age |-> 0, own |-> own])
  PROVE  /\ EntryInv(FailedOnce(e), t, 0)
         /\ e.state = "CLOSED" /\ FailedOnce(e).state = "OPEN" =>
              \A i \in 0..config.error_threshold - 1 :
                i < Len(t) /\ FromLast(t, i).age <= config.window_ms
         /\ e.state = "HALF_OPEN" => FailedOnce(e).state = "OPEN"
<1>1. /\ t \in Seq(Failed)
      /\ Len(t) \in Nat
      /\ Len(t) >= 1
      /\ Len(t) = Len(r) + 1 \/ (Len(t) = Len(r) /\ Len(r) >= MaxHistory)
      /\ FromLast(t, 0).age = 0
      /\ \A i \in 1..Len(t) - 1 : FromLast(t, i) = FromLast(r, i - 1)
  <2>1. PICK x \in Failed : x = [age |-> 0, own |-> own]
    BY NoAge DEF Failed
  <2>2. x.age = 0
    BY <2>1
  <2>5. r \in Seq(Failed)
    BY DEF EntryInv
  <2>6. t = Remember(r, x)
    BY <2>1
  <2>3. MaxHistory # 0
    BY SettingTypes
  <2>4. t \in Seq(Failed) /\ Len(t) \in Nat /\ Len(t) >= 1
    BY <2>3, <2>5, <2>6, RememberKeeps
  <2>7. Len(t) = Len(r) + 1 \/ (Len(t) = Len(r) /\ Len(r) >= MaxHistory)
    BY <2>3, <2>5, <2>6, RememberKeeps
  <2>8. FromLast(t, 0) = x
    BY <2>3, <2>5, <2>6, RememberKeeps
  <2>9. \A i \in 1..Len(t) - 1 : FromLast(t, i) = FromLast(r, i - 1)
    BY <2>3, <2>5, <2>6, RememberKeeps
  <2> QED BY <2>2, <2>4, <2>7, <2>8, <2>9
<1>2. CASE e.state = "CLOSED"
  <2> DEFINE c == Counted(e)
  <2>1. /\ e \in Entry /\ e.failures < MaxHistory /\ e.failures <= Len(r)
        /\ e.successes = 0
        /\ Len(r) \in Nat
        /\ \A i \in 0..e.failures - 1 : FromLast(r, i).age <= e.windowAge
    BY <1>2 DEF EntryInv, Evidence, Dormant
  <2>2. /\ c \in Entry /\ c.state = "CLOSED" /\ c.successes = 0
        /\ c.windowAge <= config.window_ms
        /\ c.failures <= MaxHistory /\ c.failures <= Len(t)
    <3>1. CASE Expired(e)
      <4>1. /\ c \in Entry /\ c.state = "CLOSED" /\ c.successes = 0
            /\ c.windowAge = 0 /\ c.failures = 1
        BY <1>2, <2>1, <3>1, NoAge DEF Counted, Entry
      <4> QED BY <4>1, <1>1, SettingTypes
    <3>2. CASE ~Expired(e)
      <4>1. /\ c \in Entry /\ c.state = "CLOSED" /\ c.successes = 0
            /\ c.windowAge = e.windowAge /\ c.failures = e.failures + 1
        BY <1>2, <2>1, <3>2 DEF Counted, Entry
      <4>2. e.windowAge \in 0..MaxAge /\ e.failures \in Nat
        BY <2>1 DEF Entry
      <4> QED BY <4>1, <4>2, <3>2, <2>1, <1>1, SettingTypes DEF Expired
    <3> QED BY <3>1, <3>2
  <2>3. \A i \in 0..c.failures - 1 : FromLast(t, i).age <= c.windowAge
    <3>1. CASE Expired(e)
      BY <1>1, <3>1, <2>1 DEF Counted, Entry
    <3>2. CASE ~Expired(e)
      <4>1. c.failures = e.failures + 1 /\ c.windowAge = e.windowAge
        BY <3>2, <2>1 DEF Counted, Entry
      <4>2. ASSUME NEW i \in 0..c.failures - 1, i # 0
            PROVE  FromLast(t, i).age <= c.windowAge
        <5>1. i - 1 \in 0..e.failures - 1 /\ i \in 1..Len(t) - 1
          BY <4>1, <4>2, <2>1, <1>1, <2>2 DEF Entry
        <5> QED BY <5>1, <1>1, <2>1, <4>1
      <4>3. FromLast(t, 0).age <= c.windowAge
        BY <1>1, <2>2 DEF Entry
      <4> QED BY <4>2, <4>3
    <3> QED BY <3>1, <3>2
  <2> HIDE DEF c
  <2>4. FailedOnce(e) = IF c.failures >= config.error_threshold
                          THEN [c EXCEPT !.state = "OPEN", !.openAge = 0] ELSE c
    BY <1>2 DEF FailedOnce, c
  <2>5. CASE c.failures >= config.error_threshold
    <3>1. EntryInv(FailedOnce(e), t, 0)
      <4>1. /\ FailedOnce(e) \in Entry
            /\ FailedOnce(e).state = "OPEN"
            /\ FailedOnce(e).successes = 0
        BY <2>2, <2>4, <2>5, NoAge DEF Entry, States
      <4> QED
        BY <1>1, <4>1, SettingTypes DEF EntryInv, Evidence, Tested, Dormant
    <3>2. ASSUME NEW i \in 0..config.error_threshold - 1
          PROVE  i < Len(t) /\ FromLast(t, i).age <= config.window_ms
      <4>1. i \in 0..c.failures - 1 /\ c.failures \in Nat
        BY <2>2, <2>5, SettingTypes DEF Entry
      <4>2. i < Len(t) /\ Len(t) - i \in 1..Len(t)
        BY <4>1, <2>2, <1>1
      <4>3. FromLast(t, i) \in Failed
        BY <4>2, <1>1 DEF FromLast
      <4> QED BY <4>1, <4>2, <4>3, <2>2, <2>3, SettingTypes DEF Failed, Entry
    <3> QED BY <1>2, <3>1, <3>2
  <2>6. CASE ~(c.failures >= config.error_threshold)
    <3>1. FailedOnce(e) = c /\ c.failures < MaxHistory
      BY <2>2, <2>4, <2>6, SettingTypes DEF Entry
    <3> QED
      BY <1>1, <1>2, <2>2, <2>3, <3>1, SettingTypes
      DEF EntryInv, Evidence, Tested, Dormant
  <2> QED BY <2>5, <2>6
<1>3. CASE e.state = "HALF_OPEN"
  <2>1. e \in Entry
    BY DEF EntryInv
  <2>2. /\ FailedOnce(e) \in Entry
        /\ FailedOnce(e).state = "OPEN"
        /\ FailedOnce(e).successes = 0
    BY <1>3, <2>1, NoAge DEF FailedOnce, Reopened, Entry, States
  <2> QED
    BY <1>1, <1>3, <2>2, SettingTypes DEF EntryInv, Evidence, Tested, Dormant
<1>4. CASE e.state = "OPEN"
  <2>1. FailedOnce(e) = e
    BY <1>4 DEF FailedOnce
  <2> QED
    BY <1>1, <1>4, <2>1, SettingTypes DEF EntryInv, Evidence, Tested, Dormant
<1>5. e.state \in States
  BY DEF EntryInv, Entry
<1> QED BY <1>2, <1>3, <1>4, <1>5 DEF States
LEMMA OlderInv ==
  ASSUME NEW e, NEW r, NEW k, EntryInv(e, r, k)
  PROVE  EntryInv(OlderEntry(e), OlderFailures(r), k)
<1> DEFINE t == OlderFailures(r)
<1>1. e \in Entry /\ r \in Seq(Failed) /\ Len(r) \in Nat
  BY DEF EntryInv
<1>2. \A a \in 0..MaxAge : Older(a) \in 0..MaxAge /\ (\A b \in 0..MaxAge :
        a <= b => Older(a) <= Older(b))
  BY NoAge DEF Older
<1>3. /\ OlderEntry(e) \in Entry
      /\ OlderEntry(e).state = e.state
      /\ OlderEntry(e).failures = e.failures
      /\ OlderEntry(e).successes = e.successes
      /\ OlderEntry(e).windowAge = Older(e.windowAge)
  BY <1>1, <1>2 DEF OlderEntry, Entry
<1>4. \A i \in 1..Len(r) :
        /\ r[i] \in Failed
        /\ t[i] = [r[i] EXCEPT !.age = Older(@)]
  BY <1>1 DEF OlderFailures
<1>5. \A i \in 1..Len(r) : t[i] \in Failed /\ t[i].age = Older(r[i].age)
  <2>1. ASSUME NEW f \in Failed
        PROVE  LET g == [f EXCEPT !.age = Older(@)] IN
               g \in Failed /\ g.age = Older(f.age)
    <3>1. f.age \in 0..MaxAge
      BY DEF Failed
    <3>2. Older(f.age) \in 0..MaxAge
      BY <1>2, <3>1
    <3> QED BY <3>2 DEF Failed
  <2> QED BY <1>4, <2>1
<1>6. t \in Seq(Failed) /\ Len(t) = Len(r)
  BY <1>1, <1>4, <1>5 DEF OlderFailures
<1>7. ASSUME e.state = "CLOSED", NEW i \in 0..e.failures - 1
      PROVE  FromLast(t, i).age <= Older(e.windowAge)
  <2>1. e.failures <= Len(r) /\ FromLast(r, i).age <= e.windowAge
    BY <1>7 DEF EntryInv, Evidence
  <2>2. Len(r) - i \in 1..Len(r) /\ e.windowAge \in 0..MaxAge
    BY <1>1, <1>7, <2>1 DEF Entry
  <2>3. /\ r[Len(r) - i].age \in 0..MaxAge
        /\ t[Len(r) - i].age = Older(r[Len(r) - i].age)
    BY <1>4, <1>5, <2>2 DEF Failed
  <2> QED BY <1>2, <1>6, <2>1, <2>2, <2>3 DEF FromLast
<1> HIDE DEF t
<1> QED
  BY <1>1, <1>3, <1>6, <1>7 DEF EntryInv, Evidence, Tested, Dormant, t

----------------------------------------------------------------------------
(* The invariant, in two parts: the entries with their histories, and the    *)
(* rest, which is only typed.                                                *)
EntriesInv ==
  /\ cb \in [Nodes -> Entry \cup {NoEntry}]
  /\ recent \in [Nodes -> Seq(Failed)]
  /\ streak \in [Nodes -> 0..MaxHistory]
  /\ \A n \in Nodes : NodeInv(n)

RequestsInv ==
  /\ registered \subseteq Nodes
  /\ current \in [Nodes -> Nat]
  /\ timedOut \in [Nodes -> Nat]
  /\ stale \in [Nodes -> Nat]

LEMMA NoEntryIsNone == NoEntry.state = "NONE" /\ NoEntry \notin Entry
BY DEF NoEntry, Entry, States

LEMMA InvParts == IInv <=> config \in Configs /\ EntriesInv /\ RequestsInv
<1>1. ASSUME EntriesInv, NEW n \in Nodes, cb[n].state \in {"CLOSED", "OPEN"}
      PROVE  cb[n].successes = 0
  BY <1>1, NoEntryIsNone DEF EntriesInv, NodeInv, EntryInv, Dormant
<1> QED BY <1>1 DEF IInv, TypeOK, EntriesInv, RequestsInv

Parts == config \in Configs /\ EntriesInv /\ RequestsInv

LEMMA InvPartsNext == IInv' <=> Parts'
<1>1. IInv <=> Parts
  BY InvParts DEF Parts
<1> QED BY <1>1, PTL

(* A step that changes one node's entry and history.                         *)
LEMMA OneNode ==
  ASSUME EntriesInv, NEW n \in Nodes, NEW e, NEW r, NEW k, EntryInv(e, r, k),
         cb' = [cb EXCEPT ![n] = e],
         recent' = [recent EXCEPT ![n] = r],
         streak' = [streak EXCEPT ![n] = k]
  PROVE  EntriesInv'
<1>1. e \in Entry /\ r \in Seq(Failed) /\ k \in 0..MaxHistory
  BY DEF EntryInv
<1>2. /\ cb' \in [Nodes -> Entry \cup {NoEntry}]
      /\ recent' \in [Nodes -> Seq(Failed)]
      /\ streak' \in [Nodes -> 0..MaxHistory]
  BY <1>1 DEF EntriesInv
<1>3. ASSUME NEW m \in Nodes PROVE NodeInv(m)'
  <2>1. CASE m = n
    BY <2>1 DEF EntriesInv, NodeInv
  <2>2. CASE m # n
    BY <2>2 DEF EntriesInv, NodeInv
  <2> QED BY <2>1, <2>2
<1> QED BY <1>2, <1>3 DEF EntriesInv

(* A step that drops entries, with whatever became of the history.           *)
LEMMA Dropped ==
  ASSUME EntriesInv,
         cb' \in [Nodes -> Entry \cup {NoEntry}],
         recent' \in [Nodes -> Seq(Failed)],
         streak' = streak,
         \A n \in Nodes : cb'[n] = NoEntry \/ (cb'[n] = cb[n] /\ recent'[n] = recent[n])
  PROVE  EntriesInv'
BY DEF EntriesInv, NodeInv
----------------------------------------------------------------------------
(* Actions that many steps share.                                            *)
LEMMA EndsInv ==
  ASSUME RequestsInv, NEW n \in Nodes, UNCHANGED registered
  PROVE  /\ EndOwn(n) => RequestsInv'
         /\ EndStale(n) => RequestsInv'
         /\ Ends(current, n) /\ UNCHANGED <<timedOut, stale>> => RequestsInv'
         /\ /\ Ends(current, n)
            /\ timedOut' = [timedOut EXCEPT ![n] = @ + 1]
            /\ UNCHANGED stale
            => RequestsInv'
BY DEF RequestsInv, EndOwn, EndStale, Ends

LEMMA OrphanInv ==
  ASSUME RequestsInv, NEW ns \in SUBSET Nodes, Orphan(ns), registered' \subseteq Nodes
  PROVE  RequestsInv'
BY DEF RequestsInv, Orphan

LEMMA CountFailureInv ==
  ASSUME IInv, NEW n \in Nodes, NEW own \in BOOLEAN, CountFailure(n, own)
  PROVE  /\ EntriesInv'
         /\ cb' = [cb EXCEPT ![n] = FailedOnce(Get(n))]
         /\ Get(n).state = "CLOSED" /\ FailedOnce(Get(n)).state = "OPEN" =>
              \A i \in 0..config.error_threshold - 1 :
                /\ i < Len(recent'[n])
                /\ FromLast(recent'[n], i).age <= config.window_ms
         /\ Get(n).state = "HALF_OPEN" => FailedOnce(Get(n)).state = "OPEN"
<1> DEFINE t == Remember(recent[n], [age |-> 0, own |-> own])
<1>1. config \in Configs /\ EntriesInv /\ EntryInv(Get(n), recent[n], streak[n])
  BY InvParts, GetInv
<1>2. /\ EntryInv(FailedOnce(Get(n)), t, 0)
      /\ Get(n).state = "CLOSED" /\ FailedOnce(Get(n)).state = "OPEN" =>
           \A i \in 0..config.error_threshold - 1 :
             i < Len(t) /\ FromLast(t, i).age <= config.window_ms
      /\ Get(n).state = "HALF_OPEN" => FailedOnce(Get(n)).state = "OPEN"
  BY <1>1, FailedInv
<1>3. /\ cb' = [cb EXCEPT ![n] = FailedOnce(Get(n))]
      /\ recent' = [recent EXCEPT ![n] = t]
      /\ streak' = [streak EXCEPT ![n] = 0]
  BY DEF CountFailure
<1> HIDE DEF t
<1>4. EntriesInv'
  BY <1>1, <1>2, <1>3, OneNode
<1>5. recent'[n] = t
  BY <1>1, <1>3 DEF EntriesInv
<1> QED BY <1>2, <1>3, <1>4, <1>5

LEMMA SuccessInv ==
  ASSUME IInv, NEW n \in Nodes, Success(n)
  PROVE  /\ EntriesInv'
         /\ cb' = [cb EXCEPT ![n] = Succeeded(Get(n))]
         /\ Get(n).state = "HALF_OPEN" /\ Succeeded(Get(n)).state = "CLOSED" =>
              streak'[n] >= config.half_open_max_attempts
<1> DEFINE forgiven == Get(n).state = "CLOSED" \/ Recovered(Get(n))
           k == IF streak[n] < MaxHistory THEN streak[n] + 1 ELSE streak[n]
           t == IF forgiven THEN << >> ELSE recent[n]
<1>1. config \in Configs /\ EntriesInv /\ EntryInv(Get(n), recent[n], streak[n])
  BY InvParts, GetInv
<1>2. /\ EntryInv(Succeeded(Get(n)), recent[n], k)
      /\ forgiven => EntryInv(Succeeded(Get(n)), << >>, k)
      /\ Get(n).state = "HALF_OPEN" /\ Succeeded(Get(n)).state = "CLOSED" =>
           k >= config.half_open_max_attempts
  BY <1>1, SucceededInv
<1>3. EntryInv(Succeeded(Get(n)), t, k)
  BY <1>2
<1>4. /\ cb' = [cb EXCEPT ![n] = Succeeded(Get(n))]
      /\ recent' = [recent EXCEPT ![n] = t]
      /\ streak' = [streak EXCEPT ![n] = k]
  BY <1>1 DEF Success, EntriesInv
<1> HIDE DEF t, k
<1>5. EntriesInv'
  BY <1>1, <1>3, <1>4, OneNode
<1>6. streak'[n] = k
  BY <1>1, <1>4 DEF EntriesInv
<1> QED BY <1>2, <1>4, <1>5, <1>6

(* isAllowed at any set of nodes.                                            *)
LEMMA RetestedAtInv ==
  ASSUME IInv, NEW ns \in SUBSET Nodes,
         cb' = [n \in Nodes |-> IF n \in ns THEN Retested(Get(n)) ELSE cb[n]],
         UNCHANGED history
  PROVE  EntriesInv'
<1>1. ASSUME NEW n \in ns
      PROVE  EntryInv(Retested(Get(n)), recent[n], streak[n])
  BY InvParts, GetInv, RetestedInv
<1>2. \A n \in ns : Retested(Get(n)) \in Entry
  BY <1>1 DEF EntryInv
<1> QED BY <1>1, <1>2, InvParts DEF EntriesInv, NodeInv, history

----------------------------------------------------------------------------
LEMMA InitInv == Init => IInv
<1> SUFFICES ASSUME Init PROVE Parts
  BY InvParts DEF Parts
<1> QED BY BoundAssumption DEF Init, Parts, EntriesInv, RequestsInv, NodeInv

LEMMA NextInv == IInv /\ [Next]_vars => IInv'
<1> SUFFICES ASSUME IInv, [Next]_vars PROVE Parts'
  BY InvPartsNext
<1>0. config \in Configs /\ EntriesInv /\ RequestsInv
  BY InvParts
<1>1. CASE Tick
  <2>1. ASSUME NEW n \in Nodes, cb[n] # NoEntry
        PROVE  EntryInv(OlderEntry(cb[n]), OlderFailures(recent[n]), streak[n])
    BY <1>0, <2>1, OlderInv DEF EntriesInv, NodeInv
  <2>2. ASSUME NEW n \in Nodes PROVE OlderFailures(recent[n]) \in Seq(Failed)
    BY <1>0, NewEntryInv, OlderInv DEF EntriesInv, EntryInv
  <2>3. \A n \in Nodes : cb[n] # NoEntry => OlderEntry(cb[n]) \in Entry
    BY <2>1 DEF EntryInv
  <2>4. EntriesInv'
    BY <1>0, <1>1, <2>1, <2>2, <2>3 DEF Tick, EntriesInv, NodeInv
  <2> QED BY <1>0, <1>1, <2>4 DEF Parts, Tick, requests, RequestsInv
<1>2. CASE Select
  <2>1. EntriesInv'
    BY <1>0, <1>2, RetestedAtInv DEF Select, RequestsInv
  <2> QED BY <1>0, <1>2, <2>1 DEF Parts, Select, Dispatch, RequestsInv
<1>3. CASE HealthCheck
  <2>1. PICK silent \in SUBSET registered :
          /\ registered' = registered \ silent
          /\ Orphan(silent)
    BY <1>3 DEF HealthCheck
  <2>2. RequestsInv'
    BY <1>0, <2>1, OrphanInv DEF RequestsInv
  <2>3. EntriesInv'
    BY <1>0, <1>3 DEF HealthCheck, EntriesInv, NodeInv
  <2> QED BY <1>0, <1>3, <2>2, <2>3 DEF Parts, HealthCheck
<1>4. CASE UpdateConfig
  BY <1>0, <1>4
  DEF Parts, UpdateConfig, requests, history, RequestsInv, EntriesInv, NodeInv
<1>5. ASSUME NEW n \in Nodes, SelectForced(n) PROVE Parts'
  <2>1. cb' = [m \in Nodes |-> IF m \in {n} THEN Retested(Get(m)) ELSE cb[m]]
    BY <1>0, <1>5 DEF SelectForced, EntriesInv
  <2>2. EntriesInv'
    BY <1>0, <1>5, <2>1, RetestedAtInv DEF SelectForced
  <2> QED BY <1>0, <1>5, <2>2 DEF Parts, SelectForced, Dispatch, RequestsInv
<1>6. ASSUME NEW n \in Nodes, Success(n) PROVE Parts'
  BY <1>0, <1>6, SuccessInv, EndsInv DEF Parts, Success
<1>7. ASSUME NEW n \in Nodes, TimeOut(n) PROVE Parts'
  BY <1>0, <1>7, EndsInv
  DEF Parts, TimeOut, history, EntriesInv, NodeInv, Ends
<1>8. ASSUME NEW n \in Nodes, Fail(n) PROVE Parts'
  BY <1>0, <1>8, CountFailureInv, EndsInv DEF Parts, Fail, CountFailure
<1>9. ASSUME NEW n \in Nodes, Uncounted(n) PROVE Parts'
  <2>1. RequestsInv'
    BY <1>0, <1>9, EndsInv DEF Uncounted
  <2> QED BY <1>0, <1>9, <2>1 DEF Parts, Uncounted, history, EntriesInv, NodeInv
<1>10. ASSUME NEW n \in Nodes, Forget(n) PROVE EntriesInv'
  BY <1>0, <1>10 DEF Forget, EntriesInv, NodeInv
<1>11. ASSUME NEW n \in Nodes, Register(n) PROVE Parts'
  <2>1. registered' \subseteq Nodes
    BY <1>0, <1>11 DEF Register, RequestsInv
  <2>2. RequestsInv'
    BY <1>0, <1>11, <2>1, OrphanInv DEF Register
  <2> QED BY <1>0, <1>10, <1>11, <2>2 DEF Parts, Register
<1>12. ASSUME NEW n \in Nodes, Disconnect(n) PROVE Parts'
  BY <1>0, <1>12
  DEF Parts, Disconnect, requests, history, RequestsInv, EntriesInv, NodeInv
<1>13. ASSUME NEW n \in Nodes, Reset(n) PROVE Parts'
  BY <1>0, <1>10, <1>13 DEF Parts, Reset, requests, RequestsInv
<1>14. CASE UNCHANGED vars
  BY <1>0, <1>14
  DEF Parts, vars, requests, history, RequestsInv, EntriesInv, NodeInv
<1> QED
  BY <1>1, <1>2, <1>3, <1>4, <1>5, <1>6, <1>7, <1>8, <1>9, <1>11, <1>12, <1>13,
     <1>14
  DEF Next

----------------------------------------------------------------------------
(* The inductive invariant holds in every reachable state.                   *)
THEOREM InvariantHolds == Spec => []IInv
BY InitInv, NextInv, PTL DEF Spec

(* Entries, requests and histories keep their types, and successes are       *)
(* counted only while a breaker is half open.                                *)
THEOREM TypeCorrect == Spec => []TypeOK
<1>1. IInv => TypeOK
  BY DEF IInv
<1> QED BY <1>1, InvariantHolds, PTL
(* What a step can do to the breaker of a node.                              *)
LEMMA Changes ==
  ASSUME IInv, [Next]_vars, NEW n \in Nodes
  PROVE  \/ cb'[n] = NoEntry
         \/ cb'[n].state = cb[n].state
         \/ cb'[n] = Retested(Get(n))
         \/ Success(n)
         \/ \E own \in BOOLEAN : CountFailure(n, own)
<1>0. cb \in [Nodes -> Entry \cup {NoEntry}]
  BY InvParts DEF EntriesInv
<1>1. CASE Tick
  <2>1. ASSUME cb[n] \in Entry PROVE OlderEntry(cb[n]).state = cb[n].state
    BY <2>1 DEF OlderEntry, Entry
  <2> QED BY <1>0, <1>1, <2>1 DEF Tick
<1>2. CASE Select
  BY <1>2 DEF Select
<1>3. CASE HealthCheck
  BY <1>3 DEF HealthCheck
<1>4. CASE UpdateConfig
  BY <1>4 DEF UpdateConfig
<1>5. ASSUME NEW m \in Nodes, SelectForced(m)
      PROVE  cb'[n] = cb[n] \/ cb'[n] = Retested(Get(n))
  BY <1>0, <1>5 DEF SelectForced
<1>6. ASSUME NEW m \in Nodes, Success(m), m # n PROVE cb'[n] = cb[n]
  BY <1>0, <1>6 DEF Success
<1>7. ASSUME NEW m \in Nodes, Fail(m)
      PROVE  \E own \in BOOLEAN : CountFailure(m, own)
  BY <1>7 DEF Fail
<1>8. ASSUME NEW m \in Nodes, Fail(m), m # n PROVE cb'[n] = cb[n]
  BY <1>0, <1>7, <1>8 DEF CountFailure
<1>9. ASSUME NEW m \in Nodes, Uncounted(m) \/ TimeOut(m) \/ Disconnect(m)
      PROVE  cb'[n] = cb[n]
  BY <1>9 DEF Uncounted, TimeOut, Disconnect
<1>10. ASSUME NEW m \in Nodes, Register(m) \/ Reset(m)
       PROVE  cb'[n] = cb[n] \/ cb'[n] = NoEntry
  BY <1>0, <1>10 DEF Register, Reset, Forget
<1>11. CASE UNCHANGED vars
  BY <1>11 DEF vars
<1> QED
  BY <1>1, <1>2, <1>3, <1>4, <1>5, <1>6, <1>7, <1>8, <1>9, <1>10, <1>11 DEF Next

LEMMA StateOfGet ==
  ASSUME IInv, NEW n \in Nodes
  PROVE  /\ \/ cb[n].state = Get(n).state
            \/ cb[n].state = "NONE" /\ Get(n).state = "CLOSED"
         /\ Get(n) \in Entry
BY GetInv, NoEntryIsNone DEF Get, NewEntry, EntryInv

(* A node is isolated only on evidence: its breaker opens from CLOSED only   *)
(* with the last of error_threshold failures within window_ms.               *)
THEOREM EvidenceRequired == Spec => IsolationNeedsEvidence
<1>1. IInv /\ [Next]_vars => [OpensOnEvidence]_vars
  <2> SUFFICES ASSUME IInv, [Next]_vars, NEW n \in Nodes,
                      IsClosed(n), cb'[n].state = "OPEN"
               PROVE  \A i \in 0..config.error_threshold - 1 :
                        /\ i < Len(recent'[n])
                        /\ FromLast(recent'[n], i).age <= config.window_ms
    BY DEF OpensOnEvidence
  <2>1. /\ Get(n).state = "CLOSED"
        /\ Get(n) \in Entry
        /\ cb \in [Nodes -> Entry \cup {NoEntry}]
    <3>1. EntriesInv
      BY InvParts
    <3>2. cb[n].state = "NONE" \/ cb[n].state = "CLOSED"
      BY DEF IsClosed
    <3>3. Get(n) \in Entry /\ Get(n).state # "NONE"
      BY StateOfGet DEF Entry, States
    <3> QED BY <3>1, <3>2, <3>3, StateOfGet DEF EntriesInv
  <2>2. cb'[n] # NoEntry /\ cb'[n].state # cb[n].state
    BY NoEntryIsNone DEF IsClosed
  <2>3. CASE cb'[n] = Retested(Get(n))
    BY <2>1, <2>3 DEF Retested, Recovering
  <2>4. CASE Success(n)
    <3>1. cb'[n] = Succeeded(Get(n))
      BY <2>1, <2>4, SuccessInv
    <3>2. Succeeded(Get(n)).state = "CLOSED"
      BY <2>1 DEF Succeeded, Recovered, Entry
    <3> QED BY <3>1, <3>2
  <2>5. ASSUME NEW own \in BOOLEAN, CountFailure(n, own)
        PROVE  \A i \in 0..config.error_threshold - 1 :
                 /\ i < Len(recent'[n])
                 /\ FromLast(recent'[n], i).age <= config.window_ms
    <3>1. cb'[n] = FailedOnce(Get(n))
      BY <2>1, <2>5, CountFailureInv
    <3> QED BY <2>1, <2>5, <3>1, CountFailureInv
  <2> QED BY <2>2, <2>3, <2>4, <2>5, Changes
<1> QED BY <1>1, InvariantHolds, PTL DEF Spec, IsolationNeedsEvidence

(* An isolated node returns only on consecutive successes: a half-open       *)
(* breaker closes only after half_open_max_attempts successes in a row.      *)
THEOREM SuccessesRequired == Spec => ReturnNeedsSuccesses
<1>1. IInv /\ [Next]_vars => [ReturnsOnSuccesses]_vars
  <2> SUFFICES ASSUME IInv, [Next]_vars, NEW n \in Nodes,
                      cb[n].state = "HALF_OPEN", cb'[n].state = "CLOSED"
               PROVE  streak'[n] >= config.half_open_max_attempts
    BY DEF ReturnsOnSuccesses
  <2>1. /\ Get(n).state = "HALF_OPEN"
        /\ Get(n) \in Entry
        /\ cb \in [Nodes -> Entry \cup {NoEntry}]
    <3>1. EntriesInv
      BY InvParts
    <3> QED BY <3>1, StateOfGet DEF EntriesInv
  <2>2. cb'[n] # NoEntry /\ cb'[n].state # cb[n].state
    BY NoEntryIsNone
  <2>3. CASE cb'[n] = Retested(Get(n))
    BY <2>1, <2>3 DEF Retested, Recovering
  <2>4. CASE Success(n)
    <3>1. cb'[n] = Succeeded(Get(n))
      BY <2>1, <2>4, SuccessInv
    <3> QED BY <2>1, <2>4, <3>1, SuccessInv
  <2>5. ASSUME NEW own \in BOOLEAN, CountFailure(n, own) PROVE FALSE
    <3>1. cb'[n] = FailedOnce(Get(n))
      BY <2>1, <2>5, CountFailureInv
    <3> QED BY <2>1, <2>5, <3>1, CountFailureInv
  <2> QED BY <2>2, <2>3, <2>4, <2>5, Changes
<1> QED BY <1>1, InvariantHolds, PTL DEF Spec, ReturnNeedsSuccesses

----------------------------------------------------------------------------
(* The node's side.                                                          *)
(* A socket that is not open yet has not been answered: what makes 'open'    *)
(* safe for ChainAlive, since no heartbeat watches the socket then.          *)
AnsweredLater ==
  \A s \in Sock : socket[s].state \in {"none", "connecting"} => ~socket[s].answered

ChainInv == ReconnectTypeOK /\ AnsweredLater /\ ChainAlive /\ WorkHasSocket

----------------------------------------------------------------------------
(* What the handlers' parts leave behind.                                    *)
LEMMA NoneMissed == 0 \in 0..MAX_MISSED_PONGS - 1
BY ReconnectAssumption

LEMMA ScheduleResult ==
  ASSUME NEW n \in NodeRecord
  PROVE  /\ ScheduleReconnect(n) \in NodeRecord
         /\ ScheduleReconnect(n).timer = TRUE
         /\ ScheduleReconnect(n).work = n.work /\ ScheduleReconnect(n).ws = n.ws
BY DEF ScheduleReconnect, NodeRecord

LEMMA CleanupResult ==
  ASSUME NEW n \in NodeRecord
  PROVE  /\ CleanupAll(n) \in NodeRecord
         /\ CleanupAll(n).work = {} /\ CleanupAll(n).ws = n.ws
BY DEF CleanupAll, NodeRecord

LEMMA OnCloseResult ==
  ASSUME node \in NodeRecord, NEW s \in Sock
  PROVE  /\ OnClose(node, s) \in NodeRecord
         /\ OnClose(node, s).timer = TRUE /\ OnClose(node, s).work = {}
<1> DEFINE n == [node EXCEPT !.since = "none", !.ws = IF @ = s THEN None ELSE @]
<1>1. n \in NodeRecord
  BY DEF NodeRecord
<1>2. CleanupAll(n) \in NodeRecord /\ CleanupAll(n).work = {}
  BY <1>1, CleanupResult
<1>3. OnClose(node, s) = ScheduleReconnect(CleanupAll(n))
  BY DEF OnClose
<1> HIDE DEF n
<1> QED BY <1>2, <1>3, ScheduleResult

LEMMA ForcedResult ==
  ASSUME node \in NodeRecord
  PROVE  /\ Forced(node) \in NodeRecord
         /\ Forced(node).timer = TRUE /\ Forced(node).work = {} /\ Forced(node).ws = None
<1> DEFINE n == [node EXCEPT !.missedPongs = 0, !.since = "none", !.ws = None]
<1>1. n \in NodeRecord /\ n.ws = None
  BY NoneMissed DEF NodeRecord
<1>2. CleanupAll(n) \in NodeRecord /\ CleanupAll(n).work = {} /\ CleanupAll(n).ws = None
  <2> HIDE DEF n
  <2> QED BY <1>1, CleanupResult
<1>3. Forced(node) = ScheduleReconnect(CleanupAll(n))
  BY DEF Forced
<1> HIDE DEF n
<1> QED BY <1>2, <1>3, ScheduleResult

(* What close() does to the sockets, whichever it closes: none is opened, no *)
(* answer is forgotten, and work keeps its socket.                           *)
LEMMA SocketsClose ==
  ASSUME ChainInv, NEW s \in Sock \cup {None}
  PROVE  /\ Closing(s) \in [Sock -> SocketRecord]
         /\ \A t \in Sock : /\ Closing(s)[t].answered = socket[t].answered
                            /\ \/ Closing(s)[t].state = socket[t].state
                               \/ Closing(s)[t].state = "closing"
         /\ s # None => Closing(s)[s].state \in {"none", "closing"}
<1>1. socket \in [Sock -> SocketRecord]
  BY DEF ChainInv, ReconnectTypeOK
<1> QED BY <1>1, ReconnectAssumption DEF Closing, Is, SocketRecord

LEMMA TerminatedResult ==
  ASSUME socket \in [Sock -> SocketRecord], NEW s \in Sock \cup {None}
  PROVE  /\ Terminated(s) \in [Sock -> SocketRecord]
         /\ \A t \in Sock \ {s} : Terminated(s)[t] = socket[t]
         /\ s # None => /\ Terminated(s)[s].state \in {"none", "closing"}
                        /\ Terminated(s)[s].answered = socket[s].answered
                        /\ Terminated(s)[s].state = "none" <=> socket[s].state = "none"
BY ReconnectAssumption DEF Terminated, SocketRecord

(* After a close of any socket: nothing is at work, a reconnect is pending.  *)
LEMMA AfterClose ==
  ASSUME ChainInv, NEW s \in Sock, socket' = [socket EXCEPT ![s] = NoSocket],
         node' = OnClose(node, s)
  PROVE  ChainInv'
<1>1. node' \in NodeRecord /\ node'.timer = TRUE /\ node'.work = {}
  BY OnCloseResult DEF ChainInv, ReconnectTypeOK
<1>2. ReconnectTypeOK'
  BY <1>1 DEF ChainInv, ReconnectTypeOK, NoSocket, SocketRecord
<1>3. AnsweredLater'
  BY DEF ChainInv, ReconnectTypeOK, AnsweredLater, NoSocket, SocketRecord
<1>4. ChainAlive' /\ WorkHasSocket'
  BY <1>1 DEF ChainAlive, WorkHasSocket
<1> QED BY <1>2, <1>3, <1>4 DEF ChainInv

(* After a forced reconnect too.                                             *)
LEMMA AfterForce ==
  ASSUME ChainInv, ForceReconnect
  PROVE  ChainInv'
<1>1. node' \in NodeRecord /\ node'.timer = TRUE /\ node'.work = {} /\ node'.ws = None
  BY ForcedResult DEF ChainInv, ReconnectTypeOK, ForceReconnect
<1>2. node.ws \in Sock \cup {None}
  BY DEF ChainInv, ReconnectTypeOK, NodeRecord
<1>3. ReconnectTypeOK'
  BY <1>1, <1>2, TerminatedResult DEF ChainInv, ReconnectTypeOK, ForceReconnect
<1>4. AnsweredLater'
  <2> SUFFICES ASSUME NEW t \in Sock, socket'[t].state \in {"none", "connecting"}
               PROVE  ~socket'[t].answered
    BY DEF AnsweredLater
  <2>1. socket' = Terminated(node.ws) /\ socket \in [Sock -> SocketRecord]
    BY DEF ChainInv, ReconnectTypeOK, ForceReconnect
  <2>2. CASE t = node.ws
    BY <1>2, <2>1, <2>2, ReconnectAssumption, TerminatedResult DEF ChainInv, AnsweredLater
  <2>3. CASE t # node.ws
    BY <1>2, <2>1, <2>3, TerminatedResult DEF ChainInv, AnsweredLater
  <2> QED BY <2>2, <2>3
<1>5. ChainAlive' /\ WorkHasSocket'
  BY <1>1 DEF ChainAlive, WorkHasSocket
<1> QED BY <1>3, <1>4, <1>5 DEF ChainInv

----------------------------------------------------------------------------
LEMMA InitInvariant ==
  ASSUME ReconnectInit
  PROVE  ChainInv
<1>1. ReconnectTypeOK
  BY NoneMissed DEF ReconnectInit, ReconnectTypeOK, NodeRecord, SocketRecord, NoSocket
<1>2. AnsweredLater
  BY DEF ReconnectInit, AnsweredLater, NoSocket
<1>3. ChainAlive /\ WorkHasSocket
  BY DEF ReconnectInit, ChainAlive, Accepted, Is, WorkHasSocket
<1> QED BY <1>1, <1>2, <1>3 DEF ChainInv

(* The timer opens a new socket and closes the current one, or fails to.     *)
LEMMA ConnectStep ==
  ASSUME ChainInv, NEW s \in Sock, Connect(s)
  PROVE  ChainInv'
<1> DEFINE c == Closing(node.ws)
<1>1. /\ node.ws \in Sock \cup {None} /\ node \in NodeRecord
      /\ socket \in [Sock -> SocketRecord] /\ socket[s].state = "none"
  BY DEF ChainInv, ReconnectTypeOK, NodeRecord, Connect
<1>2. /\ c \in [Sock -> SocketRecord]
      /\ \A t \in Sock : /\ c[t].answered = socket[t].answered
                         /\ c[t].state = socket[t].state \/ c[t].state = "closing"
  BY <1>1, SocketsClose
<1>3. /\ socket' = [c EXCEPT ![s] = [state |-> "connecting", alive |-> TRUE, answered |-> FALSE]]
      /\ node' = [node EXCEPT !.timer = FALSE, !.ws = s, !.since = "recent"]
  BY DEF Connect
<1> HIDE DEF c
<1>4. ReconnectTypeOK'
  <2>1. socket' \in [Sock -> SocketRecord]
    BY <1>2, <1>3 DEF SocketRecord
  <2>2. node' \in NodeRecord
    BY <1>1, <1>3 DEF NodeRecord
  <2> QED BY <2>1, <2>2 DEF ReconnectTypeOK
<1>5. node'.ws = s /\ node'.work = node.work
  BY <1>1, <1>3 DEF NodeRecord
<1>6. /\ socket'[s].state = "connecting" /\ socket'[s].answered = FALSE
      /\ \A t \in Sock \ {s} : socket'[t] = c[t]
  BY <1>2, <1>3
<1>7. AnsweredLater'
  BY <1>2, <1>6 DEF ChainInv, AnsweredLater
<1>8. ChainAlive'
  BY <1>5, <1>6, ReconnectAssumption DEF ChainAlive, Accepted, Is
<1>9. WorkHasSocket'
  <2> SUFFICES ASSUME NEW t \in node.work PROVE socket'[t].state \in {"open", "closing"} /\ t # None
    BY <1>5 DEF WorkHasSocket, Is
  <2>1. t \in Sock /\ t # None /\ socket[t].state \in {"open", "closing"}
    BY <1>1 DEF ChainInv, WorkHasSocket, Is, NodeRecord
  <2>2. t # s
    BY <1>1, <2>1
  <2> QED BY <1>2, <1>6, <2>1, <2>2
<1> QED BY <1>4, <1>7, <1>8, <1>9 DEF ChainInv

LEMMA ConnectThrowsStep ==
  ASSUME ChainInv, ConnectThrows
  PROVE  ChainInv'
<1> DEFINE c == Closing(node.ws)
<1>1. /\ node.ws \in Sock \cup {None} /\ node \in NodeRecord
      /\ socket' = c
      /\ node' = [node EXCEPT !.timer = TRUE, !.since = "none"]
  BY DEF ChainInv, ReconnectTypeOK, NodeRecord, ConnectThrows, ScheduleReconnect
<1>2. /\ c \in [Sock -> SocketRecord]
      /\ \A t \in Sock : /\ c[t].answered = socket[t].answered
                         /\ c[t].state = socket[t].state \/ c[t].state = "closing"
  BY <1>1, SocketsClose
<1> HIDE DEF c
<1>3. node' \in NodeRecord /\ node'.timer = TRUE /\ node'.work = node.work
  BY <1>1 DEF NodeRecord
<1>4. ReconnectTypeOK' /\ AnsweredLater' /\ ChainAlive'
  BY <1>1, <1>2, <1>3 DEF ChainInv, ReconnectTypeOK, AnsweredLater, ChainAlive
<1>5. WorkHasSocket'
  BY <1>1, <1>2, <1>3 DEF ChainInv, WorkHasSocket, Is, NodeRecord
<1> QED BY <1>4, <1>5 DEF ChainInv

(* A step that leaves the sockets alone, and of the node's record neither    *)
(* the current socket, nor the timer, nor the heartbeat.                     *)
LEMMA QuietStep ==
  ASSUME ChainInv, UNCHANGED socket, node' \in NodeRecord,
         node'.ws = node.ws, node'.timer = node.timer,
         node.heartbeat => node'.heartbeat,
         \A s \in node'.work \ node.work : Is(s, {"open", "closing"})
  PROVE  ChainInv'
<1>1. ReconnectTypeOK' /\ AnsweredLater'
  BY DEF ChainInv, ReconnectTypeOK, AnsweredLater
<1>2. ChainAlive'
  BY DEF ChainInv, ChainAlive, Accepted, Is
<1>3. WorkHasSocket'
  BY DEF ChainInv, WorkHasSocket, Is
<1> QED BY <1>1, <1>2, <1>3 DEF ChainInv

(* 'open': the socket has not been answered, so ChainAlive asks for nothing. *)
LEMMA OpenStep ==
  ASSUME ChainInv, NEW s \in Sock, Open(s)
  PROVE  ChainInv'
<1>1. node \in NodeRecord /\ socket \in [Sock -> SocketRecord]
  BY DEF ChainInv, ReconnectTypeOK
<1>2. ~socket[s].answered
  BY DEF ChainInv, AnsweredLater, Open
<1>3. /\ node' \in NodeRecord /\ node'.ws = node.ws /\ node'.timer = node.timer
      /\ node'.heartbeat = node.heartbeat /\ node'.work = node.work
  BY <1>1, NoneMissed DEF Open, NodeRecord
<1>4. /\ socket' \in [Sock -> SocketRecord]
      /\ socket'[s].state = "open" /\ socket'[s].answered = socket[s].answered
      /\ \A t \in Sock \ {s} : socket'[t] = socket[t]
  BY <1>1 DEF Open, SocketRecord
<1>5. ReconnectTypeOK' /\ AnsweredLater'
  BY <1>3, <1>4 DEF ChainInv, ReconnectTypeOK, AnsweredLater
<1>6. ChainAlive'
  <2>1. node.ws = None => node.timer
    BY DEF ChainInv, ChainAlive
  <2>2. ASSUME Accepted' PROVE node'.heartbeat \/ node'.timer
    <3>1. node.ws \in Sock /\ node.ws # s
      BY <1>1, <1>2, <1>3, <1>4, <2>2 DEF Accepted, Is, NodeRecord
    <3> QED BY <1>3, <1>4, <2>2, <3>1 DEF ChainInv, ChainAlive, Accepted, Is
  <2> QED BY <1>3, <2>1, <2>2 DEF ChainAlive
<1>7. WorkHasSocket'
  <2> SUFFICES ASSUME NEW t \in node.work PROVE t # None /\ socket'[t].state \in {"open", "closing"}
    BY <1>3 DEF WorkHasSocket, Is
  <2>1. t \in Sock /\ t # None /\ socket[t].state \in {"open", "closing"}
    BY <1>1 DEF ChainInv, WorkHasSocket, Is, NodeRecord
  <2> QED BY <1>4, <2>1
<1> QED BY <1>5, <1>6, <1>7 DEF ChainInv

(* 'error' of an open socket, which then closes.                             *)
LEMMA ErrorStep ==
  ASSUME ChainInv, NEW s \in Sock, Error(s)
  PROVE  ChainInv'
<1>1. node \in NodeRecord /\ socket \in [Sock -> SocketRecord]
  BY DEF ChainInv, ReconnectTypeOK
<1>2. /\ node' \in NodeRecord /\ node'.ws = node.ws /\ node'.work = node.work
      /\ node'.heartbeat = node.heartbeat
      /\ node'.timer = IF node.ws = s THEN TRUE ELSE node.timer
  <2>1. CASE node.ws = s
    BY <1>1, <2>1 DEF Error, ScheduleReconnect, NodeRecord
  <2>2. CASE node.ws # s
    BY <1>1, <2>2 DEF Error
  <2> QED BY <2>1, <2>2
<1>3. /\ socket' \in [Sock -> SocketRecord]
      /\ socket'[s].state = "closing"
      /\ \A t \in Sock \ {s} : socket'[t] = socket[t]
  BY <1>1 DEF Error, SocketRecord
<1>4. ReconnectTypeOK' /\ AnsweredLater'
  BY <1>2, <1>3 DEF ChainInv, ReconnectTypeOK, AnsweredLater
<1>5. ChainAlive'
  BY <1>1, <1>2, <1>3 DEF ChainInv, ChainAlive, Accepted, Is, NodeRecord
<1>6. WorkHasSocket'
  BY <1>1, <1>2, <1>3 DEF ChainInv, WorkHasSocket, Is, NodeRecord
<1> QED BY <1>4, <1>5, <1>6 DEF ChainInv

(* auth_ok starts the heartbeat unless the current socket is connecting.     *)
LEMMA AuthOkStep ==
  ASSUME ChainInv, NEW s \in Sock, AuthOk(s)
  PROVE  ChainInv'
<1>1. node \in NodeRecord /\ socket \in [Sock -> SocketRecord]
  BY DEF ChainInv, ReconnectTypeOK
<1> DEFINE watched == node.heartbeat \/ ~Is(node.ws, {"connecting"})
<1>2. /\ node' \in NodeRecord /\ node'.ws = node.ws /\ node'.work = node.work
      /\ node'.timer = node.timer /\ node'.heartbeat = watched
  <2>1. watched \in BOOLEAN
    BY <1>1 DEF NodeRecord, Is
  <2>2. node' = [node EXCEPT !.authenticated = TRUE, !.heartbeat = watched]
    BY DEF AuthOk
  <2> HIDE DEF watched
  <2> QED BY <1>1, <2>1, <2>2 DEF NodeRecord
<1>3. /\ socket' \in [Sock -> SocketRecord]
      /\ socket[s].state \in {"open", "closing"} /\ socket'[s].state = socket[s].state
      /\ \A t \in Sock \ {s} : socket'[t] = socket[t]
  BY <1>1 DEF AuthOk, Answered, Is, SocketRecord
<1>4. ReconnectTypeOK' /\ AnsweredLater'
  BY <1>2, <1>3 DEF ChainInv, ReconnectTypeOK, AnsweredLater
<1>5. ChainAlive'
  <2>1. node.ws = None => node.timer
    BY DEF ChainInv, ChainAlive
  <2>2. ASSUME Accepted' PROVE node'.heartbeat
    <3>1. node.ws # None /\ node.ws \in Sock /\ socket'[node.ws].state = "open"
      BY <1>1, <1>2, <2>2 DEF Accepted, Is, NodeRecord
    <3>2. socket[node.ws].state = "open"
      BY <1>3, <3>1
    <3>3. ~Is(node.ws, {"connecting"})
      BY <3>2 DEF Is
    <3> QED BY <1>2, <3>3
  <2> QED BY <1>2, <2>1, <2>2 DEF ChainAlive
<1>6. WorkHasSocket'
  <2> HIDE DEF watched
  <2> SUFFICES ASSUME NEW t \in node.work PROVE t # None /\ socket'[t].state \in {"open", "closing"}
    BY <1>2 DEF WorkHasSocket, Is
  <2>1. t \in Sock /\ t # None /\ socket[t].state \in {"open", "closing"}
    BY <1>1 DEF ChainInv, WorkHasSocket, Is, NodeRecord
  <2> QED BY <1>3, <2>1
<1> QED BY <1>4, <1>5, <1>6 DEF ChainInv

(* auth_error closes the current socket.                                     *)
LEMMA AuthErrorStep ==
  ASSUME ChainInv, NEW s \in Sock, AuthError(s)
  PROVE  ChainInv'
<1> DEFINE c == Closing(node.ws)
<1>1. /\ node.ws \in Sock \cup {None} /\ node \in NodeRecord
      /\ socket \in [Sock -> SocketRecord]
      /\ socket' = [c EXCEPT ![s].answered = TRUE]
      /\ socket[s].state \in {"open", "closing"}
      /\ node' = [node EXCEPT !.authenticated = FALSE]
  BY DEF ChainInv, ReconnectTypeOK, NodeRecord, AuthError, Answered, Is
<1>2. /\ c \in [Sock -> SocketRecord]
      /\ \A t \in Sock : /\ c[t].answered = socket[t].answered
                         /\ c[t].state = socket[t].state \/ c[t].state = "closing"
      /\ node.ws # None => c[node.ws].state \in {"none", "closing"}
  BY <1>1, SocketsClose
<1> HIDE DEF c
<1>3. /\ node' \in NodeRecord /\ node'.ws = node.ws /\ node'.timer = node.timer
      /\ node'.work = node.work
  BY <1>1 DEF NodeRecord
<1>4. /\ socket' \in [Sock -> SocketRecord] /\ socket'[s].state = c[s].state
      /\ \A t \in Sock \ {s} : socket'[t] = c[t]
  BY <1>1, <1>2 DEF SocketRecord
<1>5. ReconnectTypeOK'
  BY <1>3, <1>4 DEF ReconnectTypeOK
<1>6. AnsweredLater'
  BY <1>1, <1>2, <1>4 DEF ChainInv, AnsweredLater
<1>7. ChainAlive'
  BY <1>1, <1>2, <1>3, <1>4 DEF ChainInv, ChainAlive, Accepted, Is
<1>8. WorkHasSocket'
  <2> SUFFICES ASSUME NEW t \in node.work PROVE t # None /\ socket'[t].state \in {"open", "closing"}
    BY <1>3 DEF WorkHasSocket, Is
  <2>1. t \in Sock /\ t # None /\ socket[t].state \in {"open", "closing"}
    BY <1>1 DEF ChainInv, WorkHasSocket, Is, NodeRecord
  <2> QED BY <1>2, <1>4, <2>1
<1> QED BY <1>5, <1>6, <1>7, <1>8 DEF ChainInv

(* The connection dies: no state of a socket and nothing of the node moves.  *)
LEMMA DiesStep ==
  ASSUME ChainInv, NEW s \in Sock, Dies(s)
  PROVE  ChainInv'
<1>1. node \in NodeRecord /\ socket \in [Sock -> SocketRecord]
  BY DEF ChainInv, ReconnectTypeOK
<1>2. /\ socket' \in [Sock -> SocketRecord] /\ node' = node
      /\ \A t \in Sock : /\ socket'[t].state = socket[t].state
                         /\ socket'[t].answered = socket[t].answered
  BY <1>1 DEF Dies, SocketRecord
<1>3. ReconnectTypeOK' /\ AnsweredLater'
  BY <1>2 DEF ChainInv, ReconnectTypeOK, AnsweredLater
<1>4. ChainAlive' /\ WorkHasSocket'
  BY <1>1, <1>2 DEF ChainInv, ChainAlive, Accepted, WorkHasSocket, Is, NodeRecord
<1> QED BY <1>3, <1>4 DEF ChainInv

(* A tick of the heartbeat asks for a reconnect, forces one, or pings.       *)
LEMMA HeartbeatStep ==
  ASSUME ChainInv, Heartbeat
  PROVE  ChainInv'
<1>1. node \in NodeRecord /\ node.missedPongs \in 0..MAX_MISSED_PONGS - 1
  BY DEF ChainInv, ReconnectTypeOK, NodeRecord
<1>2. CASE node.ws = None
  <2>1. UNCHANGED socket /\ node' = ScheduleReconnect(node)
    BY <1>2 DEF Heartbeat
  <2>2. node' \in NodeRecord /\ node'.timer = TRUE /\ node'.work = node.work
    BY <1>1, <2>1, ScheduleResult
  <2> QED BY <2>1, <2>2 DEF ChainInv, ReconnectTypeOK, AnsweredLater, ChainAlive, WorkHasSocket, Is
<1>3. CASE ForceReconnect
  BY <1>3, AfterForce
<1>4. CASE UNCHANGED socket /\ node' = [node EXCEPT !.missedPongs = @ + 1]
           /\ node.missedPongs + 1 < MAX_MISSED_PONGS
  <2>1. node.missedPongs + 1 \in 0..MAX_MISSED_PONGS - 1
    BY <1>1, <1>4, ReconnectAssumption
  <2>2. /\ node' \in NodeRecord /\ node'.ws = node.ws /\ node'.timer = node.timer
        /\ node'.heartbeat = node.heartbeat /\ node'.work = node.work
    BY <1>1, <1>4, <2>1 DEF NodeRecord
  <2> QED BY <1>4, <2>2, QuietStep
<1>5. QED
  <2>1. CASE node.ws # None
    <3>1. ForceReconnect \/ Ping
      BY <2>1 DEF Heartbeat
    <3>2. Ping => \/ ForceReconnect
                  \/ /\ UNCHANGED socket /\ node' = [node EXCEPT !.missedPongs = @ + 1]
                     /\ ~(node.missedPongs + 1 >= MAX_MISSED_PONGS)
      BY DEF Ping
    <3>3. node.missedPongs + 1 >= MAX_MISSED_PONGS \/ node.missedPongs + 1 < MAX_MISSED_PONGS
      BY <1>1, ReconnectAssumption
    <3> QED BY <1>3, <1>4, <3>1, <3>2, <3>3
  <2> QED BY <1>2, <2>1

----------------------------------------------------------------------------
(* One case per action.                                                      *)
LEMMA NextInvariant ==
  ASSUME ChainInv, [ReconnectNext]_reconnectVars
  PROVE  ChainInv'
<1> USE DEF ChainInv
<1>1. node \in NodeRecord
  BY DEF ReconnectTypeOK
<1>2. CASE \E s \in Sock : Connect(s)
  BY <1>2, ConnectStep
<1>3. CASE \E s \in Sock : Open(s)
  BY <1>3, OpenStep
<1>4. CASE \E s \in Sock : HandshakeFails(s) \/ ServerCloses(s) \/ Close(s)
  BY <1>4, AfterClose DEF HandshakeFails, ServerCloses, Close
<1>5. CASE \E s \in Sock : Error(s)
  BY <1>5, ErrorStep
<1>6. CASE \E s \in Sock : AuthOk(s)
  BY <1>6, AuthOkStep
<1>7. CASE \E s \in Sock : AuthError(s)
  BY <1>7, AuthErrorStep
<1>8. ASSUME NEW s \in Sock, Pong(s) PROVE ChainInv'
  <2>1. /\ UNCHANGED socket /\ node' \in NodeRecord /\ node'.ws = node.ws
        /\ node'.timer = node.timer /\ node'.heartbeat = node.heartbeat
        /\ node'.work = node.work
    BY <1>1, <1>8, NoneMissed DEF Pong, NodeRecord
  <2> QED BY <2>1, QuietStep
<1>9. ASSUME NEW s \in Sock, Work(s) PROVE ChainInv'
  <2>1. /\ UNCHANGED socket /\ node' \in NodeRecord /\ node'.ws = node.ws
        /\ node'.timer = node.timer /\ node'.heartbeat = node.heartbeat
        /\ node'.work = node.work \cup {s} /\ Is(s, {"open", "closing"})
    BY <1>1, <1>9 DEF Work, NodeRecord
  <2> QED BY <2>1, QuietStep
<1>10. ASSUME NEW s \in Sock, WorkDone(s) PROVE ChainInv'
  <2>1. /\ UNCHANGED socket /\ node' \in NodeRecord /\ node'.ws = node.ws
        /\ node'.timer = node.timer /\ node'.heartbeat = node.heartbeat
        /\ node'.work = node.work \ {s}
    BY <1>1, <1>10 DEF WorkDone, NodeRecord
  <2> QED BY <2>1, QuietStep
<1>11. CASE \E s \in Sock : Dies(s)
  BY <1>11, DiesStep
<1>12. CASE ConnectThrows
  BY <1>12, ConnectThrowsStep
<1>13. CASE Heartbeat
  BY <1>13, HeartbeatStep
<1>14. CASE Grace
  <2>1. /\ UNCHANGED socket /\ node' \in NodeRecord /\ node'.ws = node.ws
        /\ node'.timer = node.timer /\ node'.heartbeat = node.heartbeat
        /\ node'.work = node.work
    BY <1>1, <1>14 DEF Grace, NodeRecord
  <2> QED BY <2>1, QuietStep
<1>15. CASE UncaughtException
  BY <1>15, AfterForce DEF UncaughtException
<1>16. CASE UNCHANGED reconnectVars
  BY <1>1, <1>16, QuietStep DEF reconnectVars
<1> HIDE DEF ChainInv
<1> QED
  BY <1>2, <1>3, <1>4, <1>5, <1>6, <1>7, <1>8, <1>9, <1>10, <1>11, <1>12, <1>13, <1>14,
     <1>15, <1>16 DEF ReconnectNext

LEMMA Inductive == ReconnectSpec => []ChainInv
<1>1. ReconnectInit => ChainInv
  BY InitInvariant
<1>2. ChainInv /\ [ReconnectNext]_reconnectVars => ChainInv'
  BY NextInvariant
<1> QED BY <1>1, <1>2, PTL DEF ReconnectSpec

(* The module variables of client.ts keep their types: in particular missed  *)
(* pongs stay below the limit at which the watchdog acts.                    *)
THEOREM ReconnectTypeCorrect == ReconnectSpec => []ReconnectTypeOK
<1>1. ChainInv => ReconnectTypeOK
  BY DEF ChainInv
<1> QED BY <1>1, Inductive, PTL

(* For any number of earlier sockets: the reconnect chain is never lost, and *)
(* an accepted session has its watchdog or is about to be replaced.          *)
THEOREM ChainAlways == ReconnectSpec => []ChainAlive
<1>1. ChainInv => ChainAlive
  BY DEF ChainInv
<1> QED BY <1>1, Inductive, PTL

(* No request or tunnel of the node outlives the socket it came over.        *)
THEOREM WorkAlwaysHasSocket == ReconnectSpec => []WorkHasSocket
<1>1. ChainInv => WorkHasSocket
  BY DEF ChainInv
<1> QED BY <1>1, Inductive, PTL
=============================================================================
