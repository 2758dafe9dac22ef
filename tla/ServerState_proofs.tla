-------------------------- MODULE ServerState_proofs --------------------------
(* What the server keeps is sound, for any nodes, limits, rules, accounts    *)
(* and files: the proofs that every invariant of MCServerState holds in      *)
(* every behaviour. Each part has an inductive invariant with three lemmas   *)
(* about it: it holds at the start, every step of the part keeps it, and it  *)
(* implies what the part promises. The parts share no state, so the          *)
(* conjunction of their invariants is one of them together.                  *)
EXTENDS MCServerState, Registry_proofs, Accounts_proofs

----------------------------------------------------------------------------
(* The limiter.  By itself WithinLimit is not inductive: what a bucket let   *)
(* through says nothing of what it may still let through.  The stronger      *)
(* invariant adds the tokens it holds and the time it has not been refilled  *)
(* for.                                                                      *)

BucketRecord ==
  [rate : Nat, burst : Nat, tokens : Nat, last : Int, used : Nat, born : Nat]

(* The time a refill would count, on a clock that shows w.                   *)
Elapsed(b, w) == IF w > b.last THEN w - b.last ELSE 0

SoundAt(b, w, p) ==
  /\ b \in BucketRecord /\ b.tokens <= b.burst /\ b.born <= p
  /\ b.used + b.tokens + b.rate * Elapsed(b, w) <= b.burst + b.rate * (p - b.born)

Clocks == passed \in Nat /\ ahead \in Nat /\ back \in Nat /\ wall = Advanced - back

LimitsTyped ==
  /\ enabled \in BOOLEAN
  /\ default.rate \in Nat /\ default.burst \in Nat \ {0}
  /\ \A c \in Users : overrides[c] # NoLimit => overrides[c].rate \in Nat /\ overrides[c].burst \in Nat
  /\ overrides = [c \in Users |-> overrides[c]]

BucketsSound ==
  /\ bucket \in [Users -> BucketRecord]
  /\ \A c \in Users : SoundAt(bucket[c], wall, Advanced)
  /\ SoundAt(global, wall, Advanced)

LimiterInv == Clocks /\ LimitsTyped /\ BucketsSound

----------------------------------------------------------------------------
(* Arithmetic that the provers need to be told.                              *)
LEMMA Monotonic ==
  ASSUME NEW r \in Nat, NEW m \in Nat, NEW n \in Nat, m <= n
  PROVE  r * m <= r * n
<1>1. PICK d \in Nat : n = m + d
  <2>1. n - m \in Nat /\ n = m + (n - m)
    OBVIOUS
  <2>2. QED
    BY <2>1
<1>2. r * n = r * m + r * d
  BY <1>1
<1>3. r * d \in Nat /\ r * m \in Nat
  BY <1>1
<1>4. QED
  BY <1>2, <1>3

LEMMA Distributes ==
  ASSUME NEW r \in Nat, NEW m \in Int
  PROVE  r * (m + 1) = r * m + r /\ r * m \in Int
OBVIOUS

LEMMA ElapsedType ==
  ASSUME NEW b \in BucketRecord, NEW w \in Int
  PROVE  /\ Elapsed(b, w) \in Nat
         /\ Elapsed(b, w + 1) \in Nat /\ Elapsed(b, w + 1) <= Elapsed(b, w) + 1
         /\ Elapsed(b, w - 1) \in Nat /\ Elapsed(b, w - 1) <= Elapsed(b, w)
BY DEF Elapsed, BucketRecord

----------------------------------------------------------------------------
(* What the operators of the limiter make of a sound bucket.                 *)
LEMMA SoundLater ==
  ASSUME NEW b, NEW w \in Int, NEW p \in Nat, SoundAt(b, w, p)
  PROVE  SoundAt(b, w + 1, p + 1)
<1> DEFINE e == Elapsed(b, w)
           f == Elapsed(b, w + 1)
           q == p - b.born
<1>1. b \in BucketRecord /\ b.rate \in Nat /\ b.burst \in Nat /\ b.tokens \in Nat /\ b.used \in Nat
      /\ b.born \in Nat /\ b.born <= p /\ b.tokens <= b.burst
  BY DEF SoundAt, BucketRecord
<1>2. e \in Nat /\ f \in Nat /\ f <= e + 1 /\ q \in Nat
  <2>1. q \in Nat
    BY <1>1
  <2>2. QED
    BY <1>1, <2>1, ElapsedType
<1>3. b.used + b.tokens + b.rate * e <= b.burst + b.rate * q
  BY DEF SoundAt
<1> HIDE DEF e, f
<1>4. b.rate * f <= b.rate * (e + 1)
  BY <1>1, <1>2, Monotonic
<1>5. b.rate * (e + 1) = b.rate * e + b.rate /\ b.rate * e \in Int
  BY <1>1, <1>2, Distributes
<1>6. b.rate * (q + 1) = b.rate * q + b.rate /\ b.rate * q \in Int
  BY <1>1, <1>2, Distributes
<1>7. (p + 1) - b.born = q + 1
  BY <1>1
<1> HIDE DEF q
<1>8. b.rate * f \in Int
  BY <1>1, <1>2
<1>9. b.used + b.tokens + b.rate * f <= b.burst + b.rate * (q + 1)
  <2>1. ASSUME NEW u \in Int, NEW t \in Int, NEW x \in Int, NEW y \in Int, NEW z \in Int, NEW r \in Int,
               NEW k \in Int, u + t + x <= k + y, z <= x + r
        PROVE  u + t + z <= k + (y + r)
    BY <2>1
  <2>2. b.rate * f <= b.rate * e + b.rate
    BY <1>4, <1>5
  <2>3. QED
    BY <1>1, <1>3, <1>5, <1>6, <1>8, <2>1, <2>2
<1>10. QED
  BY <1>1, <1>7, <1>9 DEF SoundAt, f

LEMMA SoundSetBack ==
  ASSUME NEW b, NEW w \in Int, NEW p \in Nat, SoundAt(b, w, p)
  PROVE  SoundAt(b, w - 1, p)
<1> DEFINE e == Elapsed(b, w)
           f == Elapsed(b, w - 1)
           q == b.rate * (p - b.born)
<1>1. b \in BucketRecord /\ b.rate \in Nat /\ b.burst \in Nat /\ b.tokens \in Nat /\ b.used \in Nat
      /\ b.born \in Nat /\ b.born <= p /\ b.tokens <= b.burst
  BY DEF SoundAt, BucketRecord
<1>2. e \in Nat /\ f \in Nat /\ f <= e /\ q \in Int
  <2>1. \A x, y \in Int : x * y \in Int
    OBVIOUS
  <2>2. p - b.born \in Int /\ b.rate \in Int
    BY <1>1
  <2>3. q \in Int
    BY <2>1, <2>2
  <2>4. QED
    BY <1>1, <2>3, ElapsedType
<1>3. b.used + b.tokens + b.rate * e <= b.burst + q
  BY DEF SoundAt
<1> HIDE DEF e, f, q
<1>4. b.rate * f <= b.rate * e /\ b.rate * f \in Int /\ b.rate * e \in Int
  BY <1>1, <1>2, Monotonic
<1>5. b.used + b.tokens + b.rate * f <= b.burst + q
  BY <1>1, <1>2, <1>3, <1>4
<1>6. QED
  BY <1>1, <1>5 DEF SoundAt, f, q

LEMMA NoBucketSound ==
  ASSUME NEW w \in Int, NEW p \in Nat
  PROVE  NoBucket \in BucketRecord /\ SoundAt(NoBucket, w, p)
<1>1. NoBucket \in BucketRecord
  BY DEF NoBucket, BucketRecord
<1>2. 0 * Elapsed(NoBucket, w) = 0 /\ 0 * (p - 0) = 0
  BY <1>1, ElapsedType
<1>3. QED
  BY <1>1, <1>2 DEF NoBucket, SoundAt

LEMMA NewBucketSound ==
  ASSUME NEW limit, limit.rate \in Nat, limit.burst \in Nat, wall \in Int, Advanced \in Nat
  PROVE  NewBucket(limit) \in BucketRecord /\ SoundAt(NewBucket(limit), wall, Advanced)
<1>1. NewBucket(limit) \in BucketRecord
  BY DEF NewBucket, BucketRecord
<1>2. Elapsed(NewBucket(limit), wall) = 0
  BY DEF NewBucket, Elapsed
<1>3. limit.rate * 0 = 0 /\ limit.rate * (Advanced - Advanced) = 0
  OBVIOUS
<1>4. QED
  BY <1>1, <1>2, <1>3 DEF NewBucket, SoundAt

LEMMA RefillSound ==
  ASSUME NEW b, wall \in Int, Advanced \in Nat, SoundAt(b, wall, Advanced)
  PROVE  Refill(b) \in BucketRecord /\ SoundAt(Refill(b), wall, Advanced) /\ Elapsed(Refill(b), wall) = 0
<1> DEFINE e == Elapsed(b, wall)
           t == Least(b.burst, b.tokens + e * b.rate)
           q == b.rate * (Advanced - b.born)
<1>1. b \in BucketRecord /\ b.rate \in Nat /\ b.burst \in Nat /\ b.tokens \in Nat /\ b.used \in Nat
      /\ b.born \in Nat /\ b.born <= Advanced /\ b.tokens <= b.burst
  BY DEF SoundAt, BucketRecord
<1>2. Refill(b) = [b EXCEPT !.tokens = t, !.last = wall]
  BY DEF Refill, Elapsed
<1>3. e \in Nat /\ e * b.rate = b.rate * e /\ b.rate * e \in Nat /\ q \in Int
  <2>1. e \in Nat /\ Advanced - b.born \in Int
    BY <1>1, ElapsedType
  <2>2. ASSUME NEW m \in Nat, NEW n \in Nat PROVE m * n = n * m /\ n * m \in Nat
    OBVIOUS
  <2>3. ASSUME NEW m \in Int, NEW n \in Nat PROVE n * m \in Int
    OBVIOUS
  <2> HIDE DEF e
  <2>4. QED
    BY <1>1, <2>1, <2>2, <2>3
<1>4. t \in Nat /\ t <= b.burst /\ t <= b.tokens + b.rate * e
  BY <1>1, <1>3 DEF Least
<1>5. b.used + b.tokens + b.rate * e <= b.burst + q
  BY DEF SoundAt
<1> HIDE DEF e, t, q
<1>6. b.used + t <= b.burst + q
  BY <1>1, <1>3, <1>4, <1>5
<1>7. /\ Refill(b) \in BucketRecord /\ Refill(b).rate = b.rate /\ Refill(b).burst = b.burst
      /\ Refill(b).tokens = t /\ Refill(b).last = wall /\ Refill(b).used = b.used /\ Refill(b).born = b.born
  BY <1>1, <1>2, <1>4 DEF BucketRecord
<1>8. Elapsed(Refill(b), wall) = 0
  BY <1>7 DEF Elapsed
<1>9. b.used + t + b.rate * 0 <= b.burst + q
  BY <1>1, <1>4, <1>6
<1>10. QED
  BY <1>1, <1>4, <1>7, <1>8, <1>9 DEF SoundAt, q

LEMMA TokensTaken ==
  ASSUME NEW r \in BucketRecord, NEW n \in Nat, r.tokens >= n
  PROVE  LET c == [r EXCEPT !.tokens = @ - n, !.used = @ + n]
         IN /\ c \in BucketRecord /\ c.rate = r.rate /\ c.burst = r.burst /\ c.last = r.last
            /\ c.born = r.born /\ c.tokens = r.tokens - n /\ c.used = r.used + n
<1>1. r.tokens - n \in Nat /\ r.used + n \in Nat
  BY DEF BucketRecord
<1>2. QED
  BY <1>1 DEF BucketRecord

LEMMA ConsumedSound ==
  ASSUME NEW b, NEW bytes \in Nat, wall \in Int, Advanced \in Nat, SoundAt(b, wall, Advanced)
  PROVE  Consumed(b, bytes) \in BucketRecord /\ SoundAt(Consumed(b, bytes), wall, Advanced)
<1> DEFINE r == Refill(b)
           c == [r EXCEPT !.tokens = @ - bytes, !.used = @ + bytes]
<1>1. r \in BucketRecord /\ SoundAt(r, wall, Advanced) /\ Elapsed(r, wall) = 0
  BY RefillSound
<1>2. CASE Allows(b, bytes)
  <2>1. Consumed(b, bytes) = c /\ r.tokens >= bytes
    BY <1>2 DEF Consumed, Allows
  <2> HIDE DEF r
  <2>2. /\ c \in BucketRecord /\ c.rate = r.rate /\ c.burst = r.burst /\ c.last = r.last /\ c.born = r.born
        /\ c.tokens = r.tokens - bytes /\ c.used = r.used + bytes
    BY <1>1, <2>1, TokensTaken
  <2>3. Elapsed(c, wall) = Elapsed(r, wall)
    BY <2>2 DEF Elapsed
  <2>4. r.tokens \in Nat /\ r.used \in Nat /\ r.burst \in Nat
    BY <1>1 DEF BucketRecord
  <2>5. c.used + c.tokens = r.used + r.tokens /\ c.tokens <= r.tokens
    BY <2>2, <2>4
  <2> HIDE DEF c
  <2>6. SoundAt(c, wall, Advanced)
    BY <1>1, <2>2, <2>3, <2>4, <2>5 DEF SoundAt
  <2>7. QED
    BY <2>1, <2>2, <2>6
<1>3. CASE ~Allows(b, bytes)
  BY <1>1, <1>3 DEF Consumed
<1>4. QED
  BY <1>2, <1>3

----------------------------------------------------------------------------
LEMMA LimitTypes ==
  \A l \in Limits \cup Globals : l.rate \in Nat /\ l.burst \in Nat /\ l.burst # 0
BY BandwidthAssumption

LEMMA GlobalSound ==
  ASSUME NEW l \in Globals, Clocks
  PROVE  SoundAt(GlobalBucket(l), wall, Advanced)
BY LimitTypes, NewBucketSound, NoBucketSound DEF GlobalBucket, Clocks, Advanced

LEMMA LimiterStart == BandwidthInit => LimiterInv
<1> SUFFICES ASSUME BandwidthInit PROVE LimiterInv
  OBVIOUS
<1>1. Clocks
  BY DEF BandwidthInit, Clocks, Advanced
<1>2. LimitsTyped
  BY LimitTypes DEF BandwidthInit, LimitsTyped
<1>3. BucketsSound
  <2>1. SoundAt(global, wall, Advanced)
    BY <1>1, GlobalSound DEF BandwidthInit
  <2>2. NoBucket \in BucketRecord /\ SoundAt(NoBucket, wall, Advanced)
    BY <1>1, NoBucketSound DEF Clocks, Advanced
  <2>3. QED
    BY <2>1, <2>2 DEF BandwidthInit, BucketsSound
<1>4. QED
  BY <1>1, <1>2, <1>3 DEF LimiterInv

LEMMA CheckSound ==
  ASSUME LimiterInv, NEW c \in Users, NEW bytes \in Sizes, Check(c, bytes)
  PROVE  LimiterInv'
<1>1. bytes \in Nat
  BY BandwidthAssumption
<1>2. wall \in Int /\ Advanced \in Nat
  BY DEF LimiterInv, Clocks, Advanced
<1>3. Clocks' /\ LimitsTyped' /\ wall' = wall /\ Advanced' = Advanced
  BY DEF LimiterInv, Clocks, Advanced, LimitsTyped, Check
<1>4. SoundAt(global', wall, Advanced)
  BY <1>1, <1>2, ConsumedSound DEF LimiterInv, BucketsSound, Check
<1>5. BucketOf(c) \in BucketRecord /\ SoundAt(BucketOf(c), wall, Advanced)
  <2>1. LimitOf(c).rate \in Nat /\ LimitOf(c).burst \in Nat
    BY DEF LimiterInv, LimitsTyped, LimitOf
  <2>2. QED
    BY <1>2, <2>1, NewBucketSound DEF LimiterInv, BucketsSound, BucketOf
<1>6. Consumed(BucketOf(c), bytes) \in BucketRecord /\ SoundAt(Consumed(BucketOf(c), bytes), wall, Advanced)
  BY <1>1, <1>2, <1>5, ConsumedSound
<1>7. bucket' \in [Users -> BucketRecord] /\ \A u \in Users : SoundAt(bucket'[u], wall, Advanced)
  <2>1. bucket \in [Users -> BucketRecord] /\ \A u \in Users : SoundAt(bucket[u], wall, Advanced)
    BY DEF LimiterInv, BucketsSound
  <2>2. bucket' = bucket \/ bucket' = [bucket EXCEPT ![c] = Consumed(BucketOf(c), bytes)]
    BY DEF Check
  <2>3. QED
    BY <1>6, <2>1, <2>2
<1>8. QED
  BY <1>3, <1>4, <1>7 DEF LimiterInv, BucketsSound

LEMMA SetLimitSound ==
  ASSUME LimiterInv, NEW c \in Users, NEW l \in Limits, SetLimit(c, l.rate)
  PROVE  LimiterInv'
<1> DEFINE limit == [rate |-> l.rate, burst |-> l.rate]
<1>1. limit.rate \in Nat /\ limit.burst \in Nat
  BY LimitTypes
<1>2. wall \in Int /\ Advanced \in Nat
  BY DEF LimiterInv, Clocks, Advanced
<1>3. Clocks' /\ wall' = wall /\ Advanced' = Advanced /\ global' = global
  BY DEF LimiterInv, Clocks, Advanced, SetLimit
<1>4. overrides' = [overrides EXCEPT ![c] = limit] /\ bucket' = [bucket EXCEPT ![c] = NewBucket(limit)]
  BY DEF SetLimit
<1>5. NewBucket(limit) \in BucketRecord /\ SoundAt(NewBucket(limit), wall, Advanced)
  BY <1>1, <1>2, NewBucketSound
<1> HIDE DEF limit
<1>6. LimitsTyped'
  BY <1>1, <1>4 DEF LimiterInv, LimitsTyped, SetLimit
<1>7. BucketsSound'
  BY <1>3, <1>4, <1>5 DEF LimiterInv, BucketsSound
<1>8. QED
  BY <1>3, <1>6, <1>7 DEF LimiterInv

LEMMA UpdateConfigSound ==
  ASSUME LimiterInv, NEW on \in BOOLEAN, NEW limit \in Limits, NEW total \in Globals,
         UpdateConfig(on, limit, total)
  PROVE  LimiterInv'
<1>1. Clocks' /\ wall' = wall /\ Advanced' = Advanced
  BY DEF LimiterInv, Clocks, Advanced, UpdateConfig
<1>2. LimitsTyped'
  BY LimitTypes DEF LimiterInv, LimitsTyped, UpdateConfig
<1>3. SoundAt(global', wall, Advanced)
  BY GlobalSound DEF LimiterInv, UpdateConfig
<1>4. BucketsSound'
  BY <1>1, <1>3 DEF LimiterInv, BucketsSound, UpdateConfig
<1>5. QED
  BY <1>1, <1>2, <1>4 DEF LimiterInv

LEMMA CleanupSound ==
  ASSUME LimiterInv, NEW gone \in SUBSET Users, CleanupBuckets(gone)
  PROVE  LimiterInv'
<1>1. Clocks' /\ wall' = wall /\ Advanced' = Advanced /\ global' = global /\ LimitsTyped'
  BY DEF LimiterInv, Clocks, Advanced, LimitsTyped, CleanupBuckets
<1>2. NoBucket \in BucketRecord /\ SoundAt(NoBucket, wall, Advanced)
  BY NoBucketSound DEF LimiterInv, Clocks, Advanced
<1>3. BucketsSound'
  BY <1>1, <1>2 DEF LimiterInv, BucketsSound, CleanupBuckets
<1>4. QED
  BY <1>1, <1>3 DEF LimiterInv

LEMMA TimeSound ==
  ASSUME LimiterInv, TimePasses \/ ClockSetAhead \/ ClockSetBack
  PROVE  LimiterInv'
<1>1. wall \in Int /\ Advanced \in Nat
  BY DEF LimiterInv, Clocks, Advanced
<1>2. LimitsTyped' /\ bucket' = bucket /\ global' = global
  BY DEF LimiterInv, LimitsTyped, TimePasses, ClockSetAhead, ClockSetBack
<1>3. Clocks'
  BY DEF LimiterInv, Clocks, Advanced, TimePasses, ClockSetAhead, ClockSetBack
<1>4. \/ wall' = wall + 1 /\ Advanced' = Advanced + 1
      \/ wall' = wall - 1 /\ Advanced' = Advanced
  BY <1>1 DEF LimiterInv, Clocks, TimePasses, ClockSetAhead, ClockSetBack, Advanced
<1>5. ASSUME NEW b, SoundAt(b, wall, Advanced) PROVE SoundAt(b, wall', Advanced')
  BY <1>1, <1>4, <1>5, SoundLater, SoundSetBack
<1>6. BucketsSound'
  BY <1>2, <1>5 DEF LimiterInv, BucketsSound
<1>7. QED
  BY <1>2, <1>3, <1>6 DEF LimiterInv

LEMMA LimiterStep == LimiterInv /\ [BandwidthNext]_bandwidthVars => LimiterInv'
<1> SUFFICES ASSUME LimiterInv, [BandwidthNext]_bandwidthVars PROVE LimiterInv'
  OBVIOUS
<1>1. ASSUME NEW c \in Users, NEW bytes \in Sizes, Check(c, bytes) PROVE LimiterInv'
  BY <1>1, CheckSound
<1>2. ASSUME NEW c \in Users, NEW l \in Limits, SetLimit(c, l.rate) PROVE LimiterInv'
  BY <1>2, SetLimitSound
<1>3. ASSUME NEW on \in BOOLEAN, NEW limit \in Limits, NEW total \in Globals, UpdateConfig(on, limit, total)
      PROVE  LimiterInv'
  BY <1>3, UpdateConfigSound
<1>4. ASSUME NEW gone \in SUBSET Users, CleanupBuckets(gone) PROVE LimiterInv'
  BY <1>4, CleanupSound
<1>5. CASE TimePasses \/ ClockSetAhead \/ ClockSetBack
  BY <1>5, TimeSound
<1>6. CASE UNCHANGED bandwidthVars
  BY <1>6 DEF bandwidthVars, LimiterInv, Clocks, Advanced, LimitsTyped, BucketsSound
<1>7. QED
  BY <1>1, <1>2, <1>3, <1>4, <1>5, <1>6 DEF BandwidthNext

LEMMA InvImpliesLimits == LimiterInv => BandwidthTypeOK /\ WithinLimit
<1> SUFFICES ASSUME LimiterInv PROVE BandwidthTypeOK /\ WithinLimit
  OBVIOUS
<1>1. wall \in Int /\ Advanced \in Nat
  BY DEF LimiterInv, Clocks, Advanced
<1>2. ASSUME NEW b \in Buckets PROVE SoundAt(b, wall, Advanced)
  BY <1>2 DEF LimiterInv, BucketsSound, Buckets
<1>3. ASSUME NEW b \in Buckets
      PROVE  /\ b.rate \in Nat /\ b.burst \in Nat /\ b.tokens \in 0..b.burst
             /\ b.used \in Nat /\ b.born \in 0..Advanced
             /\ b.used <= b.burst + b.rate * (Advanced - b.born)
  <2> DEFINE e == Elapsed(b, wall)
             q == b.rate * (Advanced - b.born)
  <2>1. b \in BucketRecord /\ b.tokens <= b.burst /\ b.born <= Advanced
        /\ b.used + b.tokens + b.rate * e <= b.burst + q
    BY <1>2, <1>3 DEF SoundAt
  <2>2. b.rate \in Nat /\ b.burst \in Nat /\ b.tokens \in Nat /\ b.used \in Nat /\ b.born \in Nat /\ e \in Nat
    BY <1>1, <2>1, ElapsedType DEF BucketRecord
  <2>3. Advanced - b.born \in Nat
    BY <1>1, <2>1, <2>2
  <2> HIDE DEF e
  <2>4. b.rate * e \in Nat /\ q \in Nat
    <3>1. ASSUME NEW m \in Nat, NEW n \in Nat PROVE m * n \in Nat
      OBVIOUS
    <3>2. QED
      BY <2>2, <2>3, <3>1
  <2> HIDE DEF q
  <2>5. b.used <= b.burst + q
    BY <2>1, <2>2, <2>4
  <2>6. QED
    BY <1>1, <2>1, <2>2, <2>5 DEF q
<1>4. QED
  BY <1>3 DEF LimiterInv, Clocks, Advanced, LimitsTyped, BandwidthTypeOK, WithinLimit

(* In every behaviour, for any limits, any number of nodes and any steps of  *)
(* the clock, back and ahead, no bucket lets through more than its burst and *)
(* its rate over what the clock has gone forward in its life.                *)
THEOREM LimitsHold == BandwidthSpec => [](BandwidthTypeOK /\ WithinLimit)
<1>1. BandwidthSpec => []LimiterInv
  BY LimiterStart, LimiterStep, PTL DEF BandwidthSpec
<1>2. QED
  BY <1>1, InvImpliesLimits, PTL

----------------------------------------------------------------------------
(* Access rules.  The lists are kept sorted, so the first rule that applies is *)
(* the one that counts, and what is remembered says the same.                *)

(* A list of rules: sorted, and told apart by their numbers.                 *)
Outranks(r, s) == r.priority > s.priority \/ (r.priority = s.priority /\ r.id < s.id)
Listed(set) == {Numbered(r, n) : r \in set, n \in Nat}
Ranked(list) == \A i, j \in 1..Len(list) : i < j => Outranks(list[i], list[j])
RuleList(set, list, n) ==
  /\ list \in Seq(Listed(set)) /\ Ranked(list)
  /\ \A i \in 1..Len(list) : list[i].id < n

WellRanked(set) == \A r \in set : r.priority \in Int /\ "priority" \in DOMAIN r

(* What the rules say, of the one that counts.                               *)
Says(list, request, tags, t) ==
  \A r \in Decisive({r \in ToSet(list) : Applies(r, request, tags, t)}) : r.action = "allow"

Remembered(v, list) ==
  \A q \in DOMAIN v : v[q].allowed = Says(list, q, v[q].tags, v[q].time)

AccessInv ==
  /\ AccessTypeOK
  /\ RuleList(RuleSet, rules, added) /\ RuleList(DomainRuleSet, domainRules, added)
  /\ Remembered(verdicts, rules)

LEMMA AccessConstants ==
  WellRanked(RuleSet) /\ WellRanked(DomainRuleSet) /\ MaxAdded \in Nat /\ LastTick \in Nat
BY AccessAssumption DEF WellRanked

LEMMA ListedIs ==
  ASSUME NEW set, WellRanked(set), NEW n \in Nat, NEW r \in set
  PROVE  /\ Numbered(r, n) \in Listed(set)
         /\ Numbered(r, n).id = n /\ Numbered(r, n).priority = r.priority
<1>1. "priority" \in DOMAIN r
  BY DEF WellRanked
<1> QED BY <1>1 DEF Listed, Numbered

LEMMA ListedRanks ==
  ASSUME NEW set, WellRanked(set), NEW x \in Listed(set)
  PROVE  x.priority \in Int /\ x.id \in Nat
<1>1. PICK r \in set, n \in Nat : x = Numbered(r, n)
  BY DEF Listed
<1>2. Numbered(r, n).id = n /\ Numbered(r, n).priority = r.priority
  BY ListedIs
<1>3. r.priority \in Int
  BY DEF WellRanked
<1> QED BY <1>1, <1>2, <1>3

(* The first of the rules at some places is the one that counts among them.  *)
LEMMA FirstCounts ==
  ASSUME NEW set, WellRanked(set), NEW list \in Seq(Listed(set)), Ranked(list),
         NEW I \in SUBSET (1..Len(list))
  PROVE  Decisive({list[i] : i \in I}) = IF I = {} THEN {} ELSE {list[Min(I)]}
<1> DEFINE C == {list[i] : i \in I}
           m == Min(I)
<1>1. CASE I = {}
  BY <1>1 DEF Decisive
<1>2. CASE I # {}
  <2>1. m \in I /\ \A i \in I : m <= i
    <3>1. Len(list) \in Nat
      OBVIOUS
    <3> QED BY <1>2, <3>1, MinIs
  <2> HIDE DEF m
  <2>2. \A i \in I : i \in 1..Len(list) /\ list[i] \in Listed(set) /\ i \in Nat
    OBVIOUS
  <2>3. \A i \in I : list[i].priority \in Int /\ list[i].id \in Nat
    BY <2>2, ListedRanks
  <2>4. \A i \in I : i # m => Outranks(list[m], list[i])
    <3> SUFFICES ASSUME NEW i \in I, i # m PROVE Outranks(list[m], list[i])
      OBVIOUS
    <3>1. m < i
      BY <2>1, <2>2
    <3> QED BY <2>1, <2>2, <3>1 DEF Ranked
  <2>5. list[m] \in Decisive(C)
    <3>1. ASSUME NEW s \in C, <<list[m].priority, s.id>> # <<s.priority, list[m].id>>
          PROVE  Outranks(list[m], s)
      <4>1. PICK i \in I : s = list[i]
        OBVIOUS
      <4>2. i # m
        BY <3>1, <4>1
      <4> QED BY <2>4, <4>1, <4>2
    <3>2. list[m] \in C
      BY <2>1
    <3> QED BY <3>1, <3>2 DEF Decisive, Outranks
  <2>6. ASSUME NEW r \in Decisive(C) PROVE r = list[m]
    <3>1. PICK i \in I : r = list[i]
      BY DEF Decisive
    <3>2. SUFFICES ASSUME i # m PROVE FALSE
      BY <3>1
    <3>3. Outranks(list[m], r)
      BY <2>4, <3>1, <3>2
    <3>4. list[m] \in C
      BY <2>1
    <3>5. <<r.priority, list[m].id>> # <<list[m].priority, r.id>>
      <4>1. list[m].priority # r.priority \/ list[m].id # r.id
        BY <2>1, <2>3, <3>1, <3>3 DEF Outranks
      <4> QED BY <4>1
    <3>6. Outranks(r, list[m])
      BY <3>4, <3>5 DEF Decisive, Outranks
    <3> QED BY <2>1, <2>3, <3>1, <3>3, <3>6 DEF Outranks
  <2> QED BY <1>2, <2>5, <2>6 DEF m
<1> QED BY <1>1, <1>2

LEMMA VerdictIs ==
  ASSUME AccessInv, NEW request
  PROVE  Verdict(request) <=> Says(rules, request, TagsOf(request), tick)
<1> DEFINE I == {i \in 1..Len(rules) : Applies(rules[i], request, TagsOf(request), tick)}
           C == {r \in ToSet(rules) : Applies(r, request, TagsOf(request), tick)}
<1>1. rules \in Seq(Listed(RuleSet)) /\ Ranked(rules) /\ WellRanked(RuleSet)
  BY AccessConstants DEF AccessInv, RuleList
<1>2. C = {rules[i] : i \in I}
  <2>1. DOMAIN rules = 1..Len(rules)
    BY <1>1
  <2> QED BY <2>1 DEF ToSet
<1>3. Decisive(C) = IF I = {} THEN {} ELSE {rules[Min(I)]}
  <2> HIDE DEF C
  <2>1. I \in SUBSET (1..Len(rules))
    OBVIOUS
  <2> HIDE DEF I
  <2> QED BY <1>1, <1>2, <2>1, FirstCounts
<1>4. Verdict(request) <=> (I = {} \/ rules[Min(I)].action = "allow")
  <2>1. SelectInSeq(rules, LAMBDA r : Applies(r, request, TagsOf(request), tick))
          = IF I # {} THEN Min(I) ELSE 0
    BY DEF SelectInSeq
  <2>2. I # {} => Min(I) # 0
    <3> SUFFICES ASSUME I # {} PROVE Min(I) # 0
      OBVIOUS
    <3>1. I \in SUBSET (1..Len(rules)) /\ Len(rules) \in Nat
      BY <1>1
    <3> HIDE DEF I
    <3>2. Min(I) \in I
      BY <3>1, MinIs
    <3> QED BY <3>1, <3>2
  <2> HIDE DEF I
  <2> QED BY <2>1, <2>2 DEF Verdict
<1> HIDE DEF I
<1> QED BY <1>3, <1>4 DEF Says

LEMMA TagIs ==
  ASSUME AccessInv, NEW name
  PROVE  TagFor(name) = {r.tag : r \in Decisive({r \in ToSet(domainRules) : name \in r.pattern})}
<1> DEFINE I == {i \in 1..Len(domainRules) : name \in domainRules[i].pattern}
           C == {r \in ToSet(domainRules) : name \in r.pattern}
<1>1. domainRules \in Seq(Listed(DomainRuleSet)) /\ Ranked(domainRules) /\ WellRanked(DomainRuleSet)
  BY AccessConstants DEF AccessInv, RuleList
<1>2. C = {domainRules[i] : i \in I}
  <2>1. DOMAIN domainRules = 1..Len(domainRules)
    BY <1>1
  <2> QED BY <2>1 DEF ToSet
<1>3. Decisive(C) = IF I = {} THEN {} ELSE {domainRules[Min(I)]}
  <2> HIDE DEF C
  <2>1. I \in SUBSET (1..Len(domainRules))
    OBVIOUS
  <2> HIDE DEF I
  <2> QED BY <1>1, <1>2, <2>1, FirstCounts
<1>4. TagFor(name) = IF I = {} THEN {} ELSE {domainRules[Min(I)].tag}
  <2>1. SelectInSeq(domainRules, LAMBDA r : name \in r.pattern) = IF I # {} THEN Min(I) ELSE 0
    BY DEF SelectInSeq
  <2>2. I # {} => Min(I) # 0
    <3> SUFFICES ASSUME I # {} PROVE Min(I) # 0
      OBVIOUS
    <3>1. I \in SUBSET (1..Len(domainRules)) /\ Len(domainRules) \in Nat
      BY <1>1
    <3> HIDE DEF I
    <3>2. Min(I) \in I
      BY <3>1, MinIs
    <3> QED BY <3>1, <3>2
  <2> HIDE DEF I
  <2> QED BY <2>1, <2>2 DEF TagFor
<1> HIDE DEF I, C
<1>5. TagFor(name) = {r.tag : r \in Decisive(C)}
  BY <1>3, <1>4
<1> QED BY <1>5 DEF C

(* A new rule goes behind those it does not outrank.                         *)
LEMMA PlacedIs ==
  ASSUME NEW set, WellRanked(set), NEW list \in Seq(Listed(set)), Ranked(list),
         NEW x \in Listed(set), \A i \in 1..Len(list) : list[i].id < x.id
  PROVE  /\ Placed(list, x) \in Seq(Listed(set)) /\ Len(Placed(list, x)) = Len(list) + 1
         /\ Ranked(Placed(list, x))
         /\ \A i \in 1..Len(Placed(list, x)) : Placed(list, x)[i].id <= x.id
<1> DEFINE n == Len(list)
           I == {i \in 1..n : list[i].priority < x.priority}
           k == IF I = {} THEN n + 1 ELSE Min(I)
           q == Placed(list, x)
<1>0. n \in Nat /\ x.priority \in Int /\ x.id \in Nat
      /\ \A i \in 1..n : list[i] \in Listed(set) /\ list[i].priority \in Int /\ list[i].id \in Nat
  <2>1. \A i \in 1..n : list[i] \in Listed(set)
    OBVIOUS
  <2> QED BY <2>1, ListedRanks
<1>1. I \in SUBSET (1..n) /\ \A i \in 1..n : i \in I <=> list[i].priority < x.priority
  OBVIOUS
<1>2. SelectInSeq(list, LAMBDA r : r.priority < x.priority) = IF I # {} THEN Min(I) ELSE 0
  BY DEF SelectInSeq
<1> HIDE DEF I
<1>3. I # {} => Min(I) \in I /\ \A i \in I : Min(I) <= i
  BY <1>0, <1>1, MinIs
<1>4. q = IF I = {} THEN Append(list, x) ELSE InsertAt(list, Min(I), x)
  <2>1. I # {} => Min(I) # 0
    BY <1>0, <1>1, <1>3
  <2> QED BY <1>2, <2>1 DEF Placed
<1>5. k \in 1..(n + 1) /\ \A i \in 1..n : i < k => ~(list[i].priority < x.priority)
  <2>1. CASE I = {}
    BY <1>0, <1>1, <2>1
  <2>2. CASE I # {}
    <3>0. Min(I) \in I
      BY <1>3, <2>2
    <3>1. Min(I) \in 1..n /\ Min(I) \in Nat
      <4>1. Min(I) \in 1..n
        BY <1>1, <3>0, Zenon
      <4> QED BY <1>0, <4>1
    <3>2. ASSUME NEW i \in 1..n, i < Min(I), i \in I PROVE FALSE
      BY <1>0, <1>3, <3>1, <3>2
    <3> QED BY <1>0, <1>1, <2>2, <3>1, <3>2
  <2> QED BY <2>1, <2>2
<1>6. \A i \in 1..n : k <= i => list[i].priority < x.priority
  <2> SUFFICES ASSUME NEW i \in 1..n, k <= i PROVE list[i].priority < x.priority
    OBVIOUS
  <2>1. I # {}
    BY <1>0
  <2>2. k \in I /\ k \in 1..n /\ k = Min(I)
    BY <1>1, <1>3, <2>1
  <2> HIDE DEF k
  <2>3. list[k].priority < x.priority
    BY <1>1, <2>2
  <2>4. k = i \/ k < i
    BY <1>0, <2>2
  <2>5. k < i => list[i].priority <= list[k].priority
    BY <1>0, <2>2 DEF Ranked, Outranks
  <2> QED BY <1>0, <2>2, <2>3, <2>4, <2>5
<1>7. q \in Seq(Listed(set)) /\ Len(q) = n + 1
      /\ \A i \in 1..(n + 1) : q[i] = IF i < k THEN list[i] ELSE IF i = k THEN x ELSE list[i - 1]
  <2>1. CASE I = {}
    <3>1. q = Append(list, x) /\ k = n + 1
      BY <1>4, <2>1
    <3> HIDE DEF q, k
    <3>2. Append(list, x) \in Seq(Listed(set)) /\ Len(Append(list, x)) = n + 1
          /\ \A i \in 1..(n + 1) : Append(list, x)[i] = IF i < n + 1 THEN list[i] ELSE x
      BY <1>0
    <3> QED BY <1>0, <3>1, <3>2
  <2>2. CASE I # {}
    <3>1. q = InsertAt(list, k, x) /\ k \in 1..n
      BY <1>1, <1>3, <1>4, <2>2
    <3> HIDE DEF q, k
    <3>2. /\ InsertAt(list, k, x) \in Seq(Listed(set)) /\ Len(InsertAt(list, k, x)) = n + 1
          /\ \A i \in 1..(n + 1) :
               InsertAt(list, k, x)[i] = IF i < k THEN list[i] ELSE IF i = k THEN x ELSE list[i - 1]
      <4>1. /\ InsertAt(list, k, x) \in Seq(Listed(set)) /\ Len(InsertAt(list, k, x)) = Len(list) + 1
            /\ \A i \in 1..(Len(list) + 1) :
                 InsertAt(list, k, x)[i] = IF i < k THEN list[i] ELSE IF i = k THEN x ELSE list[i - 1]
        <5>1. k \in 1..Len(list)
          BY <3>1
        <5> HIDE DEF n
        <5> QED BY ONLY <5>1, list \in Seq(Listed(set)), x \in Listed(set), InsertIs
      <4> QED BY <4>1
    <3> QED BY <3>1, <3>2
  <2> QED BY <2>1, <2>2
<1> HIDE DEF q, k
<1>8. ASSUME NEW i \in 1..(n + 1), NEW j \in 1..(n + 1), i < j PROVE Outranks(q[i], q[j])
  <2>0. k \in Nat /\ i \in Nat /\ j \in Nat /\ k >= 1 /\ i >= 1 /\ j <= n + 1
    BY <1>0, <1>5
  <2>1. CASE j < k
    <3>1. q[i] = list[i] /\ q[j] = list[j] /\ i \in 1..n /\ j \in 1..n
      BY <1>0, <1>5, <1>7, <1>8, <2>0, <2>1
    <3> QED BY <1>8, <3>1 DEF Ranked
  <2>2. CASE j = k
    <3>1. q[i] = list[i] /\ q[j] = x /\ i \in 1..n /\ i < k
      BY <1>0, <1>7, <1>8, <2>0, <2>2
    <3>2. ~(list[i].priority < x.priority) /\ list[i].id < x.id
      BY <1>5, <3>1
    <3> QED BY <1>0, <3>1, <3>2 DEF Outranks
  <2>3. CASE i < k /\ j > k
    <3>1. q[i] = list[i] /\ q[j] = list[j - 1] /\ i \in 1..n /\ j - 1 \in 1..n /\ i < j - 1
      BY <1>0, <1>7, <2>0, <2>3
    <3> QED BY <3>1 DEF Ranked
  <2>4. CASE i = k
    <3>1. q[i] = x /\ q[j] = list[j - 1] /\ j - 1 \in 1..n /\ k <= j - 1
      BY <1>0, <1>7, <1>8, <2>0, <2>4
    <3>2. list[j - 1].priority < x.priority
      BY <1>6, <3>1
    <3> QED BY <1>0, <3>1, <3>2 DEF Outranks
  <2>5. CASE i > k
    <3>1. q[i] = list[i - 1] /\ q[j] = list[j - 1] /\ i - 1 \in 1..n /\ j - 1 \in 1..n /\ i - 1 < j - 1
      BY <1>0, <1>7, <1>8, <2>0, <2>5
    <3> QED BY <3>1 DEF Ranked
  <2> QED BY <1>0, <1>8, <2>0, <2>1, <2>2, <2>3, <2>4, <2>5
<1>9. ASSUME NEW i \in 1..(n + 1) PROVE q[i].id <= x.id
  <2>0. k \in Nat /\ i \in Nat /\ k >= 1 /\ i >= 1
    BY <1>0, <1>5
  <2>1. i < k => i \in 1..n
    BY <1>0, <1>5, <2>0
  <2>2. i > k => i - 1 \in 1..n
    BY <1>0, <2>0
  <2>3. \A j \in 1..n : list[j].id <= x.id
    BY <1>0
  <2>4. CASE i < k
    BY <1>7, <2>1, <2>3, <2>4
  <2>5. CASE i = k
    BY <1>0, <1>7, <2>5
  <2>6. CASE i > k
    <3>1. q[i] = list[i - 1]
      BY <1>7, <2>0, <2>6
    <3> QED BY <2>2, <2>3, <2>6, <3>1
  <2> QED BY <2>0, <2>4, <2>5, <2>6
<1> QED BY <1>7, <1>8, <1>9 DEF q, n, Ranked

LEMMA PartRanked ==
  ASSUME NEW set, NEW list \in Seq(Listed(set)), NEW n, RuleList(set, list, n),
         NEW I \in SUBSET (1..Len(list)), NEW q, Part(Listed(set), list, q, I)
  PROVE  RuleList(set, q, n) /\ Len(q) \in Nat /\ Len(q) <= Len(list)
<1>1. q \in Seq(Listed(set)) /\ Len(q) \in Nat /\ Len(q) <= Len(list) /\ Rises(list, q, I)
  BY PartRises
<1>2. PICK f \in [1..Len(q) -> 1..Len(list)] :
        /\ \A i \in 1..Len(q) : q[i] = list[f[i]] /\ f[i] \in I
        /\ \A i, j \in 1..Len(q) : i < j => f[i] < f[j]
  BY <1>1 DEF Rises
<1>3. \A i \in 1..Len(q) : f[i] \in 1..Len(list)
  OBVIOUS
<1>4. Ranked(q)
  BY <1>2, <1>3 DEF RuleList, Ranked
<1>5. \A i \in 1..Len(q) : q[i].id < n
  BY <1>2, <1>3 DEF RuleList
<1> QED BY <1>1, <1>4, <1>5 DEF RuleList

LEMMA AccessStart == AccessInit => AccessInv
<1> SUFFICES ASSUME AccessInit PROVE AccessInv
  OBVIOUS
<1>1. rules = << >> /\ domainRules = << >> /\ verdicts = << >> /\ nodeTags = {} /\ tick = 0 /\ added = 0
  BY DEF AccessInit
<1>2. Len(<< >>) = 0 /\ DOMAIN << >> = {} /\ \A set : << >> \in Seq(Listed(set))
  OBVIOUS
<1>3. AccessTypeOK
  BY <1>1, <1>2, AccessConstants DEF AccessTypeOK
<1>4. \A set : RuleList(set, << >>, 0)
  BY <1>2 DEF RuleList, Ranked
<1>5. Remembered(verdicts, rules)
  BY <1>1, <1>2 DEF Remembered
<1> QED BY <1>1, <1>3, <1>4, <1>5 DEF AccessInv

LEMMA AccessLens ==
  ASSUME AccessInv
  PROVE  /\ Len(rules) \in Nat /\ Len(domainRules) \in Nat /\ added \in Nat /\ added \in 0..MaxAdded
         /\ Len(rules) + Len(domainRules) <= added
         /\ rules \in Seq(Listed(RuleSet)) /\ domainRules \in Seq(Listed(DomainRuleSet))
         /\ Ranked(rules) /\ Ranked(domainRules)
         /\ \A i \in 1..Len(rules) : rules[i].id < added /\ rules[i].id \in Nat
         /\ \A i \in 1..Len(domainRules) : domainRules[i].id < added /\ domainRules[i].id \in Nat
<1>1. rules \in Seq(Listed(RuleSet)) /\ domainRules \in Seq(Listed(DomainRuleSet))
  BY DEF AccessInv, RuleList
<1>2. \A i \in 1..Len(rules) : rules[i].id \in Nat
  BY <1>1, AccessConstants, ListedRanks
<1>3. \A i \in 1..Len(domainRules) : domainRules[i].id \in Nat
  BY <1>1, AccessConstants, ListedRanks
<1>4. Len(rules) \in Nat /\ Len(domainRules) \in Nat
  BY <1>1
<1>5. added \in Nat /\ added \in 0..MaxAdded /\ Len(rules) + Len(domainRules) <= added
  BY AccessConstants DEF AccessInv, AccessTypeOK
<1> QED BY <1>1, <1>2, <1>3, <1>4, <1>5 DEF AccessInv, RuleList

(* Rules were added: those that were there keep their numbers.               *)
LEMMA MoreAdded ==
  ASSUME AccessInv, added' = added + 1
  PROVE  /\ rules' = rules => RuleList(RuleSet, rules', added')
         /\ domainRules' = domainRules => RuleList(DomainRuleSet, domainRules', added')
<1>1. added \in Nat
  BY AccessLens
<1>2. (\A i \in 1..Len(rules) : rules[i].id < added + 1)
      /\ \A i \in 1..Len(domainRules) : domainRules[i].id < added + 1
  BY AccessLens
<1> QED BY <1>2 DEF AccessInv, RuleList

LEMMA AddRuleKeeps ==
  ASSUME AccessInv, NEW rule \in RuleSet, AddRule(rule)
  PROVE  AccessInv'
<1> DEFINE x == Numbered(rule, added)
           q == Placed(rules, x)
<1>1. /\ added < MaxAdded /\ added' = added + 1 /\ rules' = q /\ verdicts' = << >>
      /\ domainRules' = domainRules /\ nodeTags' = nodeTags /\ tick' = tick
  BY DEF AddRule, NoVerdicts
<1>2. added \in Nat /\ MaxAdded \in Nat
  BY AccessLens, AccessConstants
<1>3. x \in Listed(RuleSet) /\ x.id = added
  BY <1>2, AccessConstants, ListedIs
<1> HIDE DEF x
<1>4. /\ q \in Seq(Listed(RuleSet)) /\ Len(q) = Len(rules) + 1 /\ Ranked(q)
      /\ \A i \in 1..Len(q) : q[i].id <= x.id
  BY <1>3, AccessConstants, AccessLens, PlacedIs
<1> HIDE DEF q
<1>5. RuleList(RuleSet, q, added')
  <2>1. \A i \in 1..Len(q) : q[i].id < added + 1
    <3> SUFFICES ASSUME NEW i \in 1..Len(q) PROVE q[i].id < added + 1
      OBVIOUS
    <3>1. q[i].id \in Nat
      BY <1>4, AccessConstants, ListedRanks
    <3>2. q[i].id <= added
      BY <1>3, <1>4
    <3> QED BY <1>2, <3>1, <3>2
  <2> QED BY <1>1, <1>4, <2>1 DEF RuleList
<1>6. RuleList(DomainRuleSet, domainRules', added')
  BY <1>1, MoreAdded
<1>7. AccessTypeOK'
  <2>1. Len(rules') + Len(domainRules') <= added' /\ added' \in 0..MaxAdded
    BY <1>1, <1>2, <1>4, AccessLens
  <2>2. DOMAIN verdicts' = {}
    BY <1>1
  <2> QED BY <1>1, <2>1, <2>2 DEF AccessInv, AccessTypeOK
<1>8. Remembered(verdicts', rules')
  BY <1>1 DEF Remembered
<1> QED BY <1>1, <1>5, <1>6, <1>7, <1>8 DEF AccessInv

LEMMA RemoveRuleKeeps ==
  ASSUME AccessInv, NEW i \in DOMAIN rules, RemoveRule(i)
  PROVE  AccessInv'
<1> DEFINE q == RemoveAt(rules, i)
<1>1. /\ rules' = q /\ verdicts' = << >> /\ domainRules' = domainRules
      /\ nodeTags' = nodeTags /\ tick' = tick /\ added' = added
  BY DEF RemoveRule, NoVerdicts
<1>2. rules \in Seq(Listed(RuleSet)) /\ i \in 1..Len(rules)
  BY AccessLens
<1>3. Part(Listed(RuleSet), rules, q, (1..Len(rules)) \ {i})
  BY <1>2, RemoveIsPart
<1> HIDE DEF q
<1>4. RuleList(RuleSet, q, added) /\ Len(q) \in Nat /\ Len(q) <= Len(rules)
  <2>1. (1..Len(rules)) \ {i} \in SUBSET (1..Len(rules)) /\ RuleList(RuleSet, rules, added)
    BY DEF AccessInv
  <2> QED BY <1>2, <1>3, <2>1, PartRanked
<1>5. AccessTypeOK'
  <2>1. Len(rules') + Len(domainRules') <= added'
    BY <1>1, <1>4, AccessLens
  <2>2. DOMAIN verdicts' = {}
    BY <1>1
  <2> QED BY <1>1, <2>1, <2>2 DEF AccessInv, AccessTypeOK
<1>6. RuleList(RuleSet, rules', added') /\ RuleList(DomainRuleSet, domainRules', added')
  BY <1>1, <1>4 DEF AccessInv, RuleList
<1>7. Remembered(verdicts', rules')
  BY <1>1 DEF Remembered
<1> QED BY <1>5, <1>6, <1>7 DEF AccessInv

LEMMA AddDomainRuleKeeps ==
  ASSUME AccessInv, NEW rule \in DomainRuleSet, AddDomainRule(rule)
  PROVE  AccessInv'
<1> DEFINE x == Numbered(rule, added)
           q == Placed(domainRules, x)
<1>1. /\ added < MaxAdded /\ added' = added + 1 /\ domainRules' = q /\ verdicts' = verdicts
      /\ rules' = rules /\ nodeTags' = nodeTags /\ tick' = tick
  BY DEF AddDomainRule
<1>2. added \in Nat /\ MaxAdded \in Nat
  BY AccessLens, AccessConstants
<1>3. x \in Listed(DomainRuleSet) /\ x.id = added
  BY <1>2, AccessConstants, ListedIs
<1> HIDE DEF x
<1>4. /\ q \in Seq(Listed(DomainRuleSet)) /\ Len(q) = Len(domainRules) + 1 /\ Ranked(q)
      /\ \A i \in 1..Len(q) : q[i].id <= x.id
  BY <1>3, AccessConstants, AccessLens, PlacedIs
<1> HIDE DEF q
<1>5. RuleList(DomainRuleSet, q, added')
  <2>1. \A i \in 1..Len(q) : q[i].id < added + 1
    <3> SUFFICES ASSUME NEW i \in 1..Len(q) PROVE q[i].id < added + 1
      OBVIOUS
    <3>1. q[i].id \in Nat
      BY <1>4, AccessConstants, ListedRanks
    <3>2. q[i].id <= added
      BY <1>3, <1>4
    <3> QED BY <1>2, <3>1, <3>2
  <2> QED BY <1>1, <1>4, <2>1 DEF RuleList
<1>6. RuleList(RuleSet, rules', added')
  BY <1>1, MoreAdded
<1>7. AccessTypeOK'
  <2>1. Len(rules') + Len(domainRules') <= added' /\ added' \in 0..MaxAdded
    BY <1>1, <1>2, <1>4, AccessLens
  <2> QED BY <1>1, <2>1 DEF AccessInv, AccessTypeOK
<1>8. Remembered(verdicts', rules')
  BY <1>1 DEF AccessInv, Remembered
<1> QED BY <1>1, <1>5, <1>6, <1>7, <1>8 DEF AccessInv

LEMMA RemoveDomainRuleKeeps ==
  ASSUME AccessInv, NEW pattern, RemoveDomainRule(pattern)
  PROVE  AccessInv'
<1> DEFINE I == {i \in DOMAIN domainRules : domainRules[i].pattern # pattern}
           q == Kept(domainRules, I)
<1>1. /\ domainRules' = q /\ rules' = rules /\ verdicts' = verdicts
      /\ nodeTags' = nodeTags /\ tick' = tick /\ added' = added
  BY DEF RemoveDomainRule
<1>2. domainRules \in Seq(Listed(DomainRuleSet)) /\ DOMAIN domainRules = 1..Len(domainRules)
  BY AccessLens
<1>3. I \in SUBSET (1..Len(domainRules))
  BY <1>2
<1> HIDE DEF I
<1>4. Part(Listed(DomainRuleSet), domainRules, q, I)
  BY <1>2, <1>3, KeptIsPart
<1> HIDE DEF q
<1>5. RuleList(DomainRuleSet, q, added) /\ Len(q) \in Nat /\ Len(q) <= Len(domainRules)
  <2>1. RuleList(DomainRuleSet, domainRules, added)
    BY DEF AccessInv
  <2> QED BY <1>2, <1>3, <1>4, <2>1, PartRanked
<1>6. AccessTypeOK'
  <2>1. Len(rules') + Len(domainRules') <= added'
    BY <1>1, <1>5, AccessLens
  <2> QED BY <1>1, <2>1 DEF AccessInv, AccessTypeOK
<1>7. RuleList(RuleSet, rules', added') /\ RuleList(DomainRuleSet, domainRules', added')
  BY <1>1, <1>5 DEF AccessInv, RuleList
<1>8. Remembered(verdicts', rules')
  BY <1>1 DEF AccessInv, Remembered
<1> QED BY <1>6, <1>7, <1>8 DEF AccessInv

LEMMA CheckAccessKeeps ==
  ASSUME AccessInv, NEW request \in Accesses, CheckAccess(request)
  PROVE  AccessInv'
<1> DEFINE v == [allowed |-> Verdict(request), time |-> tick, tags |-> TagsOf(request)]
<1>1. /\ verdicts' = [q \in DOMAIN verdicts \cup {request} |-> IF q = request THEN v ELSE verdicts[q]]
      /\ rules' = rules /\ domainRules' = domainRules
      /\ nodeTags' = nodeTags /\ tick' = tick /\ added' = added
  BY DEF CheckAccess
<1>2. v.allowed = Says(rules, request, v.tags, v.time)
  <2>1. v.time = tick /\ v.tags = TagsOf(request)
    OBVIOUS
  <2>2. v.allowed = Verdict(request)
    OBVIOUS
  <2>3. Verdict(request) = Says(rules, request, TagsOf(request), tick)
    <3>1. Verdict(request) \in BOOLEAN
      BY DEF Verdict
    <3>2. Says(rules, request, TagsOf(request), tick) \in BOOLEAN
      BY DEF Says
    <3> QED BY <3>1, <3>2, VerdictIs
  <2> QED BY <2>1, <2>2, <2>3
<1> HIDE DEF v
<1>3. \A q \in DOMAIN verdicts' : verdicts'[q] = IF q = request THEN v ELSE verdicts[q]
  BY <1>1
<1>4. DOMAIN verdicts' = DOMAIN verdicts \cup {request}
  BY <1>1
<1>5. Remembered(verdicts', rules')
  <2> SUFFICES ASSUME NEW q \in DOMAIN verdicts'
               PROVE  verdicts'[q].allowed = Says(rules, q, verdicts'[q].tags, verdicts'[q].time)
    BY <1>1 DEF Remembered
  <2>1. CASE q = request
    BY <1>2, <1>3, <2>1
  <2>2. CASE q # request
    <3>1. q \in DOMAIN verdicts /\ verdicts'[q] = verdicts[q]
      BY <1>3, <1>4, <2>2
    <3>2. verdicts[q].allowed = Says(rules, q, verdicts[q].tags, verdicts[q].time)
      BY <3>1 DEF AccessInv, Remembered
    <3> QED BY <3>1, <3>2
  <2> QED BY <2>1, <2>2
<1>6. AccessTypeOK' /\ RuleList(RuleSet, rules', added') /\ RuleList(DomainRuleSet, domainRules', added')
  BY <1>1, <1>4 DEF AccessInv, AccessTypeOK, RuleList
<1> QED BY <1>5, <1>6 DEF AccessInv

LEMMA AccessStep == AccessInv /\ [AccessNext]_accessVars => AccessInv'
<1> SUFFICES ASSUME AccessInv, [AccessNext]_accessVars PROVE AccessInv'
  OBVIOUS
<1>1. ASSUME NEW rule \in RuleSet, AddRule(rule) PROVE AccessInv'
  BY <1>1, AddRuleKeeps
<1>2. ASSUME NEW i \in DOMAIN rules, RemoveRule(i) PROVE AccessInv'
  BY <1>2, RemoveRuleKeeps
<1>3. ASSUME NEW rule \in DomainRuleSet, AddDomainRule(rule) PROVE AccessInv'
  BY <1>3, AddDomainRuleKeeps
<1>4. ASSUME NEW rule \in DomainRuleSet, RemoveDomainRule(rule.pattern) PROVE AccessInv'
  BY <1>4, RemoveDomainRuleKeeps
<1>5. ASSUME NEW request \in Accesses, CheckAccess(request) PROVE AccessInv'
  BY <1>5, CheckAccessKeeps
<1>6. ASSUME NEW tags \in SUBSET NodeTags, SetNodeTags(tags) PROVE AccessInv'
  BY <1>6 DEF SetNodeTags, AccessInv, AccessTypeOK, RuleList, Remembered
<1>7. CASE AccessTick
  <2>1. /\ tick < LastTick /\ tick' = tick + 1 /\ rules' = rules /\ domainRules' = domainRules
        /\ verdicts' = verdicts /\ nodeTags' = nodeTags /\ added' = added
    BY <1>7 DEF AccessTick
  <2>2. tick' \in 0..LastTick
    BY <2>1, AccessConstants DEF AccessInv, AccessTypeOK
  <2> QED BY <2>1, <2>2 DEF AccessInv, AccessTypeOK, RuleList, Remembered
<1>8. CASE UNCHANGED accessVars
  BY <1>8 DEF accessVars, AccessInv, AccessTypeOK, RuleList, Remembered
<1> QED BY <1>1, <1>2, <1>3, <1>4, <1>5, <1>6, <1>7, <1>8 DEF AccessNext

LEMMA AccessGuarantee ==
  ASSUME AccessInv
  PROVE  AccessTypeOK /\ RulesDecide
<1>1. \A name \in Names : TagFor(name) = {r.tag : r \in Decisive({r \in ToSet(domainRules) : name \in r.pattern})}
  BY TagIs
<1>2. \A q \in DOMAIN verdicts : verdicts[q].allowed =
         \A r \in Decisive({r \in ToSet(rules) : Applies(r, q, verdicts[q].tags, verdicts[q].time)}) :
           r.action = "allow"
  BY DEF AccessInv, Remembered, Says
<1>3. RulesDecide
  BY <1>1, <1>2 DEF RulesDecide
<1> QED BY <1>3 DEF AccessInv

----------------------------------------------------------------------------
(* Traffic: what is in no row is still in the counters.                      *)

Counts == [Peers -> [0..Minutes -> Nat]]

TrafficInv ==
  /\ TrafficTypeOK
  /\ rows \in Counts /\ carried \in Counts /\ stats \in [Peers -> Nat] /\ oldest \in Nat
  /\ ~available => oldest = Minutes + 1
  /\ \A c \in Peers, m \in 0..Minutes : m > minute => carried[c][m] = 0
  /\ NothingUncounted

LEMMA TrafficFacts ==
  ASSUME TrafficInv
  PROVE  /\ Minutes \in Nat /\ Retention \in Nat /\ minute \in 0..Minutes /\ minute \in Nat /\ oldest \in Nat
         /\ \A c \in Peers : stats[c] \in Nat
         /\ \A c \in Peers, m \in 0..Minutes : rows[c][m] \in Nat /\ carried[c][m] \in Nat
<1>1. Minutes \in Nat /\ Retention \in Nat /\ minute \in 0..Minutes /\ oldest \in Nat
  BY TrafficAssumption DEF TrafficInv, TrafficTypeOK
<1> QED BY <1>1 DEF TrafficInv, Counts

LEMMA TrafficStart == TrafficInit => TrafficInv
<1> SUFFICES ASSUME TrafficInit PROVE TrafficInv
  OBVIOUS
<1>1. /\ available = FALSE /\ registered = {} /\ minute = 0 /\ oldest = Minutes + 1
      /\ stats = [c \in Peers |-> 0]
      /\ rows = [c \in Peers |-> [m \in 0..Minutes |-> 0]]
      /\ carried = [c \in Peers |-> [m \in 0..Minutes |-> 0]]
  BY DEF TrafficInit
<1>2. Minutes \in Nat
  BY TrafficAssumption
<1>3. TrafficTypeOK /\ rows \in Counts /\ carried \in Counts /\ stats \in [Peers -> Nat] /\ oldest \in Nat
  <2>1. stats \in [Peers -> Nat] /\ \A c \in Peers : stats[c] \in Nat
    BY <1>1
  <2>2. [m \in 0..Minutes |-> 0] \in [0..Minutes -> Nat]
    OBVIOUS
  <2>3. rows \in Counts /\ carried \in Counts
    BY <1>1, <2>2 DEF Counts
  <2>4. available \in BOOLEAN /\ registered \subseteq Peers
    BY <1>1
  <2>5. minute \in 0..Minutes /\ oldest \in Nat
    BY <1>1, <1>2
  <2> QED BY <2>1, <2>3, <2>4, <2>5 DEF TrafficTypeOK
<1>4. NothingUncounted
  BY <1>1, <1>2 DEF NothingUncounted
<1> QED BY <1>1, <1>3, <1>4 DEF TrafficInv

(* Traffic of a node is added to the row of the minute.                      *)
LEMMA RecordAdds ==
  ASSUME TrafficInv, NEW c \in Peers, NEW bytes \in Nat, RecordTraffic(c, bytes)
  PROVE  /\ rows' \in Counts
         /\ \A d \in Peers, m \in 0..Minutes :
              /\ rows'[d][m] >= rows[d][m]
              /\ available /\ d = c /\ m = minute => rows'[d][m] = rows[d][m] + bytes
<1>1. CASE available
  <2>1. rows' = [rows EXCEPT ![c][minute] = @ + bytes]
    BY <1>1 DEF RecordTraffic
  <2>2. \A d \in Peers, m \in 0..Minutes :
          rows'[d][m] = IF d = c /\ m = minute THEN rows[d][m] + bytes ELSE rows[d][m]
    BY <2>1, TrafficFacts DEF TrafficInv, Counts
  <2>3. rows' \in Counts
    <3>1. rows[c][minute] + bytes \in Nat
      BY TrafficFacts
    <3> QED BY <2>1, <3>1, TrafficFacts DEF TrafficInv, Counts
  <2> QED BY <2>2, <2>3, TrafficFacts
<1>2. CASE ~available
  <2>1. rows' = rows
    BY <1>2 DEF RecordTraffic
  <2> QED BY <1>2, <2>1, TrafficFacts DEF TrafficInv
<1> QED BY <1>1, <1>2

LEMMA TrackBytesKeeps ==
  ASSUME TrafficInv, NEW c \in Peers, NEW bytes \in Amounts, TrackBytes(c, bytes)
  PROVE  TrafficInv'
<1>1. bytes \in Nat
  BY TrafficAssumption
<1>2. /\ stats' = IF c \in registered THEN [stats EXCEPT ![c] = @ + bytes] ELSE stats
      /\ RecordTraffic(c, bytes)
      /\ carried' = [carried EXCEPT ![c][minute] = @ + bytes]
      /\ available' = available /\ registered' = registered /\ minute' = minute /\ oldest' = oldest
  BY DEF TrackBytes
<1>3. /\ rows' \in Counts
      /\ \A d \in Peers, m \in 0..Minutes :
           /\ rows'[d][m] >= rows[d][m] /\ rows'[d][m] \in Nat
           /\ available /\ d = c /\ m = minute => rows'[d][m] = rows[d][m] + bytes
  BY <1>1, <1>2, RecordAdds DEF Counts
<1>4. \A d \in Peers, m \in 0..Minutes :
        carried'[d][m] = IF d = c /\ m = minute THEN carried[d][m] + bytes ELSE carried[d][m]
  BY <1>2, TrafficFacts DEF TrafficInv, Counts
<1>5. carried' \in Counts
  <2>1. carried[c][minute] + bytes \in Nat
    BY <1>1, TrafficFacts
  <2> QED BY <1>2, <2>1, TrafficFacts DEF TrafficInv, Counts
<1>6. stats' \in [Peers -> Nat]
  <2>1. stats[c] + bytes \in Nat
    BY <1>1, TrafficFacts
  <2> QED BY <1>2, <2>1 DEF TrafficInv
<1>7. TrafficTypeOK'
  BY <1>2, <1>6 DEF TrafficInv, TrafficTypeOK
<1>8. \A d \in Peers, m \in 0..Minutes : m > minute => carried'[d][m] = 0
  BY <1>4, TrafficFacts DEF TrafficInv
<1>9. NothingUncounted'
  <2> SUFFICES ASSUME NEW d \in Peers, NEW m \in oldest..minute PROVE rows'[d][m] >= carried'[d][m]
    BY <1>2 DEF NothingUncounted
  <2>1. m \in 0..Minutes /\ rows[d][m] >= carried[d][m]
    BY TrafficFacts DEF TrafficInv, NothingUncounted
  <2>2. available
    BY TrafficFacts DEF TrafficInv
  <2> QED BY <1>1, <1>3, <1>4, <2>1, <2>2, TrafficFacts
<1> QED BY <1>2, <1>3, <1>5, <1>6, <1>7, <1>8, <1>9 DEF TrafficInv

(* Recording more than was carried, as at the end of a session.              *)
LEMMA MoreRecorded ==
  ASSUME TrafficInv, NEW c \in Peers, StatsEnded(c), registered' \subseteq Peers,
         stats' = [stats EXCEPT ![c] = 0], UNCHANGED <<available, minute, carried, oldest>>
  PROVE  TrafficInv'
<1>1. rows' \in Counts /\ \A d \in Peers, m \in 0..Minutes : rows'[d][m] >= rows[d][m] /\ rows'[d][m] \in Nat
  <2>1. CASE c \in registered
    <3>1. RecordTraffic(c, stats[c]) /\ stats[c] \in Nat
      BY <2>1, TrafficFacts DEF StatsEnded
    <3> QED BY <3>1, RecordAdds DEF Counts
  <2>2. CASE c \notin registered
    <3>1. rows' = rows
      BY <2>2 DEF StatsEnded
    <3> QED BY <3>1, TrafficFacts DEF TrafficInv
  <2> QED BY <2>1, <2>2
<1>2. stats' \in [Peers -> Nat] /\ TrafficTypeOK'
  BY DEF TrafficInv, TrafficTypeOK
<1>3. NothingUncounted'
  <2> SUFFICES ASSUME NEW d \in Peers, NEW m \in oldest..minute PROVE rows'[d][m] >= carried[d][m]
    BY DEF NothingUncounted
  <2>1. m \in 0..Minutes /\ rows[d][m] >= carried[d][m]
    BY TrafficFacts DEF TrafficInv, NothingUncounted
  <2> QED BY <1>1, <2>1, TrafficFacts
<1> QED BY <1>1, <1>2, <1>3 DEF TrafficInv

LEMMA CleanupKeeps ==
  ASSUME TrafficInv, CleanupOldData
  PROVE  TrafficInv'
<1> DEFINE cutoff == minute - Retention
<1>1. /\ available /\ minute >= Retention
      /\ rows' = [c \in Peers |-> [m \in 0..Minutes |-> IF m < cutoff THEN 0 ELSE rows[c][m]]]
      /\ oldest' = IF oldest < cutoff THEN cutoff ELSE oldest
      /\ UNCHANGED <<available, registered, stats, minute, carried>>
  BY DEF CleanupOldData, Deleted
<1>2. cutoff \in Nat
  BY <1>1, TrafficFacts
<1> HIDE DEF cutoff
<1>3. rows' \in Counts
  BY <1>1, TrafficFacts DEF Counts
<1>4. NothingUncounted'
  <2> SUFFICES ASSUME NEW d \in Peers, NEW m \in oldest'..minute PROVE rows'[d][m] >= carried[d][m]
    BY <1>1 DEF NothingUncounted
  <2>1. oldest' \in Nat /\ oldest' >= cutoff /\ oldest' >= oldest
    BY <1>1, <1>2, TrafficFacts
  <2>2. m \in oldest..minute /\ ~(m < cutoff) /\ m \in 0..Minutes
    BY <1>2, <2>1, TrafficFacts
  <2>3. rows'[d][m] = rows[d][m]
    BY <1>1, <2>2
  <2> QED BY <2>2, <2>3 DEF TrafficInv, NothingUncounted
<1>5. oldest' \in Nat
  BY <1>1, <1>2, TrafficFacts
<1> QED BY <1>1, <1>3, <1>4, <1>5 DEF TrafficInv, TrafficTypeOK

LEMMA TrafficStep == TrafficInv /\ [TrafficNext]_trafficVars => TrafficInv'
<1> SUFFICES ASSUME TrafficInv, [TrafficNext]_trafficVars PROVE TrafficInv'
  OBVIOUS
<1>1. ASSUME NEW c \in Peers, NEW bytes \in Amounts, TrackBytes(c, bytes) PROVE TrafficInv'
  BY <1>1, TrackBytesKeeps
<1>2. ASSUME NEW c \in Peers, AddNode(c) PROVE TrafficInv'
  <2>1. registered' \subseteq Peers
    BY <1>2 DEF AddNode, TrafficInv, TrafficTypeOK
  <2> QED BY <1>2, <2>1, MoreRecorded DEF AddNode
<1>3. ASSUME NEW c \in Peers, RemoveNode(c) PROVE TrafficInv'
  <2>1. registered' \subseteq Peers
    BY <1>3 DEF RemoveNode, TrafficInv, TrafficTypeOK
  <2> QED BY <1>3, <2>1, MoreRecorded DEF RemoveNode
<1>4. CASE CleanupOldData
  BY <1>4, CleanupKeeps
<1>5. CASE StorageReady
  <2>1. ~available /\ available' = TRUE /\ oldest' = minute + 1
        /\ UNCHANGED <<registered, stats, rows, minute, carried>>
    BY <1>5 DEF StorageReady
  <2>2. oldest' \in Nat /\ \A m \in oldest'..minute : FALSE
    BY <2>1, TrafficFacts
  <2> QED BY <2>1, <2>2 DEF TrafficInv, TrafficTypeOK, NothingUncounted
<1>6. CASE MinutePasses
  <2>1. minute < Minutes /\ minute' = minute + 1 /\ UNCHANGED <<available, registered, stats, rows, carried, oldest>>
    BY <1>6 DEF MinutePasses
  <2>2. minute' \in 0..Minutes /\ \A m \in 0..Minutes : m > minute + 1 => m > minute
    BY <2>1, TrafficFacts
  <2>3. NothingUncounted'
    <3> SUFFICES ASSUME NEW d \in Peers, NEW m \in oldest..(minute + 1) PROVE rows[d][m] >= carried[d][m]
      BY <2>1 DEF NothingUncounted
    <3>1. CASE m = minute + 1
      <4>1. m \in 0..Minutes /\ m > minute
        BY <2>1, <3>1, TrafficFacts
      <4> QED BY <4>1, TrafficFacts DEF TrafficInv
    <3>2. CASE m # minute + 1
      <4>1. m \in oldest..minute
        BY <3>2, TrafficFacts
      <4> QED BY <4>1 DEF TrafficInv, NothingUncounted
    <3> QED BY <3>1, <3>2
  <2> QED BY <2>1, <2>2, <2>3 DEF TrafficInv, TrafficTypeOK
<1>7. CASE UNCHANGED trafficVars
  BY <1>7 DEF trafficVars, TrafficInv, TrafficTypeOK, NothingUncounted
<1> QED BY <1>1, <1>2, <1>3, <1>4, <1>5, <1>6, <1>7 DEF TrafficNext

LEMMA TrafficGuarantee ==
  ASSUME TrafficInv
  PROVE  TrafficTypeOK /\ NothingUncounted
BY DEF TrafficInv

----------------------------------------------------------------------------
(* Proxy passwords: no two entries share one, so the first that fits is the  *)
(* only one.                                                                 *)

Entries == [id : Nat, password : Passwords, tag : Tagging, clientId : Forcing, enabled : BOOLEAN]

(* No two entries have an id or a password in common.                        *)
Apart(list) ==
  \A i, j \in 1..Len(list) : i # j => list[i].id # list[j].id /\ list[i].password # list[j].password

EntryList(list, n) ==
  /\ list \in Seq(Entries) /\ Apart(list)
  /\ \A i \in 1..Len(list) : Exclusive(list[i]) /\ list[i].id < n

PasswordsInv == PasswordsTypeOK /\ EntryList(entries, created)

LEMMA EntryFacts ==
  ASSUME PasswordsInv
  PROVE  /\ entries \in Seq(Entries) /\ Len(entries) \in Nat /\ DOMAIN entries = 1..Len(entries)
         /\ \A i \in 1..Len(entries) :
              /\ entries[i] \in Entries /\ Exclusive(entries[i])
              /\ entries[i].id < created /\ entries[i].id \in Nat
         /\ Apart(entries)
         /\ created \in Nat /\ MaxCreated \in Nat /\ created <= MaxCreated /\ Len(entries) <= created
<1>1. entries \in Seq(Entries)
  BY DEF PasswordsInv, EntryList
<1>2. \A i \in 1..Len(entries) : entries[i] \in Entries /\ entries[i].id \in Nat
  <2>1. \A e \in Entries : e.id \in Nat
    BY DEF Entries
  <2>2. \A i \in 1..Len(entries) : entries[i] \in Entries
    BY <1>1
  <2> QED BY <2>1, <2>2
<1>3. Len(entries) \in Nat /\ DOMAIN entries = 1..Len(entries)
  BY <1>1
<1>4. created \in Nat /\ MaxCreated \in Nat /\ created <= MaxCreated /\ Len(entries) <= created
  BY PasswordsAssumption DEF PasswordsInv, PasswordsTypeOK
<1> QED BY <1>1, <1>2, <1>3, <1>4 DEF PasswordsInv, EntryList

(* The types of the list follow from what it is.                             *)
LEMMA EntriesTyped ==
  ASSUME NEW list, NEW n, EntryList(list, n)
  PROVE  \A e \in ToSet(list) : e.password \in Passwords /\ e.tag \in Tagging /\ e.clientId \in Forcing
<1>1. list \in Seq(Entries) /\ DOMAIN list = 1..Len(list)
  BY DEF EntryList
<1>2. \A i \in 1..Len(list) : list[i] \in Entries
  BY <1>1
<1>3. \A e \in Entries : e.password \in Passwords /\ e.tag \in Tagging /\ e.clientId \in Forcing
  BY DEF Entries
<1> HIDE DEF Entries
<1> QED BY <1>1, <1>2, <1>3 DEF ToSet

LEMMA PasswordsStart == PasswordsInit => PasswordsInv
<1> SUFFICES ASSUME PasswordsInit PROVE PasswordsInv
  OBVIOUS
<1>1. entries = << >> /\ online = {} /\ created = 0
  BY DEF PasswordsInit
<1>2. Len(<< >>) = 0 /\ << >> \in Seq(Entries)
  OBVIOUS
<1>3. EntryList(<< >>, 0)
  BY <1>2 DEF EntryList, Apart
<1>4. PasswordsTypeOK
  BY <1>1, <1>2, <1>3, EntriesTyped, PasswordsAssumption DEF PasswordsTypeOK
<1> QED BY <1>1, <1>3, <1>4 DEF PasswordsInv

LEMMA NobodyHas ==
  ASSUME PasswordsInv, NEW p, NEW id, ~Taken(p, id)
  PROVE  \A j \in 1..Len(entries) : entries[j].password = p => entries[j].id = id
BY EntryFacts DEF Taken, ToSet

LEMMA CreateKeeps ==
  ASSUME PasswordsInv, Create
  PROVE  PasswordsInv'
<1>1. PICK p \in Passwords, tag \in Tagging, clientId \in Forcing, on \in BOOLEAN :
        LET entry == [id |-> created, password |-> p, tag |-> tag, clientId |-> clientId, enabled |-> on]
        IN /\ created < MaxCreated /\ Exclusive(entry) /\ ~Taken(p, created)
           /\ entries' = Append(entries, entry) /\ created' = created + 1
           /\ UNCHANGED online
  BY DEF Create
<1> DEFINE e == [id |-> created, password |-> p, tag |-> tag, clientId |-> clientId, enabled |-> on]
           n == Len(entries)
           q == Append(entries, e)
<1>2. /\ created < MaxCreated /\ Exclusive(e) /\ ~Taken(p, created)
      /\ entries' = q /\ created' = created + 1 /\ online' = online
  BY <1>1
<1>3. e \in Entries /\ e.id = created /\ e.password = p
  BY EntryFacts DEF Entries
<1> HIDE DEF e
<1>4. /\ q \in Seq(Entries) /\ Len(q) = n + 1 /\ n \in Nat
      /\ \A i \in 1..(n + 1) : q[i] = IF i = n + 1 THEN e ELSE entries[i]
      /\ \A i \in 1..(n + 1) : i # n + 1 => i \in 1..n
  BY <1>3, EntryFacts
<1> HIDE DEF q, n
<1>5. \A j \in 1..n : entries[j].password # p /\ entries[j].id # created
  BY <1>2, EntryFacts, NobodyHas DEF n
<1>6. Apart(q)
  <2> SUFFICES ASSUME NEW i \in 1..(n + 1), NEW j \in 1..(n + 1), i # j
               PROVE  q[i].id # q[j].id /\ q[i].password # q[j].password
    BY <1>4 DEF Apart
  <2>1. CASE i = n + 1
    BY <1>3, <1>4, <1>5, <2>1
  <2>2. CASE j = n + 1
    BY <1>3, <1>4, <1>5, <2>2
  <2>3. CASE i # n + 1 /\ j # n + 1
    BY <1>4, <2>3, EntryFacts DEF Apart, n
  <2> QED BY <2>1, <2>2, <2>3
<1>7. \A i \in 1..(n + 1) : Exclusive(q[i]) /\ q[i].id < created + 1
  <2> SUFFICES ASSUME NEW i \in 1..(n + 1) PROVE Exclusive(q[i]) /\ q[i].id < created + 1
    OBVIOUS
  <2>1. CASE i = n + 1
    BY <1>2, <1>3, <1>4, <2>1, EntryFacts
  <2>2. CASE i # n + 1
    <3>1. q[i] = entries[i] /\ i \in 1..n
      BY <1>4, <2>2
    <3> QED BY <3>1, EntryFacts DEF n
  <2> QED BY <2>1, <2>2
<1>8. EntryList(q, created + 1)
  BY <1>4, <1>6, <1>7 DEF EntryList
<1>9. PasswordsTypeOK'
  <2>1. \A e2 \in ToSet(q) : e2.password \in Passwords /\ e2.tag \in Tagging /\ e2.clientId \in Forcing
    BY <1>8, EntriesTyped
  <2>2. Len(q) <= created + 1 /\ created + 1 \in 0..MaxCreated
    BY <1>2, <1>4, EntryFacts DEF n
  <2> QED BY <1>2, <2>1, <2>2 DEF PasswordsInv, PasswordsTypeOK
<1> QED BY <1>2, <1>8, <1>9 DEF PasswordsInv

(* An entry is replaced by one with its id and a password nobody else has.   *)
LEMMA Replaced ==
  ASSUME PasswordsInv, NEW i \in 1..Len(entries), NEW e \in Entries,
         e.id = entries[i].id, Exclusive(e), \A j \in 1..Len(entries) : j # i => entries[j].password # e.password,
         entries' = [entries EXCEPT ![i] = e], UNCHANGED <<online, created>>
  PROVE  PasswordsInv'
<1> DEFINE q == [entries EXCEPT ![i] = e]
<1>1. q \in Seq(Entries) /\ Len(q) = Len(entries)
      /\ \A j \in 1..Len(entries) : q[j] = IF j = i THEN e ELSE entries[j]
  BY EntryFacts, ExceptSeq
<1>2. entries' = q
  OBVIOUS
<1> HIDE DEF q
<1>3. Apart(q)
  <2> SUFFICES ASSUME NEW j \in 1..Len(entries), NEW k \in 1..Len(entries), j # k
               PROVE  q[j].id # q[k].id /\ q[j].password # q[k].password
    BY <1>1 DEF Apart
  <2>1. entries[j].id # entries[k].id /\ entries[j].password # entries[k].password
    BY EntryFacts DEF Apart
  <2> QED BY <1>1, <2>1
<1>4. \A j \in 1..Len(entries) : Exclusive(q[j]) /\ q[j].id < created
  BY <1>1, EntryFacts
<1>5. EntryList(q, created)
  BY <1>1, <1>3, <1>4 DEF EntryList
<1>6. PasswordsTypeOK'
  <2>1. \A e2 \in ToSet(q) : e2.password \in Passwords /\ e2.tag \in Tagging /\ e2.clientId \in Forcing
    BY <1>5, EntriesTyped
  <2> QED BY <1>1, <1>2, <2>1 DEF PasswordsInv, PasswordsTypeOK
<1> QED BY <1>2, <1>5, <1>6 DEF PasswordsInv

LEMMA UpdateKeeps ==
  ASSUME PasswordsInv, NEW i \in DOMAIN entries, Update(i)
  PROVE  PasswordsInv'
<1>0. i \in 1..Len(entries) /\ entries[i] \in Entries
  BY EntryFacts
<1> DEFINE Patch(tag, clientId) == [tag |-> tag, clientId |-> clientId]
           Next(p, tag, clientId, on) ==
             [PatchedRoute(entries[i], Patch(tag, clientId)) EXCEPT !.password = p, !.enabled = on]
<1>1. PICK p \in Passwords, tag \in Tagging \cup {Same}, clientId \in Forcing \cup {Same}, on \in BOOLEAN :
        LET next == Next(p, tag, clientId, on)
        IN /\ UpdateValid(next, Patch(tag, clientId)) /\ ~Taken(p, next.id)
           /\ entries' = [entries EXCEPT ![i] = next]
           /\ UNCHANGED <<online, created>>
  BY DEF Update
<1> DEFINE next == Next(p, tag, clientId, on)
           route == PatchedRoute(entries[i], Patch(tag, clientId))
<1>2. /\ Exclusive(next) /\ ~Taken(p, next.id)
      /\ entries' = [entries EXCEPT ![i] = next] /\ UNCHANGED <<online, created>>
  BY <1>1 DEF UpdateValid
<1>3. /\ route = [id |-> entries[i].id, password |-> entries[i].password,
                  tag |-> IF tag # Same THEN tag ELSE entries[i].tag,
                  clientId |-> IF clientId # Same THEN clientId ELSE entries[i].clientId,
                  enabled |-> entries[i].enabled]
  <2>1. DOMAIN entries[i] = {"id", "password", "tag", "clientId", "enabled"}
    BY <1>0 DEF Entries
  <2> QED BY <2>1 DEF PatchedRoute
<1> DEFINE newTag == IF tag # Same THEN tag ELSE entries[i].tag
           newId == IF clientId # Same THEN clientId ELSE entries[i].clientId
<1>4. newTag \in Tagging /\ newId \in Forcing /\ entries[i].id \in Nat
  BY <1>0 DEF Entries
<1>5. next = [id |-> entries[i].id, password |-> p, tag |-> newTag, clientId |-> newId, enabled |-> on]
  <2> HIDE DEF newTag, newId
  <2>1. route = [id |-> entries[i].id, password |-> entries[i].password, tag |-> newTag,
                 clientId |-> newId, enabled |-> entries[i].enabled]
    BY <1>3 DEF newTag, newId
  <2>2. next = [route EXCEPT !.password = p, !.enabled = on]
    OBVIOUS
  <2> HIDE DEF next, route
  <2> QED BY <2>1, <2>2
<1> HIDE DEF next, newTag, newId
<1>6. next \in Entries /\ next.id = entries[i].id /\ next.password = p
  BY <1>4, <1>5 DEF Entries
<1>7. \A j \in 1..Len(entries) : j # i => entries[j].password # next.password
  <2>1. \A j \in 1..Len(entries) : entries[j].password = p => entries[j].id = next.id
    BY <1>2, NobodyHas
  <2> QED BY <1>0, <1>6, <2>1, EntryFacts DEF Apart
<1> QED BY <1>0, <1>2, <1>6, <1>7, Replaced

LEMMA RegenerateKeeps ==
  ASSUME PasswordsInv, NEW i \in DOMAIN entries, Regenerate(i)
  PROVE  PasswordsInv'
<1>0. i \in 1..Len(entries) /\ entries[i] \in Entries
  BY EntryFacts
<1>1. PICK p \in Generated : entries' = [entries EXCEPT ![i].password = p] /\ UNCHANGED <<online, created>>
  BY DEF Regenerate
<1> DEFINE next == [entries[i] EXCEPT !.password = p]
<1>2. p \in Passwords /\ \A j \in 1..Len(entries) : entries[j].password # p
  BY EntryFacts DEF Generated, ToSet
<1>3. next \in Entries /\ next.id = entries[i].id /\ next.password = p /\ next.tag = entries[i].tag
      /\ next.clientId = entries[i].clientId
  BY <1>0, <1>2 DEF Entries
<1>4. entries' = [entries EXCEPT ![i] = next]
  BY <1>0, <1>1
<1> HIDE DEF next
<1>5. Exclusive(next)
  BY <1>0, <1>3, EntryFacts DEF Exclusive
<1> QED BY <1>0, <1>1, <1>2, <1>3, <1>4, <1>5, Replaced

LEMMA RemovePasswordKeeps ==
  ASSUME PasswordsInv, NEW i \in DOMAIN entries, RemovePassword(i)
  PROVE  PasswordsInv'
<1> DEFINE q == RemoveAt(entries, i)
           I == (1..Len(entries)) \ {i}
<1>1. entries' = q /\ online' = online /\ created' = created
  BY DEF RemovePassword
<1>2. i \in 1..Len(entries) /\ entries \in Seq(Entries)
  BY EntryFacts
<1>3. Part(Entries, entries, q, I)
  BY <1>2, RemoveIsPart
<1>4. I \in SUBSET (1..Len(entries))
  OBVIOUS
<1> HIDE DEF q, I
<1>5. q \in Seq(Entries) /\ Len(q) \in Nat /\ Len(q) <= Len(entries) /\ OneToOne(entries, q, I)
  BY <1>2, <1>3, <1>4, PartRises, PartIsOne
<1>6. PICK f \in [1..Len(q) -> I] :
        /\ \A j \in 1..Len(q) : q[j] = entries[f[j]]
        /\ \A j, k \in 1..Len(q) : f[j] = f[k] => j = k
  BY <1>5 DEF OneToOne
<1>7. \A j \in 1..Len(q) : f[j] \in 1..Len(entries)
  BY <1>4
<1>8. Apart(q)
  <2> SUFFICES ASSUME NEW j \in 1..Len(q), NEW k \in 1..Len(q), j # k
               PROVE  q[j].id # q[k].id /\ q[j].password # q[k].password
    BY DEF Apart
  <2>1. f[j] # f[k] /\ f[j] \in 1..Len(entries) /\ f[k] \in 1..Len(entries)
    BY <1>6, <1>7
  <2> QED BY <1>6, <2>1, EntryFacts DEF Apart
<1>9. \A j \in 1..Len(q) : Exclusive(q[j]) /\ q[j].id < created
  BY <1>6, <1>7, EntryFacts
<1>10. EntryList(q, created)
  BY <1>5, <1>8, <1>9 DEF EntryList
<1>11. PasswordsTypeOK'
  <2>1. \A e2 \in ToSet(q) : e2.password \in Passwords /\ e2.tag \in Tagging /\ e2.clientId \in Forcing
    BY <1>10, EntriesTyped
  <2>2. Len(q) <= created
    BY <1>5, EntryFacts
  <2> QED BY <1>1, <2>1, <2>2 DEF PasswordsInv, PasswordsTypeOK
<1> QED BY <1>1, <1>10, <1>11 DEF PasswordsInv

LEMMA PasswordsStep == PasswordsInv /\ [PasswordsNext]_passwordVars => PasswordsInv'
<1> SUFFICES ASSUME PasswordsInv, [PasswordsNext]_passwordVars PROVE PasswordsInv'
  OBVIOUS
<1>1. CASE Create
  BY <1>1, CreateKeeps
<1>2. ASSUME NEW i \in DOMAIN entries, Update(i) PROVE PasswordsInv'
  BY <1>2, UpdateKeeps
<1>3. ASSUME NEW i \in DOMAIN entries, Regenerate(i) PROVE PasswordsInv'
  BY <1>3, RegenerateKeeps
<1>4. ASSUME NEW i \in DOMAIN entries, RemovePassword(i) PROVE PasswordsInv'
  BY <1>4, RemovePasswordKeeps
<1>5. ASSUME NEW n \in NodeIds, NodeChanges(n) PROVE PasswordsInv'
  <2>1. entries' = entries /\ created' = created /\ online' \subseteq NodeIds
    BY <1>5 DEF NodeChanges, PasswordsInv, PasswordsTypeOK
  <2> QED BY <2>1 DEF PasswordsInv, PasswordsTypeOK
<1>6. CASE UNCHANGED passwordVars
  BY <1>6 DEF passwordVars, PasswordsInv, PasswordsTypeOK
<1> QED BY <1>1, <1>2, <1>3, <1>4, <1>5, <1>6 DEF PasswordsNext

LEMMA PasswordsGuarantee ==
  ASSUME PasswordsInv
  PROVE  PasswordsTypeOK /\ EachToItsRoute
<1>1. PasswordsTypeOK
  BY DEF PasswordsInv
<1>2. ASSUME NEW e \in ToSet(entries), NEW configUser \in BOOLEAN,
             e.enabled, ~(configUser /\ e.password = ConfigPassword)
      PROVE  Resolve(configUser, e.password) = {Route(e.tag, e.clientId)} /\ Exclusive(e)
  <2>1. PICK i \in 1..Len(entries) : e = entries[i]
    BY EntryFacts DEF ToSet
  <2> DEFINE I == {j \in 1..Len(entries) : entries[j].enabled /\ entries[j].password = e.password}
  <2>2. SelectInSeq(entries, LAMBDA f : f.enabled /\ f.password = e.password) = IF I # {} THEN Min(I) ELSE 0
    BY DEF SelectInSeq
  <2>3. I = {i}
    <3>1. i \in I
      BY <1>2, <2>1
    <3>2. ASSUME NEW j \in I PROVE j = i
      BY <2>1, EntryFacts DEF Apart
    <3> QED BY <3>1, <3>2
  <2> HIDE DEF I
  <2>4. Min(I) = i
    <3>1. I \in SUBSET (1..Len(entries)) /\ I # {} /\ Len(entries) \in Nat
      BY <2>3, EntryFacts
    <3>2. Min(I) \in I
      BY <3>1, MinIs
    <3> QED BY <2>3, <3>2
  <2>5. i # 0 /\ I # {}
    BY <2>3
  <2>6. Resolve(configUser, e.password) = {Route(entries[i].tag, entries[i].clientId)}
    BY <1>2, <2>2, <2>4, <2>5 DEF Resolve
  <2> QED BY <2>1, <2>6, EntryFacts
<1> QED BY <1>1, <1>2 DEF EachToItsRoute

----------------------------------------------------------------------------
(* Settings: what is live is what a start would make of the rows in the      *)
(* database, but for settings that a reset leaves as they are, and the file  *)
(* has the same unless a save is due.                                        *)

(* What a start makes of stored rows.                                        *)
Restored(c, g) == IF c[g] = NoRow THEN Base[g] ELSE Patched(Base[g], c[g])
OnFile == IF file = Missing THEN Empty ELSE file

StoredRows == {c \in Contents : \A g \in Groups : c[g] = NoRow \/ c[g] \in Patches(g)}
Agree(v, c) == \A g \in Groups : \A f \in Lasting(g, c[g]) : v[g][f] = Restored(c, g)[f]
Values(v) == DOMAIN v = Groups /\ \A g \in Groups : v[g] \in [Fields[g] -> Setting]

SettingsInv ==
  /\ db \in StoredRows \cup {NotOpen} /\ file \in StoredRows \cup {Missing}
  /\ dirty \in BOOLEAN /\ failed \in BOOLEAN
  /\ saving \in {"no", "start", "timer", "cleanup", "close"} /\ changes \in 0..MaxChanges
  /\ live \in [Groups -> UNION {[Fields[g] -> Setting] : g \in Groups}]
  /\ Values(live) /\ Values(atSave)
  /\ saving # "no" => db # NotOpen
  /\ saving = "start" => db = OnFile
  /\ db # NotOpen /\ saving # "start" => Agree(live, db)
  /\ Agree(atSave, OnFile)
  /\ UnsavedIsDirty

LEMMA ConfigTypes ==
  /\ Keys = Groups /\ Values(Base) /\ MaxChanges \in Nat
  /\ NoRow \notin Rows /\ \A g \in Groups : Patches(g) \subseteq Rows
  /\ NotOpen \notin StoredRows /\ Missing \notin StoredRows
  /\ Empty \in StoredRows /\ \A g \in Groups : Empty[g] = NoRow
BY SettingsAssumption, StorageAssumption DEF Values, StoredRows, Empty, Contents

LEMMA LastingIs ==
  ASSUME NEW g \in Groups, NEW row
  PROVE  /\ row = NoRow => Lasting(g, row) = TakenBack(g)
         /\ row # NoRow => Lasting(g, row) = (IF g = "client" THEN DOMAIN row ELSE Fields[g])
         /\ TakenBack(g) \subseteq Fields[g] \ (LeftAsIs(g) \cup NotTaken(g))
BY DEF Lasting, TakenBack

LEMMA GivenIs ==
  ASSUME NEW g \in Groups
  PROVE  /\ DOMAIN Given[g] \subseteq Fields[g] /\ \A f \in DOMAIN Given[g] : Given[g][f] \in Setting
         /\ LeftAsIs(g) \subseteq Fields[g]
<1>1. PICK fs \in SUBSET Fields[g] : Given[g] \in [fs -> Setting]
  BY SettingsAssumption
<1>2. DOMAIN Given[g] = fs /\ \A f \in fs : Given[g][f] \in Setting
  BY <1>1
<1>3. NotTaken(g) \subseteq DOMAIN Given[g]
  BY DEF NotTaken
<1>4. LeftAsIs(g) \in {Fields[g] \ DOMAIN Given[g], NotTaken(g), {}}
  BY DEF LeftAsIs
<1> QED BY <1>2, <1>3, <1>4

(* What a reset leaves of what was live, and what it takes back.             *)
LEMMA DefaultIs ==
  ASSUME NEW g \in Groups, live[g] \in [Fields[g] -> Setting]
  PROVE  /\ Default(g) \in [Fields[g] -> Setting]
         /\ \A f \in TakenBack(g) : Default(g)[f] = Base[g][f]
<1> DEFINE p == Patched(Base[g], Given[g])
<1>1. Base[g] \in [Fields[g] -> Setting]
  BY ConfigTypes DEF Values
<1>2. \A f \in Fields[g] : p[f] = (IF f \in DOMAIN Given[g] THEN Given[g][f] ELSE Base[g][f]) /\ p[f] \in Setting
  BY <1>1, GivenIs DEF Patched
<1> HIDE DEF p
<1>3. Default(g) = [f \in Fields[g] |-> IF f \in LeftAsIs(g) THEN live[g][f] ELSE p[f]]
  BY DEF Default, p
<1>4. Default(g) \in [Fields[g] -> Setting]
  BY <1>2, <1>3
<1>5. ASSUME NEW f \in TakenBack(g) PROVE Default(g)[f] = Base[g][f]
  <2>1. f \in Fields[g] /\ f \notin LeftAsIs(g) /\ f \notin NotTaken(g)
    BY LastingIs
  <2>2. Default(g)[f] = p[f]
    BY <1>3, <2>1
  <2> QED BY <1>2, <2>1, <2>2 DEF NotTaken
<1> QED BY <1>4, <1>5

LEMMA PatchIs ==
  ASSUME NEW g \in Groups, NEW patch \in Patches(g)
  PROVE  \E fs \in SUBSET Fields[g] : fs # {} /\ patch \in [fs -> Setting]
BY DEF Patches

LEMMA PatchedIs ==
  ASSUME NEW g \in Groups, NEW config \in [Fields[g] -> Setting], NEW patch \in Patches(g)
  PROVE  /\ Patched(config, patch) \in [Fields[g] -> Setting]
         /\ Patched(config, patch) \in Patches(g)
<1>1. PICK fs \in SUBSET Fields[g] : fs # {} /\ patch \in [fs -> Setting]
  BY PatchIs
<1>2. DOMAIN config = Fields[g] /\ DOMAIN patch = fs
  BY <1>1
<1>3. Patched(config, patch) = [f \in Fields[g] |-> IF f \in fs THEN patch[f] ELSE config[f]]
  BY <1>2 DEF Patched
<1>4. Patched(config, patch) \in [Fields[g] -> Setting]
  BY <1>1, <1>3
<1>5. Fields[g] # {} /\ Fields[g] \in (SUBSET Fields[g]) \ {{}}
  BY <1>1
<1> QED BY <1>4, <1>5 DEF Patches

(* A complete row gives itself back.                                         *)
LEMMA CompleteRow ==
  ASSUME NEW g \in Groups, NEW row \in [Fields[g] -> Setting]
  PROVE  Patched(Base[g], row) = row
<1>1. Base[g] \in [Fields[g] -> Setting]
  BY ConfigTypes DEF Values
<1>2. DOMAIN Base[g] = Fields[g] /\ DOMAIN row = Fields[g]
  BY <1>1
<1>3. Patched(Base[g], row) = [f \in Fields[g] |-> row[f]]
  BY <1>2 DEF Patched
<1> QED BY <1>3

LEMMA RestoredTypes ==
  ASSUME NEW c \in StoredRows
  PROVE  Values([g \in Groups |-> Restored(c, g)])
<1>1. ASSUME NEW g \in Groups PROVE Restored(c, g) \in [Fields[g] -> Setting]
  <2>1. Base[g] \in [Fields[g] -> Setting]
    BY ConfigTypes DEF Values
  <2>2. CASE c[g] = NoRow
    BY <2>1, <2>2 DEF Restored
  <2>3. CASE c[g] # NoRow
    <3>1. c[g] \in Patches(g)
      BY <2>3 DEF StoredRows
    <3> QED BY <2>1, <2>3, <3>1, PatchedIs DEF Restored
  <2> QED BY <2>2, <2>3
<1> QED BY <1>1 DEF Values

LEMMA SettingsStart == SettingsInit => SettingsInv
<1> SUFFICES ASSUME SettingsInit PROVE SettingsInv
  OBVIOUS
<1>1. /\ db = NotOpen /\ dirty = FALSE /\ saving = "no" /\ file = Missing /\ failed = FALSE
      /\ live = Base /\ atSave = Base /\ changes = 0
  BY DEF SettingsInit, StorageInit
<1>2. Base \in [Groups -> UNION {[Fields[g] -> Setting] : g \in Groups}]
  <2>1. \A g \in Groups : Base[g] \in UNION {[Fields[h] -> Setting] : h \in Groups}
    BY ConfigTypes DEF Values
  <2> QED BY <2>1, SettingsAssumption
<1>3. OnFile = Empty
  BY <1>1 DEF OnFile
<1>4. Agree(atSave, OnFile)
  <2> SUFFICES ASSUME NEW g \in Groups, NEW f \in Lasting(g, Empty[g])
               PROVE  Base[g][f] = Restored(Empty, g)[f]
    BY <1>1, <1>3 DEF Agree
  <2> QED BY ConfigTypes DEF Restored
<1>5. UnsavedIsDirty
  BY <1>1 DEF UnsavedIsDirty, Ready
<1>6. dirty \in BOOLEAN /\ failed \in BOOLEAN
  BY <1>1
<1> QED BY <1>1, <1>2, <1>4, <1>5, <1>6, ConfigTypes DEF SettingsInv

(* A row is written and what is in force changes with it.                    *)
AsStarted(g, v, row) ==
  \A f \in Lasting(g, row) : v[f] = (IF row = NoRow THEN Base[g] ELSE Patched(Base[g], row))[f]

LEMMA ChangeKeeps ==
  ASSUME SettingsInv, NEW g \in Groups, NEW v \in [Fields[g] -> Setting], NEW row, NEW c, Ready,
         row = NoRow \/ row \in Patches(g),
         AsStarted(g, v, row),
         live' = [live EXCEPT ![g] = v], db' = [db EXCEPT ![g] = row], dirty' = TRUE,
         changes' \in 0..MaxChanges, UNCHANGED <<saving, file, failed, atSave>>
  PROVE  SettingsInv'
<1>1. db \in StoredRows /\ saving = "no"
  BY DEF Ready, SettingsInv
<1>2. db \in [Groups -> Rows \cup {NoRow}] /\ row \in Rows \cup {NoRow}
  BY <1>1, ConfigTypes DEF StoredRows, Contents
<1>3. \A h \in Groups : db'[h] = IF h = g THEN row ELSE db[h]
  BY <1>2
<1>4. db' \in StoredRows
  <2>1. db' \in Contents
    BY <1>2, ConfigTypes DEF Contents
  <2> QED BY <1>1, <1>3, <2>1 DEF StoredRows
<1>5. \A h \in Groups : live'[h] = IF h = g THEN v ELSE live[h]
  BY DEF SettingsInv
<1>6. live' \in [Groups -> UNION {[Fields[h] -> Setting] : h \in Groups}] /\ Values(live')
  <2>1. v \in UNION {[Fields[h] -> Setting] : h \in Groups}
    OBVIOUS
  <2>2. DOMAIN live' = Groups
    BY DEF SettingsInv
  <2> QED BY <1>5, <2>1, <2>2 DEF SettingsInv, Values
<1>7. Agree(live', db')
  <2> SUFFICES ASSUME NEW h \in Groups, NEW f \in Lasting(h, db'[h]) PROVE live'[h][f] = Restored(db', h)[f]
    BY DEF Agree
  <2>1. CASE h = g
    BY <1>3, <1>5, <2>1 DEF Restored, AsStarted
  <2>2. CASE h # g
    <3>0. f \in Lasting(h, db[h])
      BY <1>3, <2>2
    <3>1. live[h][f] = Restored(db, h)[f]
      BY <1>1, <3>0, ConfigTypes DEF SettingsInv, Agree
    <3> QED BY <1>3, <1>5, <2>2, <3>1 DEF Restored
  <2> QED BY <2>1, <2>2
<1>8. OnFile' = OnFile
  BY DEF OnFile
<1>9. Values(atSave)' /\ Agree(atSave', OnFile')
  BY <1>8 DEF SettingsInv, Values
<1>10. UnsavedIsDirty'
  BY DEF UnsavedIsDirty
<1>11. saving' # "no" => FALSE
  BY <1>1
<1>12. dirty' \in BOOLEAN /\ failed' \in BOOLEAN
  BY DEF SettingsInv
<1>13. file' \in StoredRows \cup {Missing} /\ saving' \in {"no", "start", "timer", "cleanup", "close"}
  BY DEF SettingsInv
<1> QED BY <1>4, <1>6, <1>7, <1>9, <1>10, <1>11, <1>12, <1>13 DEF SettingsInv

LEMMA ApplyKeeps ==
  ASSUME SettingsInv, NEW g \in Groups, NEW patch \in Patches(g), Apply(g, patch)
  PROVE  SettingsInv'
<1> DEFINE v == Patched(live[g], patch)
           row == Stored(g, patch)
<1>1. /\ Ready /\ changes < MaxChanges /\ changes' = changes + 1
      /\ live' = [live EXCEPT ![g] = v]
      /\ db' = [db EXCEPT ![g] = row] /\ dirty' = TRUE
      /\ UNCHANGED <<saving, file, failed, atSave>>
  BY DEF Apply, Changing, Write, Written, SettingsInv
<1>2. v \in [Fields[g] -> Setting] /\ v \in Patches(g)
  BY PatchedIs DEF SettingsInv, Values
<1>3. row \in Patches(g)
  BY <1>2 DEF Stored
<1>4. g # "client" => row = v
  BY DEF Stored
<1>5. changes' \in 0..MaxChanges
  BY <1>1, ConfigTypes DEF SettingsInv
<1> HIDE DEF v, row
<1>6. AsStarted(g, v, row)
  <2> SUFFICES ASSUME NEW f \in Lasting(g, row) PROVE v[f] = Patched(Base[g], row)[f]
    BY <1>3, ConfigTypes DEF AsStarted
  <2>1. row # NoRow
    BY <1>3, ConfigTypes
  <2>2. CASE g = "client"
    <3>1. row = patch /\ f \in DOMAIN patch
      BY <2>1, <2>2, LastingIs DEF Stored, row
    <3>2. DOMAIN patch \subseteq Fields[g] /\ DOMAIN live[g] = Fields[g] /\ DOMAIN Base[g] = Fields[g]
      BY PatchIs, ConfigTypes DEF SettingsInv, Values
    <3>3. v[f] = patch[f] /\ Patched(Base[g], patch)[f] = patch[f]
      BY <3>1, <3>2 DEF Patched, v
    <3> QED BY <3>1, <3>3
  <2>3. CASE g # "client"
    <3>1. Patched(Base[g], v) = v
      BY <1>2, CompleteRow
    <3> QED BY <1>4, <2>3, <3>1
  <2> QED BY <2>2, <2>3
<1> QED BY <1>1, <1>2, <1>3, <1>5, <1>6, ChangeKeeps

LEMMA ResetKeeps ==
  ASSUME SettingsInv, NEW g \in Groups, Reset(g)
  PROVE  SettingsInv'
<1> DEFINE v == Default(g)
<1>1. /\ Ready /\ changes < MaxChanges /\ changes' = changes + 1
      /\ live' = [live EXCEPT ![g] = v]
      /\ db' = [db EXCEPT ![g] = NoRow] /\ dirty' = TRUE
      /\ UNCHANGED <<saving, file, failed, atSave>>
  BY DEF Reset, Changing, RemoveRow, Write, Written
<1>2. v \in [Fields[g] -> Setting] /\ \A f \in TakenBack(g) : v[f] = Base[g][f]
  BY DefaultIs DEF SettingsInv, Values
<1>3. changes' \in 0..MaxChanges
  BY <1>1, ConfigTypes DEF SettingsInv
<1> HIDE DEF v
<1>4. AsStarted(g, v, NoRow)
  BY <1>2, LastingIs DEF AsStarted
<1> QED BY <1>1, <1>2, <1>3, <1>4, ChangeKeeps

LEMMA StartKeeps ==
  ASSUME SettingsInv, Start
  PROVE  SettingsInv'
<1>1. /\ db = NotOpen /\ db' = OnFile /\ dirty' = FALSE /\ saving' = "start"
      /\ live' = Base /\ changes' = 0 /\ UNCHANGED <<file, failed, atSave>>
  BY DEF Start, Open, OnFile
<1>2. OnFile \in StoredRows /\ OnFile' = OnFile
  BY <1>1, ConfigTypes DEF SettingsInv, OnFile
<1>3. Values(live') /\ live' \in [Groups -> UNION {[Fields[h] -> Setting] : h \in Groups}]
  BY <1>1, SettingsAssumption, ConfigTypes
<1>4. UnsavedIsDirty'
  BY <1>1 DEF UnsavedIsDirty, Ready
<1>5. Values(atSave)' /\ Agree(atSave', OnFile')
  BY <1>1, <1>2 DEF SettingsInv, Values
<1>6. dirty' \in BOOLEAN /\ failed' \in BOOLEAN
  BY <1>1 DEF SettingsInv
<1>7. db' \in StoredRows /\ db' # NotOpen /\ changes' \in 0..MaxChanges /\ db' = OnFile'
  BY <1>1, <1>2, ConfigTypes
<1>8. file' \in StoredRows \cup {Missing}
  BY <1>1 DEF SettingsInv
<1> QED BY <1>1, <1>3, <1>4, <1>5, <1>6, <1>7, <1>8 DEF SettingsInv

(* At the end of a save what is in force is what a start makes of the rows.  *)
LEMMA SavedIsLive ==
  ASSUME SettingsInv, SaveDone
  PROVE  /\ db \in StoredRows /\ saving # "no" /\ saving' = "no"
         /\ live' \in [Groups -> UNION {[Fields[h] -> Setting] : h \in Groups}] /\ Values(live')
         /\ Agree(live', db)
<1>1. saving # "no" /\ saving' = "no"
  BY DEF SaveDone, SaveEnds, SaveFails, Saved
<1>2. db \in StoredRows /\ db # NotOpen
  BY <1>1 DEF SettingsInv
<1>3. CASE saving = "start"
  <2>1. live' = [g \in Groups |-> Restored(db, g)]
    BY <1>3 DEF SaveDone, ApplyPersisted, Restored
  <2>2. Values(live')
    BY <1>2, <2>1, RestoredTypes
  <2>3. \A g \in Groups : live'[g] \in UNION {[Fields[h] -> Setting] : h \in Groups}
    BY <2>2 DEF Values
  <2>4. live' \in [Groups -> UNION {[Fields[h] -> Setting] : h \in Groups}]
    BY <2>1, <2>3
  <2>5. Agree(live', db)
    BY <2>1 DEF Agree
  <2> QED BY <1>1, <1>2, <2>2, <2>4, <2>5
<1>4. CASE saving # "start"
  <2>1. live' = live
    BY <1>4 DEF SaveDone
  <2> QED BY <1>1, <1>2, <1>4, <2>1 DEF SettingsInv, Values
<1> QED BY <1>3, <1>4

LEMMA SaveDoneKeeps ==
  ASSUME SettingsInv, SaveDone
  PROVE  SettingsInv'
<1>1. /\ db \in StoredRows /\ saving # "no" /\ saving' = "no"
      /\ live' \in [Groups -> UNION {[Fields[h] -> Setting] : h \in Groups}] /\ Values(live')
      /\ Agree(live', db)
  BY SavedIsLive
<1>2. /\ db' = (IF saving = "close" THEN NotOpen ELSE db) /\ changes' = changes
      /\ atSave' = IF failed' THEN atSave ELSE live'
  BY DEF SaveDone, SaveEnds, SaveFails, Saved
<1>3. dirty' \in BOOLEAN
  <2>1. CASE saving = "start"
    BY <2>1 DEF SaveDone, ApplyPersisted
  <2>2. CASE saving # "start"
    BY <2>2 DEF SaveDone, Cleared
  <2> QED BY <2>1, <2>2
<1>4. db' \in StoredRows \cup {NotOpen}
  BY <1>1, <1>2
<1>5. db' # NotOpen => Agree(live', db')
  BY <1>1, <1>2
<1>6. CASE SaveEnds
  <2>1. file' = db /\ failed' = FALSE
    BY <1>6 DEF SaveEnds
  <2>2. OnFile' = db
    BY <1>1, <2>1, ConfigTypes DEF OnFile
  <2>3. atSave' = live'
    BY <1>2, <2>1
  <2>4. Agree(atSave', OnFile')
    BY <1>1, <2>2, <2>3
  <2>5. Values(atSave)'
    BY <1>1, <2>3 DEF Values
  <2>6. UnsavedIsDirty'
    BY <1>2, <2>1 DEF UnsavedIsDirty, Ready
  <2>7. failed' \in BOOLEAN /\ file' \in StoredRows
    BY <1>1, <2>1
  <2>8. changes' \in 0..MaxChanges
    BY <1>2 DEF SettingsInv
  <2> QED BY <1>1, <1>3, <1>4, <1>5, <2>4, <2>5, <2>6, <2>7, <2>8 DEF SettingsInv
<1>7. CASE SaveFails
  <2>1. file' = file /\ failed' = TRUE
    BY <1>7 DEF SaveFails
  <2>2. OnFile' = OnFile /\ atSave' = atSave
    BY <1>2, <2>1 DEF OnFile
  <2>3. Agree(atSave', OnFile')
    BY <2>2 DEF SettingsInv
  <2>4. Values(atSave)'
    BY <2>2 DEF SettingsInv, Values
  <2>5. UnsavedIsDirty'
    BY <2>1 DEF UnsavedIsDirty
  <2>6. failed' \in BOOLEAN /\ file' \in StoredRows \cup {Missing}
    BY <2>1 DEF SettingsInv
  <2>7. changes' \in 0..MaxChanges
    BY <1>2 DEF SettingsInv
  <2> QED BY <1>1, <1>3, <1>4, <1>5, <2>3, <2>4, <2>5, <2>6, <2>7 DEF SettingsInv
<1> QED BY <1>6, <1>7 DEF SaveDone

LEMMA StorageOnlyKeeps ==
  ASSUME SettingsInv, StorageOnly
  PROVE  SettingsInv'
<1>1. live' = live /\ changes' = changes /\ atSave' = atSave
  BY DEF StorageOnly
<1>2. ASSUME NEW why \in {"timer", "cleanup", "close"}, Ready, SaveBegins(why)
      PROVE  SettingsInv'
  <2>1. saving' = why /\ UNCHANGED <<db, dirty, file, failed>> /\ saving = "no" /\ db # NotOpen
    BY <1>2 DEF SaveBegins, Ready
  <2>2. OnFile' = OnFile
    BY <2>1 DEF OnFile
  <2>3. UnsavedIsDirty'
    BY <2>1 DEF UnsavedIsDirty, Ready
  <2> QED BY <1>1, <2>1, <2>2, <2>3 DEF SettingsInv, Values
<1>3. CASE Crash
  <2>1. db' = NotOpen /\ dirty' = FALSE /\ saving' = "no" /\ UNCHANGED <<file, failed>>
    BY <1>3 DEF Crash
  <2>2. OnFile' = OnFile
    BY <2>1 DEF OnFile
  <2>3. UnsavedIsDirty'
    BY <2>1 DEF UnsavedIsDirty, Ready
  <2>4. dirty' \in BOOLEAN
    BY <2>1
  <2> QED BY <1>1, <2>1, <2>2, <2>3, <2>4 DEF SettingsInv, Values
<1> QED BY <1>2, <1>3 DEF StorageOnly, SaveTimer, Cleanup, Close

LEMMA SettingsStep == SettingsInv /\ [SettingsNext]_settingsVars => SettingsInv'
<1> SUFFICES ASSUME SettingsInv, [SettingsNext]_settingsVars PROVE SettingsInv'
  OBVIOUS
<1>1. ASSUME NEW g \in Groups, NEW patch \in Patches(g), Apply(g, patch) PROVE SettingsInv'
  BY <1>1, ApplyKeeps
<1>2. ASSUME NEW g \in Groups, Reset(g) PROVE SettingsInv'
  BY <1>2, ResetKeeps
<1>3. CASE Start
  BY <1>3, StartKeeps
<1>4. CASE SaveDone
  BY <1>4, SaveDoneKeeps
<1>5. CASE StorageOnly
  BY <1>5, StorageOnlyKeeps
<1>6. CASE UNCHANGED settingsVars
  <2>1. UNCHANGED <<db, dirty, saving, file, failed, live, changes, atSave>>
    BY <1>6 DEF settingsVars, storageVars
  <2>2. OnFile' = OnFile
    BY <2>1 DEF OnFile
  <2>3. UnsavedIsDirty'
    BY <2>1 DEF SettingsInv, UnsavedIsDirty, Ready
  <2> QED BY <2>1, <2>2, <2>3 DEF SettingsInv, Values
<1> QED BY <1>1, <1>2, <1>3, <1>4, <1>5, <1>6 DEF SettingsNext

LEMMA SettingsGuarantee ==
  ASSUME SettingsInv
  PROVE  SettingsTypeOK /\ UnsavedIsDirty
<1>1. StorageTypeOK
  <2>1. StoredRows \subseteq Contents
    BY DEF StoredRows
  <2> QED BY <2>1 DEF SettingsInv, StorageTypeOK
<1>2. \A g \in Groups : DOMAIN live[g] = Fields[g] /\ DOMAIN atSave[g] = Fields[g]
  BY DEF SettingsInv, Values
<1> QED BY <1>1, <1>2 DEF SettingsInv, SettingsTypeOK

(* A start ends with what was in force at the last write of the file.        *)
LEMMA StartRestores ==
  ASSUME SettingsInv, [SettingsNext]_settingsVars
  PROVE  Restarted([g \in Groups |-> Lasting(g, db[g])])
<1> SUFFICES ASSUME saving = "start", saving' = "no", db' # NotOpen,
                    NEW g \in Groups, NEW f \in Lasting(g, db[g])
             PROVE  live'[g][f] = atSave[g][f]
  BY DEF Restarted
<1>1. CASE SaveDone
  <2>1. live'[g][f] = Restored(db, g)[f]
    BY <1>1, SavedIsLive DEF Agree
  <2>2. db = OnFile /\ atSave[g][f] = Restored(OnFile, g)[f]
    BY DEF SettingsInv, Agree
  <2> QED BY <2>1, <2>2
<1>2. CASE StorageOnly
  BY <1>2 DEF StorageOnly, SaveTimer, Cleanup, Close, Crash, Ready
<1>3. CASE Start
  BY <1>3 DEF Start, Open
<1>4. ASSUME NEW h \in Groups, Reset(h) \/ \E patch \in Patches(h) : Apply(h, patch) PROVE FALSE
  BY <1>4 DEF Reset, Apply, Changing, Ready
<1>5. CASE UNCHANGED settingsVars
  BY <1>5 DEF settingsVars, storageVars
<1> QED BY <1>1, <1>2, <1>3, <1>4, <1>5 DEF SettingsNext

----------------------------------------------------------------------------
(* The response cache: an entry's key tells apart all that its content depends *)
(* on, but for the range asked for, and no key has two entries.              *)

(* What may be in the cache: content of a request with a key, that depends   *)
(* on nothing but what the key tells apart, and on the range.                *)
Keyed == {"accept", "cookie", "range"}
Made(req, d, t, ttl) ==
  [key |-> Key(req), content |-> Content(req, d), depends |-> d, createdAt |-> t, ttl |-> ttl]
CacheEntries ==
  {e \in {Made(req, d, t, ttl) : req \in Requests, d \in SUBSET Keyed, t \in Nat, ttl \in TTLs} :
     e.key # Absent}

OneForKey(c) == \A i, j \in 1..Len(c) : c[i].key = c[j].key => i = j

CacheOK(c, now) ==
  /\ c \in Seq(CacheEntries) /\ OneForKey(c) /\ Len(c) <= MaxSize
  /\ \A i \in 1..Len(c) : c[i].createdAt <= now

CacheInv ==
  /\ CacheOK(cache, clock)
  /\ defaultTTL \in TTLs /\ fetching \subseteq Requests /\ clock \in 0..MaxTime

LEMMA EntryIs ==
  ASSUME NEW e \in CacheEntries
  PROVE  /\ e.key # Absent /\ e.createdAt \in Nat /\ e.ttl \in TTLs
         /\ \E req \in Requests : e.key = Key(req) /\ e.content = Content(req, e.depends)
         /\ e.depends \in SUBSET Keyed
BY DEF CacheEntries, Made

LEMMA CacheFacts ==
  ASSUME NEW c, NEW now, CacheOK(c, now)
  PROVE  /\ c \in Seq(CacheEntries) /\ Len(c) \in Nat /\ DOMAIN c = 1..Len(c)
         /\ Range(c) = {c[i] : i \in 1..Len(c)}
         /\ \A i \in 1..Len(c) : c[i] \in CacheEntries
<1>1. c \in Seq(CacheEntries)
  BY DEF CacheOK
<1>2. DOMAIN c = 1..Len(c)
  BY <1>1
<1> QED BY <1>1, <1>2 DEF Range

(* Two requests with one key differ in nothing that an entry depends on, but *)
(* for the order of the parameters and the range.                            *)
Alike(a, b, d) ==
  /\ a.method = b.method /\ a.path = b.path /\ Normalized(a.query) = Normalized(b.query)
  /\ \A h \in d \ {"range"} : a.headers[h] = b.headers[h]

LEMMA SameContent ==
  ASSUME NEW a \in Requests, NEW b \in Requests, Key(a) = Key(b), Key(a) # Absent,
         NEW d \in SUBSET Keyed
  PROVE  Alike(a, b, d)
<1> DEFINE k(r) == [path |-> r.path, query |-> Normalized(r.query), accept |-> r.headers.accept]
<1>1. /\ a.headers.cookie = Absent /\ b.headers.cookie = Absent /\ a.method = "GET" /\ b.method = "GET"
      /\ k(a) = k(b)
  BY DEF Key
<1>2. k(a).path = a.path /\ k(a).query = Normalized(a.query) /\ k(a).accept = a.headers.accept
      /\ k(b).path = b.path /\ k(b).query = Normalized(b.query) /\ k(b).accept = b.headers.accept
  OBVIOUS
<1> HIDE DEF k
<1>3. a.path = b.path /\ Normalized(a.query) = Normalized(b.query) /\ a.headers.accept = b.headers.accept
  BY <1>1, <1>2
<1>4. \A h \in d \ {"range"} : a.headers[h] = b.headers[h]
  BY <1>1, <1>3 DEF Keyed
<1> QED BY <1>1, <1>3, <1>4 DEF Alike

LEMMA KeptShorter ==
  ASSUME NEW S, NEW s \in Seq(S), NEW I \in SUBSET (1..Len(s)), NEW k \in 1..Len(s), k \notin I
  PROVE  Len(Kept(s, I)) <= Len(s) - 1
<1> DEFINE n == Len(s)
           J == (1..n) \ {k}
<1>1. n \in Nat /\ IsFiniteSet(1..n) /\ Cardinality(1..n) = n
  BY FS_Interval
<1>2. IsFiniteSet(J) /\ Cardinality(J) = n - 1
  BY <1>1, FS_RemoveElement
<1>3. I \in SUBSET J
  OBVIOUS
<1>4. Cardinality(I) \in Nat /\ Cardinality(I) <= n - 1
  <2> HIDE DEF J
  <2>1. IsFiniteSet(I) /\ Cardinality(I) <= Cardinality(J)
    BY <1>2, <1>3, FS_Subset
  <2> QED BY <1>2, <2>1, FS_CardinalityType
<1>5. Len(Kept(s, I)) = Cardinality(I)
  <2>1. Kept(s, I) \in [1..Cardinality(I) -> {s[Ordered(I)[i]] : i \in 1..Cardinality(I)}]
    BY DEF Kept
  <2>2. Kept(s, I) \in Seq(S)
    BY KeptIs
  <2> QED BY <1>4, <2>1, <2>2
<1> QED BY <1>4, <1>5

LEMMA PartCached ==
  ASSUME NEW c, NEW now, CacheOK(c, now), NEW I \in SUBSET (1..Len(c))
  PROVE  CacheOK(Kept(c, I), now)
<1> DEFINE q == Kept(c, I)
<1>1. c \in Seq(CacheEntries) /\ Len(c) \in Nat
  BY CacheFacts
<1>2. Part(CacheEntries, c, q, I)
  BY <1>1, KeptIsPart
<1> HIDE DEF q
<1>3. q \in Seq(CacheEntries) /\ Len(q) \in Nat /\ Len(q) <= Len(c) /\ OneToOne(c, q, I)
  BY <1>1, <1>2, PartRises, PartIsOne
<1>4. PICK f \in [1..Len(q) -> I] :
        /\ \A j \in 1..Len(q) : q[j] = c[f[j]]
        /\ \A j, k \in 1..Len(q) : f[j] = f[k] => j = k
  BY <1>3 DEF OneToOne
<1>5. \A j \in 1..Len(q) : f[j] \in 1..Len(c)
  OBVIOUS
<1>6. OneForKey(q)
  BY <1>4, <1>5 DEF CacheOK, OneForKey
<1>7. \A j \in 1..Len(q) : q[j].createdAt <= now
  BY <1>4, <1>5 DEF CacheOK
<1>8. MaxSize \in Nat /\ Len(q) <= MaxSize
  BY <1>1, <1>3, CacheAssumption DEF CacheOK
<1> QED BY <1>3, <1>6, <1>7, <1>8 DEF CacheOK, q

(* An entry goes to the end of a cache that has none of its key.             *)
LEMMA AppendCached ==
  ASSUME NEW c, NEW now, CacheOK(c, now), NEW e \in CacheEntries, e.createdAt <= now,
         \A i \in 1..Len(c) : c[i].key # e.key, Len(c) + 1 <= MaxSize
  PROVE  CacheOK(Append(c, e), now)
<1> DEFINE q == Append(c, e)
           n == Len(c)
<1>1. c \in Seq(CacheEntries) /\ n \in Nat
  BY CacheFacts
<1>2. /\ q \in Seq(CacheEntries) /\ Len(q) = n + 1
      /\ \A i \in 1..(n + 1) : q[i] = IF i = n + 1 THEN e ELSE c[i]
      /\ \A i \in 1..(n + 1) : i # n + 1 => i \in 1..n
  BY <1>1
<1> HIDE DEF q, n
<1>3. OneForKey(q)
  <2> SUFFICES ASSUME NEW i \in 1..(n + 1), NEW j \in 1..(n + 1), q[i].key = q[j].key, i # j
               PROVE  FALSE
    BY <1>2 DEF OneForKey
  <2>1. CASE i = n + 1
    BY <1>2, <2>1 DEF n
  <2>2. CASE j = n + 1
    BY <1>2, <2>2 DEF n
  <2>3. CASE i # n + 1 /\ j # n + 1
    BY <1>2, <2>3 DEF CacheOK, OneForKey, n
  <2> QED BY <2>1, <2>2, <2>3
<1>4. \A i \in 1..(n + 1) : q[i].createdAt <= now
  BY <1>2 DEF CacheOK, n
<1> QED BY <1>2, <1>3, <1>4 DEF CacheOK, q, n

LEMMA EntryOfKey ==
  ASSUME NEW key, Cached(key), CacheInv
  PROVE  \E i \in 1..Len(cache) : Entry(key) = cache[i] /\ cache[i].key = key
<1>1. \E e \in Range(cache) : e.key = key
  BY DEF Cached
<1>2. Entry(key) \in Range(cache) /\ Entry(key).key = key
  BY <1>1 DEF Entry
<1>3. Range(cache) = {cache[i] : i \in 1..Len(cache)}
  BY CacheFacts DEF CacheInv
<1> QED BY <1>2, <1>3

LEMMA EntryDropped ==
  ASSUME CacheInv, NEW key
  PROVE  /\ CacheOK(WithoutEntry(key), clock)
         /\ \A i \in 1..Len(WithoutEntry(key)) : WithoutEntry(key)[i].key # key
         /\ Cached(key) => Len(WithoutEntry(key)) + 1 <= MaxSize
<1> DEFINE I == {i \in DOMAIN cache : cache[i].key # key}
           q == WithoutEntry(key)
<1>1. cache \in Seq(CacheEntries) /\ Len(cache) \in Nat /\ DOMAIN cache = 1..Len(cache)
      /\ CacheOK(cache, clock) /\ Len(cache) <= MaxSize
  BY CacheFacts DEF CacheInv, CacheOK
<1>2. I \in SUBSET (1..Len(cache)) /\ \A i \in I : cache[i].key # key
  BY <1>1
<1>3. q = Kept(cache, I)
  BY DEF WithoutEntry
<1>4. \A i \in 1..Len(cache) : cache[i].key = key => i \notin I
  OBVIOUS
<1> HIDE DEF I, q
<1>5. CacheOK(q, clock)
  BY <1>1, <1>2, <1>3, PartCached
<1>6. \A i \in 1..Len(q) : q[i].key # key
  <2>1. Part(CacheEntries, cache, q, I)
    BY <1>1, <1>2, <1>3, KeptIsPart
  <2>2. OneToOne(cache, q, I)
    BY <1>1, <1>2, <2>1, PartIsOne
  <2>3. PICK f \in [1..Len(q) -> I] : \A i \in 1..Len(q) : q[i] = cache[f[i]]
    BY <2>2 DEF OneToOne
  <2>4. \A i \in 1..Len(q) : f[i] \in I
    OBVIOUS
  <2> QED BY <1>2, <2>3, <2>4
<1>7. ASSUME Cached(key) PROVE Len(q) + 1 <= MaxSize
  <2>1. PICK i \in 1..Len(cache) : cache[i].key = key
    BY <1>7, EntryOfKey
  <2>2. Len(q) <= Len(cache) - 1
    BY <1>1, <1>2, <1>3, <1>4, <2>1, KeptShorter
  <2>3. Len(q) \in Nat /\ MaxSize \in Nat
    BY <1>5, CacheFacts, CacheAssumption
  <2> QED BY <1>1, <2>2, <2>3
<1> QED BY <1>5, <1>6, <1>7 DEF q

LEMMA HitKeeps ==
  ASSUME CacheInv, NEW req \in Requests, Hit(req)
  PROVE  CacheInv'
<1> DEFINE key == Key(req)
           q == WithoutEntry(key)
<1>1. Cached(key) /\ cache' = Append(q, Entry(key)) /\ UNCHANGED <<defaultTTL, fetching, clock>>
  BY DEF Hit, Answered
<1>2. PICK i \in 1..Len(cache) : Entry(key) = cache[i] /\ cache[i].key = key
  BY <1>1, EntryOfKey
<1>3. Entry(key) \in CacheEntries /\ Entry(key).createdAt <= clock /\ Entry(key).key = key
  BY <1>2, CacheFacts DEF CacheInv, CacheOK
<1>4. CacheOK(q, clock) /\ (\A j \in 1..Len(q) : q[j].key # key) /\ Len(q) + 1 <= MaxSize
  BY <1>1, EntryDropped
<1> HIDE DEF key, q
<1>5. CacheOK(Append(q, Entry(key)), clock)
  BY <1>3, <1>4, AppendCached
<1> QED BY <1>1, <1>5 DEF CacheInv

LEMMA MissKeeps ==
  ASSUME CacheInv, NEW req \in Requests, Miss(req)
  PROVE  CacheInv'
<1>1. CacheOK(WithoutEntry(Key(req)), clock)
  BY EntryDropped
<1> QED BY <1>1 DEF Miss, CacheInv

(* A full cache loses its first entry.                                       *)
LEMMA EvictedIs ==
  ASSUME CacheInv
  PROVE  CacheOK(Evicted, clock) /\ Len(Evicted) + 1 <= MaxSize
<1>1. cache \in Seq(CacheEntries) /\ Len(cache) \in Nat /\ CacheOK(cache, clock) /\ Len(cache) <= MaxSize
      /\ MaxSize \in Nat \ {0}
  BY CacheFacts, CacheAssumption DEF CacheInv, CacheOK
<1>2. CASE ~Full
  BY <1>1, <1>2 DEF Full, Evicted
<1>3. CASE Full
  <2> DEFINE q == Tail(cache)
  <2>1. Evicted = q /\ cache # << >>
    BY <1>1, <1>3 DEF Full, Evicted
  <2>2. q \in Seq(CacheEntries) /\ Len(q) = Len(cache) - 1 /\ \A i \in 1..Len(q) : q[i] = cache[i + 1]
    BY <1>1, <2>1, HeadTailProperties
  <2> HIDE DEF q
  <2>3. \A i \in 1..Len(q) : i + 1 \in 1..Len(cache) /\ i \in Nat
    BY <1>1, <2>2
  <2>4. OneForKey(q)
    <3> SUFFICES ASSUME NEW i \in 1..Len(q), NEW j \in 1..Len(q), q[i].key = q[j].key PROVE i = j
      BY DEF OneForKey
    <3>1. i + 1 = j + 1
      BY <1>1, <2>2, <2>3 DEF CacheOK, OneForKey
    <3> QED BY <2>3, <3>1
  <2>5. \A i \in 1..Len(q) : q[i].createdAt <= clock
    BY <1>1, <2>2, <2>3 DEF CacheOK
  <2>6. Len(q) <= MaxSize /\ Len(q) + 1 <= MaxSize
    BY <1>1, <2>2
  <2> QED BY <2>1, <2>2, <2>4, <2>5, <2>6 DEF CacheOK
<1> QED BY <1>2, <1>3

LEMMA StoredKeeps ==
  ASSUME CacheInv, NEW e \in CacheEntries, e.createdAt <= clock
  PROVE  CacheOK(StoredEntry(e), clock)
<1> DEFINE c == Evicted
           same == {i \in DOMAIN c : c[i].key = e.key}
           q == [i \in DOMAIN c |-> IF i \in same THEN e ELSE c[i]]
<1>1. StoredEntry(e) = IF same = {} THEN Append(c, e) ELSE q
  BY DEF StoredEntry
<1>2. CacheOK(c, clock) /\ Len(c) + 1 <= MaxSize
  BY EvictedIs
<1>3. c \in Seq(CacheEntries) /\ Len(c) \in Nat /\ DOMAIN c = 1..Len(c)
      /\ \A i \in 1..Len(c) : c[i] \in CacheEntries
  <2> HIDE DEF c
  <2> QED BY <1>2, CacheFacts
<1> HIDE DEF c
<1>4. CASE same = {}
  <2>1. \A i \in 1..Len(c) : c[i].key # e.key
    BY <1>3, <1>4
  <2>2. CacheOK(Append(c, e), clock)
    BY <1>2, <2>1, AppendCached
  <2> QED BY <1>1, <1>4, <2>2
<1>5. CASE same # {}
  <2>1. q \in Seq(CacheEntries) /\ Len(q) = Len(c)
        /\ \A i \in 1..Len(c) : q[i] = IF c[i].key = e.key THEN e ELSE c[i]
    BY <1>3
  <2> HIDE DEF q, same
  <2>2. \A i \in 1..Len(c) : q[i].key = c[i].key
    BY <2>1
  <2>3. OneForKey(q)
    BY <1>2, <2>1, <2>2 DEF CacheOK, OneForKey
  <2>4. \A i \in 1..Len(q) : q[i].createdAt <= clock
    BY <1>2, <2>1 DEF CacheOK
  <2>5. CacheOK(q, clock)
    BY <1>2, <2>1, <2>3, <2>4 DEF CacheOK
  <2> QED BY <1>1, <1>5, <2>5
<1> QED BY <1>4, <1>5

LEMMA ResponseKeeps ==
  ASSUME CacheInv, NEW req \in Requests, NEW resp \in Responses, Response(req, resp)
  PROVE  CacheInv'
<1> DEFINE e == Made(req, resp.depends, clock, defaultTTL)
           storable == Key(req) # Absent /\ ~resp.error /\ ~resp.unfit /\ Cacheable(resp)
<1>1. /\ cache' = IF storable THEN StoredEntry(e) ELSE cache
      /\ fetching' = fetching \ {req} /\ UNCHANGED <<defaultTTL, clock>>
  BY DEF Response, Made
<1>2. CASE storable
  <2>1. resp.depends \in SUBSET Keyed
    BY <1>2, OriginsAssumption DEF Cacheable, Keyed
  <2>2. clock \in Nat /\ defaultTTL \in TTLs
    BY CacheAssumption DEF CacheInv
  <2>3. e.key = Key(req) /\ e.createdAt = clock
    BY DEF Made
  <2>4. e \in CacheEntries
    BY <1>2, <2>1, <2>2, <2>3 DEF CacheEntries
  <2> HIDE DEF e
  <2>5. CacheOK(StoredEntry(e), clock)
    BY <2>2, <2>3, <2>4, StoredKeeps
  <2> QED BY <1>1, <1>2, <2>5 DEF CacheInv
<1>3. CASE ~storable
  BY <1>1, <1>3 DEF CacheInv
<1> QED BY <1>2, <1>3

LEMMA CacheStart == CacheInit => CacheInv
<1> SUFFICES ASSUME CacheInit PROVE CacheInv
  OBVIOUS
<1>1. << >> \in Seq(CacheEntries) /\ Len(<< >>) = 0
  OBVIOUS
<1>2. CacheOK(<< >>, 0)
  BY <1>1, CacheAssumption DEF CacheOK, OneForKey
<1> QED BY <1>2, CacheAssumption DEF CacheInit, CacheInv

LEMMA CacheStep == CacheInv /\ [CacheNext]_cacheVars => CacheInv'
<1> SUFFICES ASSUME CacheInv, [CacheNext]_cacheVars PROVE CacheInv'
  OBVIOUS
<1>1. ASSUME NEW req \in Requests, Hit(req) PROVE CacheInv'
  BY <1>1, HitKeeps
<1>2. ASSUME NEW req \in Requests, Miss(req) PROVE CacheInv'
  BY <1>2, MissKeeps
<1>3. ASSUME NEW req \in Requests, NEW resp \in Responses, Response(req, resp) PROVE CacheInv'
  BY <1>3, ResponseKeeps
<1>4. CASE SetTTL
  BY <1>4 DEF SetTTL, CacheInv
<1>5. CASE Clear
  <2>1. << >> \in Seq(CacheEntries) /\ Len(<< >>) = 0
    OBVIOUS
  <2>2. CacheOK(<< >>, clock)
    BY <2>1, CacheAssumption DEF CacheOK, OneForKey
  <2> QED BY <1>5, <2>2 DEF Clear, CacheInv
<1>6. CASE Sweep
  <2> DEFINE I == {i \in DOMAIN cache : clock - cache[i].createdAt <= cache[i].ttl}
  <2>1. I \in SUBSET (1..Len(cache)) /\ CacheOK(cache, clock)
    BY CacheFacts DEF CacheInv
  <2>2. cache' = Kept(cache, I) /\ UNCHANGED <<defaultTTL, fetching, clock>>
    BY <1>6 DEF Sweep
  <2> HIDE DEF I
  <2>3. CacheOK(Kept(cache, I), clock)
    BY <2>1, PartCached
  <2> QED BY <2>2, <2>3 DEF CacheInv
<1>7. CASE Tick
  <2>1. clock < MaxTime /\ clock' = clock + 1 /\ UNCHANGED <<cache, defaultTTL, fetching>>
    BY <1>7 DEF Tick
  <2>2. clock \in Nat /\ clock' \in 0..MaxTime
    BY <2>1, CacheAssumption DEF CacheInv
  <2>3. \A i \in 1..Len(cache) : cache[i].createdAt <= clock + 1
    <3> SUFFICES ASSUME NEW i \in 1..Len(cache) PROVE cache[i].createdAt <= clock + 1
      OBVIOUS
    <3>1. cache[i] \in CacheEntries
      BY CacheFacts DEF CacheInv
    <3>2. cache[i].createdAt \in Nat /\ cache[i].createdAt <= clock
      BY <3>1, EntryIs DEF CacheInv, CacheOK
    <3> QED BY <2>2, <3>2
  <2> QED BY <2>1, <2>2, <2>3 DEF CacheInv, CacheOK
<1>8. CASE UNCHANGED cacheVars
  BY <1>8 DEF cacheVars, CacheInv
<1> QED BY <1>1, <1>2, <1>3, <1>4, <1>5, <1>6, <1>7, <1>8 DEF CacheNext

LEMMA CacheGuarantee ==
  ASSUME CacheInv
  PROVE  CacheTypeOK /\ HitIsRight
<1>0. /\ Len(cache) \in Nat /\ DOMAIN cache = 1..Len(cache) /\ Range(cache) = {cache[i] : i \in 1..Len(cache)}
      /\ \A i \in 1..Len(cache) : cache[i] \in CacheEntries
  BY CacheFacts DEF CacheInv
<1>1. CacheTypeOK
  <2>1. ASSUME NEW e \in Range(cache) PROVE e.key # Absent /\ e.createdAt \in 0..clock /\ e.ttl \in TTLs
    <3>1. PICK i \in 1..Len(cache) : e = cache[i]
      BY <1>0
    <3>2. e \in CacheEntries /\ e.createdAt <= clock
      BY <1>0, <3>1 DEF CacheInv, CacheOK
    <3>3. e.key # Absent /\ e.createdAt \in Nat /\ e.ttl \in TTLs
      BY <3>2, EntryIs
    <3> QED BY <3>2, <3>3, CacheAssumption DEF CacheInv
  <2>2. \A i, j \in DOMAIN cache : cache[i].key = cache[j].key => i = j
    BY <1>0 DEF CacheInv, CacheOK, OneForKey
  <2> QED BY <2>1, <2>2 DEF CacheInv, CacheOK, CacheTypeOK
<1>2. ASSUME NEW req \in Requests, Answered(req)
      PROVE  /\ Entry(Key(req)).content.method = req.method
             /\ Entry(Key(req)).content.path = req.path
             /\ Normalized(Entry(Key(req)).content.query) = Normalized(req.query)
             /\ \A h \in Entry(Key(req)).depends \ {"range"} :
                  Entry(Key(req)).content.header[h] = req.headers[h]
  <2> DEFINE e == Entry(Key(req))
  <2>1. PICK i \in 1..Len(cache) : e = cache[i] /\ cache[i].key = Key(req)
    BY <1>2, EntryOfKey DEF Answered
  <2>2. e \in CacheEntries /\ e.key = Key(req)
    BY <1>0, <2>1
  <2> HIDE DEF e
  <2>3. PICK other \in Requests : e.key = Key(other) /\ e.content = Content(other, e.depends)
    BY <2>2, EntryIs
  <2>4. Key(req) # Absent /\ e.depends \in SUBSET Keyed
    BY <2>2, EntryIs
  <2>5. Alike(other, req, e.depends)
    BY <2>2, <2>3, <2>4, SameContent
  <2>6. /\ e.content.method = other.method /\ e.content.path = other.path /\ e.content.query = other.query
        /\ \A h \in e.depends : e.content.header[h] = other.headers[h]
    BY <2>3 DEF Content
  <2>7. /\ e.content.method = req.method /\ e.content.path = req.path
        /\ Normalized(e.content.query) = Normalized(req.query)
        /\ \A h \in e.depends \ {"range"} : e.content.header[h] = req.headers[h]
    BY <2>5, <2>6 DEF Alike
  <2> QED BY <2>7 DEF e
<1>3. HitIsRight
  BY <1>2 DEF HitIsRight
<1> QED BY <1>1, <1>3

----------------------------------------------------------------------------
(* The audit log.  A rotation renames one file after the other; RotatedIs says *)
(* what they come to.  What is in the files and the buffer, the oldest first, *)
(* rises, but for what a write that failed had written; where nothing failed *)
(* it is everything from some entry on that no process had in its buffer     *)
(* when it died.                                                             *)

EntryNo == 1..MaxEntries
Chunk == 0..MaxEntries
Files == [0..MaxFiles -> Seq(Chunk)]

(* The files after the renames, without the steps between.                   *)
Moves(f, fails, i) == i \in 0..(MaxFiles - 1) /\ i \notin fails /\ f[i] # << >>
Place(f, fails, j) == IF Moves(f, fails, j - 1) THEN f[j - 1] ELSE IF j \in fails THEN f[j] ELSE << >>
Shifted(f, fails) == [j \in 0..MaxFiles |-> Place(f, fails, j)]

(* The files when those from i on have been renamed.                         *)
Stage(f, fails, i) ==
  [j \in 0..MaxFiles |->
     IF j < i THEN f[j] ELSE IF j = i THEN (IF i \in fails THEN f[i] ELSE << >>) ELSE Place(f, fails, j)]

LEMMA AuditConstants ==
  /\ MaxFiles \in Nat /\ MaxFiles >= 1 /\ MaxBuffered \in Nat /\ MaxBuffered >= 1
  /\ MaxEntries \in Nat /\ MaxFileSize \in Nat /\ BufferSize \in Nat /\ BufferSize >= 1
BY AuditAssumption

LEMMA RenamedStage ==
  ASSUME NEW f \in Files, NEW fails, NEW i \in 0..(MaxFiles - 1)
  PROVE  Renamed(Stage(f, fails, i + 1), i, fails) = Stage(f, fails, i)
<1> DEFINE g == Stage(f, fails, i + 1)
           h == Stage(f, fails, i)
<1>1. i \in 0..MaxFiles /\ i + 1 \in 0..MaxFiles /\ i \in Nat /\ MaxFiles \in Nat /\ (i + 1) - 1 = i
  BY AuditConstants
<1>2. /\ \A j \in 0..MaxFiles : j < i + 1 => g[j] = f[j]
      /\ g[i + 1] = IF i + 1 \in fails THEN f[i + 1] ELSE << >>
      /\ \A j \in 0..MaxFiles : j > i + 1 => g[j] = Place(f, fails, j)
      /\ g = [j \in 0..MaxFiles |-> g[j]]
  BY <1>1 DEF Stage
<1>3. g[i] = f[i]
  BY <1>1, <1>2
<1>4. h = [j \in 0..MaxFiles |->
             IF j < i THEN f[j] ELSE IF j = i THEN (IF i \in fails THEN f[i] ELSE << >>) ELSE Place(f, fails, j)]
  BY DEF Stage
<1>5. Place(f, fails, i + 1) = IF i \notin fails /\ f[i] # << >> THEN f[i]
                               ELSE IF i + 1 \in fails THEN f[i + 1] ELSE << >>
  BY <1>1 DEF Place, Moves
<1> HIDE DEF g, h
<1>6. CASE i \in fails \/ f[i] = << >>
  <2>1. Renamed(g, i, fails) = g
    BY <1>3, <1>6 DEF Renamed
  <2>2. ASSUME NEW j \in 0..MaxFiles PROVE g[j] = h[j]
    <3>1. CASE j < i
      BY <1>1, <1>2, <1>4, <3>1
    <3>2. CASE j = i
      BY <1>3, <1>4, <1>6, <3>2, <1>1
    <3>3. CASE j = i + 1
      BY <1>1, <1>2, <1>4, <1>5, <1>6, <3>3
    <3>4. CASE j > i + 1
      BY <1>1, <1>2, <1>4, <3>4
    <3> QED BY <1>1, <3>1, <3>2, <3>3, <3>4
  <2>3. h = [j \in 0..MaxFiles |-> h[j]]
    BY <1>4
  <2>4. [j \in 0..MaxFiles |-> g[j]] = [j \in 0..MaxFiles |-> h[j]]
    BY <2>2
  <2>5. g = h
    BY <1>2, <2>3, <2>4
  <2> QED BY <2>1, <2>5 DEF g, h
<1>7. CASE ~(i \in fails \/ f[i] = << >>)
  <2>1. Renamed(g, i, fails) = [g EXCEPT ![i + 1] = f[i], ![i] = << >>]
    BY <1>3, <1>7 DEF Renamed
  <2> DEFINE r == [g EXCEPT ![i + 1] = f[i], ![i] = << >>]
  <2>2. r = [j \in 0..MaxFiles |-> IF j = i THEN << >> ELSE IF j = i + 1 THEN f[i] ELSE g[j]]
    BY <1>1, <1>2
  <2> HIDE DEF r
  <2>3. ASSUME NEW j \in 0..MaxFiles PROVE r[j] = h[j]
    <3>1. CASE j < i
      BY <1>1, <1>2, <1>4, <2>2, <3>1
    <3>2. CASE j = i
      BY <1>4, <1>7, <2>2, <3>2, <1>1
    <3>3. CASE j = i + 1
      BY <1>1, <1>4, <1>5, <1>7, <2>2, <3>3
    <3>4. CASE j > i + 1
      BY <1>1, <1>2, <1>4, <2>2, <3>4
    <3> QED BY <1>1, <3>1, <3>2, <3>3, <3>4
  <2>4. h = [j \in 0..MaxFiles |-> h[j]] /\ r = [j \in 0..MaxFiles |-> r[j]]
    BY <1>4, <2>2
  <2>5. [j \in 0..MaxFiles |-> r[j]] = [j \in 0..MaxFiles |-> h[j]]
    BY <2>3
  <2>6. r = h
    BY <2>4, <2>5
  <2>7. Renamed(g, i, fails) = r
    BY <2>1 DEF r
  <2> QED BY <2>6, <2>7 DEF g, h
<1> QED BY <1>6, <1>7 DEF g, h

(* One renaming after the other comes to the same.                           *)
LEMMA RotatedIs ==
  ASSUME logFile \in Files, NEW fails
  PROVE  Rotated(fails) = Shifted(logFile, fails)
<1> DEFINE step(r, i) == IF i = MaxFiles THEN Unlinked(fails) ELSE Renamed(r[i + 1], i, fails)
           F == CHOOSE r : r = [i \in 0..MaxFiles |-> step(r, i)]
           h == [i \in 0..MaxFiles |-> Stage(logFile, fails, i)]
<1>0. MaxFiles \in Nat /\ 0 \in 0..MaxFiles /\ MaxFiles \in 0..MaxFiles
  BY AuditConstants
<1>1. Rotated(fails) = F[0]
  BY DEF Rotated
<1>2. Unlinked(fails) = Stage(logFile, fails, MaxFiles)
  <2>1. \A j \in 0..MaxFiles : j < MaxFiles \/ j = MaxFiles
    BY <1>0
  <2>2. Stage(logFile, fails, MaxFiles) =
          [j \in 0..MaxFiles |-> IF j = MaxFiles /\ MaxFiles \notin fails THEN << >> ELSE logFile[j]]
    BY <1>0, <2>1 DEF Stage
  <2> QED BY <1>0, <2>2 DEF Unlinked, Files
<1>3. \A i \in 0..MaxFiles : i # MaxFiles => i \in 0..(MaxFiles - 1) /\ i + 1 \in 0..MaxFiles
  BY <1>0
<1>4. \A i \in 0..MaxFiles : h[i] = step(h, i)
  <2> SUFFICES ASSUME NEW i \in 0..MaxFiles PROVE h[i] = step(h, i)
    OBVIOUS
  <2>1. CASE i = MaxFiles
    BY <1>0, <1>2, <2>1
  <2>2. CASE i # MaxFiles
    <3>1. h[i + 1] = Stage(logFile, fails, i + 1) /\ h[i] = Stage(logFile, fails, i) /\ i \in 0..(MaxFiles - 1)
      BY <1>3, <2>2
    <3> QED BY <2>2, <3>1, RenamedStage
  <2> QED BY <2>1, <2>2
<1>5. h = [i \in 0..MaxFiles |-> step(h, i)]
  <2> HIDE DEF step
  <2>1. h = [i \in 0..MaxFiles |-> h[i]]
    OBVIOUS
  <2> QED BY <1>4, <2>1
<1>6. F = [i \in 0..MaxFiles |-> step(F, i)]
  <2> HIDE DEF h, step
  <2>1. \E r : r = [i \in 0..MaxFiles |-> step(r, i)]
    BY <1>5
  <2> QED BY <2>1
<1> HIDE DEF F
<1>7. F[0] = h[0]
  <2> DEFINE Bad == {d \in Nat : d <= MaxFiles /\ F[MaxFiles - d] # h[MaxFiles - d]}
  <2>1. SUFFICES Bad = {}
    <3>1. MaxFiles \notin Bad
      BY <2>1
    <3>2. MaxFiles - MaxFiles = 0
      BY <1>0
    <3> HIDE DEF h
    <3> QED BY <1>0, <3>1, <3>2
  <2>2. SUFFICES ASSUME Bad # {} PROVE FALSE
    OBVIOUS
  <2>3. PICK d \in Bad : \A e \in Bad : d <= e
    BY <2>2, LeastOf
  <2> DEFINE i == MaxFiles - d
  <2>4. d \in Nat /\ d <= MaxFiles /\ F[i] # h[i] /\ i \in 0..MaxFiles
    BY <1>0, <2>3
  <2>5. F[i] = step(F, i) /\ h[i] = step(h, i)
    <3> HIDE DEF i, step, h
    <3> QED BY <1>4, <1>6, <2>4
  <2>6. CASE d = 0
    <3>1. i = MaxFiles
      BY <1>0, <2>6
    <3> QED BY <2>4, <2>5, <3>1
  <2>7. CASE d # 0
    <3>1. d - 1 \in Nat /\ d - 1 < d /\ MaxFiles - (d - 1) = i + 1 /\ i # MaxFiles /\ d - 1 <= MaxFiles
      BY <1>0, <2>4, <2>7
    <3>2. d - 1 \notin Bad
      BY <2>3, <2>4, <3>1
    <3>3. F[i + 1] = h[i + 1]
      <4> HIDE DEF i, h
      <4> QED BY <3>1, <3>2
    <3> QED BY <2>4, <2>5, <3>1, <3>3
  <2> QED BY <2>6, <2>7
<1>8. h[0] = Shifted(logFile, fails)
  <2>1. h[0] = Stage(logFile, fails, 0)
    BY <1>0
  <2>2. \A j \in 0..MaxFiles : ~(j < 0) /\ ~Moves(logFile, fails, -1)
    BY <1>0 DEF Moves
  <2>3. Place(logFile, fails, 0) = IF 0 \in fails THEN logFile[0] ELSE << >>
    BY <1>0 DEF Place, Moves
  <2> QED BY <1>0, <2>1, <2>2, <2>3 DEF Stage, Shifted
<1> QED BY <1>1, <1>7, <1>8

(* The entries in their order: within a list, from list to list, from the    *)
(* oldest file to the newest, and from the files to the buffer; h is what    *)
(* may be there twice.                                                       *)
Fit(x, y, h) == x = Torn \/ y = Torn \/ x < y \/ (x \in h /\ y \in h)
Rising(s, h) == \A i, j \in 1..Len(s) : i < j => Fit(s[i], s[j], h)
Before(s, t, h) == \A i \in 1..Len(s), j \in 1..Len(t) : Fit(s[i], t[j], h)
UpToNow(s, n) == \A i \in 1..Len(s) : s[i] <= n

FilesInOrder(f, n, h) ==
  /\ \A k \in 0..MaxFiles : Rising(f[k], h) /\ UpToNow(f[k], n)
  /\ \A k, l \in 0..MaxFiles : k < l => Before(f[l], f[k], h)
BufferBehind(f, b, n, h) ==
  /\ Rising(b, h) /\ UpToNow(b, n) /\ Len(b) <= n
  /\ \A k \in 0..MaxFiles : Before(f[k], b, h)

(* What is written or still to be, where nothing has failed: the entries     *)
(* from some one on, but for those lost with a process; a file is used only  *)
(* when all before it are.                                                   *)
Holds(s, x) == \E i \in 1..Len(s) : s[i] = x
Has(f, b, x) == Holds(b, x) \/ \E k \in 0..MaxFiles : Holds(f[k], x)
From(f, b, n, first, gone) == \A x \in Nat : Has(f, b, x) <=> first <= x /\ x <= n /\ x \notin gone
InUse(f) == \A k \in 0..MaxFiles : f[k] # << >>
FilledUp(f) == \A k \in 0..(MaxFiles - 1) : f[k + 1] # << >> => f[k] # << >>
Whole(f, b, n, gone) ==
  /\ FilledUp(f)
  /\ \E first \in Nat : first >= 1 /\ first <= n + 1 /\ From(f, b, n, first, gone) /\ (first > 1 => InUse(f))
Unbroken(f, h) == h = {} /\ \A k \in 0..MaxFiles : f[k] \in Seq(EntryNo)

LogInv(f, b, n, fl, h, gone) ==
  /\ f \in Files /\ b \in Seq(EntryNo) /\ n \in 0..MaxEntries /\ fl \in Nat
  /\ FilesInOrder(f, n, h) /\ BufferBehind(f, b, n, h) /\ h \cup gone \subseteq 1..n
  /\ fl = 0 => Unbroken(f, h) /\ Whole(f, b, n, gone)

LEMMA EntryIsNat ==
  ASSUME NEW s \in Seq(EntryNo)
  PROVE  /\ s \in Seq(Chunk) /\ Len(s) \in Nat
         /\ \A i \in 1..Len(s) : s[i] \in Nat /\ s[i] \in EntryNo /\ s[i] # Torn
<1>1. \A x \in EntryNo : x \in Nat /\ x \in Chunk /\ x # Torn
  BY AuditConstants DEF EntryNo, Chunk, Torn
<1>2. \A i \in 1..Len(s) : s[i] \in EntryNo
  OBVIOUS
<1>3. Len(s) \in Nat
  OBVIOUS
<1>4. \A i \in 1..Len(s) : s[i] \in Nat /\ s[i] # Torn
  BY <1>1, <1>2, Zenon
<1>5. EntryNo \subseteq Chunk
  BY <1>1
<1>6. s \in Seq(Chunk)
  BY <1>5
<1> QED BY <1>2, <1>3, <1>4, <1>6

LEMMA ChunkIsNat ==
  ASSUME NEW s \in Seq(Chunk)
  PROVE  Len(s) \in Nat /\ \A i \in 1..Len(s) : s[i] \in Nat
<1>1. \A x \in Chunk : x \in Nat
  BY AuditConstants DEF Chunk
<1>2. Len(s) \in Nat /\ \A i \in 1..Len(s) : s[i] \in Chunk
  OBVIOUS
<1> QED BY <1>1, <1>2, Zenon

LEMMA FileFacts ==
  ASSUME NEW f \in Files, NEW k \in 0..MaxFiles
  PROVE  /\ f[k] \in Seq(Chunk) /\ Len(f[k]) \in Nat
         /\ \A i \in 1..Len(f[k]) : f[k][i] \in Nat
<1>1. f[k] \in Seq(Chunk)
  BY DEF Files
<1> QED BY <1>1, ChunkIsNat

LEMMA NoEntries ==
  /\ Len(<< >>) = 0 /\ << >> \in Seq(EntryNo) /\ << >> \in Seq(Chunk)
  /\ \A h : Rising(<< >>, h)
  /\ \A n : UpToNow(<< >>, n)
  /\ \A s, h : Before(s, << >>, h) /\ Before(<< >>, s, h)
  /\ \A x : ~Holds(<< >>, x)
BY DEF Rising, UpToNow, Before, Holds

(* Among entries, and with nothing written twice, the order is strict.       *)
LEMMA Strictly ==
  ASSUME NEW s \in Seq(EntryNo), NEW t \in Seq(EntryNo)
  PROVE  /\ Rising(s, {}) => \A i, j \in 1..Len(s) : i < j => s[i] < s[j]
         /\ Before(s, t, {}) => \A i \in 1..Len(s), j \in 1..Len(t) : s[i] < t[j]
<1>1. (\A i \in 1..Len(s) : s[i] # Torn) /\ \A i \in 1..Len(t) : t[i] # Torn
  BY EntryIsNat
<1> QED BY <1>1 DEF Rising, Before, Fit

(* What is in order stays so when more may be there twice.                   *)
LEMMA Widened ==
  ASSUME NEW h, NEW g, h \subseteq g
  PROVE  /\ \A x, y : Fit(x, y, h) => Fit(x, y, g)
         /\ \A s : Rising(s, h) => Rising(s, g)
         /\ \A s, t : Before(s, t, h) => Before(s, t, g)
         /\ \A f, n : FilesInOrder(f, n, h) => FilesInOrder(f, n, g)
         /\ \A f, b, n : BufferBehind(f, b, n, h) => BufferBehind(f, b, n, g)
<1>1. \A x, y : Fit(x, y, h) => Fit(x, y, g)
  BY DEF Fit
<1>2. \A s : Rising(s, h) => Rising(s, g)
  BY <1>1 DEF Rising
<1>3. \A s, t : Before(s, t, h) => Before(s, t, g)
  BY <1>1 DEF Before
<1>4. \A f, n : FilesInOrder(f, n, h) => FilesInOrder(f, n, g)
  BY <1>2, <1>3 DEF FilesInOrder
<1>5. \A f, b, n : BufferBehind(f, b, n, h) => BufferBehind(f, b, n, g)
  BY <1>2, <1>3 DEF BufferBehind
<1> QED BY <1>1, <1>2, <1>3, <1>4, <1>5

(* Two lists, one behind the other.                                          *)
LEMMA Joined ==
  ASSUME NEW s \in Seq(Chunk), NEW b \in Seq(Chunk), NEW h,
         Rising(s, h), Rising(b, h), Before(s, b, h)
  PROVE  /\ s \o b \in Seq(Chunk) /\ Len(s \o b) = Len(s) + Len(b) /\ Rising(s \o b, h)
         /\ \A i \in 1..(Len(s) + Len(b)) :
              \/ i \in 1..Len(s) /\ (s \o b)[i] = s[i]
              \/ i - Len(s) \in 1..Len(b) /\ (s \o b)[i] = b[i - Len(s)]
         /\ \A x : Holds(s \o b, x) <=> Holds(s, x) \/ Holds(b, x)
<1> DEFINE q == s \o b
<1>1. Len(s) \in Nat /\ Len(b) \in Nat
  OBVIOUS
<1>3. /\ q \in Seq(Chunk) /\ Len(q) = Len(s) + Len(b)
      /\ \A i \in 1..(Len(s) + Len(b)) : q[i] = IF i <= Len(s) THEN s[i] ELSE b[i - Len(s)]
  BY <1>1, ConcatProperties
<1> HIDE DEF q
<1>6. \A i \in 1..(Len(s) + Len(b)) :
        \/ i \in 1..Len(s) /\ q[i] = s[i]
        \/ i > Len(s) /\ i - Len(s) \in 1..Len(b) /\ q[i] = b[i - Len(s)]
  BY <1>1, <1>3
<1>7. Rising(q, h)
  <2> SUFFICES ASSUME NEW i \in 1..(Len(s) + Len(b)), NEW j \in 1..(Len(s) + Len(b)), i < j
               PROVE  Fit(q[i], q[j], h)
    BY <1>3 DEF Rising
  <2>1. CASE j \in 1..Len(s)
    <3>1. i \in 1..Len(s) /\ i <= Len(s) /\ j <= Len(s)
      BY <1>1, <2>1
    <3>2. q[i] = s[i] /\ q[j] = s[j]
      BY <1>3, <3>1
    <3> QED BY <2>1, <3>1, <3>2 DEF Rising
  <2>2. CASE j \notin 1..Len(s)
    <3>1. j - Len(s) \in 1..Len(b) /\ q[j] = b[j - Len(s)]
      BY <1>6, <2>2
    <3>2. CASE i \in 1..Len(s) /\ q[i] = s[i]
      BY <3>1, <3>2 DEF Before
    <3>3. CASE i - Len(s) \in 1..Len(b) /\ q[i] = b[i - Len(s)]
      <4>1. i - Len(s) < j - Len(s)
        BY <1>1
      <4> QED BY <3>1, <3>3, <4>1 DEF Rising
    <3> QED BY <1>6, <3>2, <3>3
  <2> QED BY <2>1, <2>2
<1>8. ASSUME NEW x PROVE Holds(q, x) <=> Holds(s, x) \/ Holds(b, x)
  <2>1. ASSUME Holds(q, x) PROVE Holds(s, x) \/ Holds(b, x)
    <3>1. PICK i \in 1..(Len(s) + Len(b)) : q[i] = x
      BY <1>3, <2>1 DEF Holds
    <3> QED BY <1>6, <3>1 DEF Holds
  <2>2. ASSUME Holds(s, x) PROVE Holds(q, x)
    <3>1. PICK i \in 1..Len(s) : s[i] = x
      BY <2>2 DEF Holds
    <3>2. i \in 1..(Len(s) + Len(b)) /\ i <= Len(s)
      BY <1>1
    <3>3. q[i] = x
      BY <1>3, <3>1, <3>2
    <3> QED BY <1>3, <3>2, <3>3 DEF Holds
  <2>3. ASSUME Holds(b, x) PROVE Holds(q, x)
    <3>1. PICK i \in 1..Len(b) : b[i] = x
      BY <2>3 DEF Holds
    <3>2. Len(s) + i \in 1..(Len(s) + Len(b)) /\ ~(Len(s) + i <= Len(s)) /\ (Len(s) + i) - Len(s) = i
      BY <1>1
    <3>3. q[Len(s) + i] = x
      BY <1>3, <3>1, <3>2
    <3> QED BY <1>3, <3>2, <3>3 DEF Holds
  <2> QED BY <2>1, <2>2, <2>3
<1> QED BY <1>3, <1>6, <1>7, <1>8 DEF q

(* One more entry in the buffer.                                             *)
LEMMA EntryAdded ==
  ASSUME NEW f, NEW b, NEW n, NEW fl, NEW h, NEW gone, LogInv(f, b, n, fl, h, gone), n < MaxEntries
  PROVE  LogInv(f, Append(b, n + 1), n + 1, fl, h, gone) /\ Append(b, n + 1) # << >>
<1> DEFINE q == Append(b, n + 1)
           m == Len(b)
<1>1. /\ f \in Files /\ b \in Seq(EntryNo) /\ n \in Nat /\ n \in 0..MaxEntries /\ fl \in Nat
      /\ FilesInOrder(f, n, h) /\ BufferBehind(f, b, n, h) /\ h \cup gone \subseteq 1..n /\ m \in Nat /\ m <= n
  BY AuditConstants DEF LogInv, BufferBehind
<1> HIDE DEF m
<1>2. n + 1 \in EntryNo /\ n + 1 \in 0..MaxEntries /\ n + 1 \in Nat
  BY <1>1, AuditConstants DEF EntryNo
<1>3. /\ q \in Seq(EntryNo) /\ Len(q) = m + 1 /\ q # << >>
      /\ \A i \in 1..(m + 1) : q[i] = IF i = m + 1 THEN n + 1 ELSE b[i]
      /\ \A i \in 1..(m + 1) : i # m + 1 => i \in 1..m
      /\ m + 1 \in 1..(m + 1)
  <2>1. q \in Seq(EntryNo) /\ Len(q) = m + 1 /\ \A i \in 1..(m + 1) : q[i] = IF i = m + 1 THEN n + 1 ELSE b[i]
    BY <1>1, <1>2 DEF m
  <2>2. q # << >>
    <3> SUFFICES ASSUME q = << >> PROVE FALSE
      OBVIOUS
    <3>1. m + 1 = Len(<< >>)
      BY ONLY <2>1, q = << >>
    <3> QED BY <1>1, <3>1, NoEntries
  <2>3. (\A i \in 1..(m + 1) : i # m + 1 => i \in 1..m) /\ m + 1 \in 1..(m + 1)
    BY <1>1
  <2> QED BY <2>1, <2>2, <2>3
<1> HIDE DEF q
<1>4. \A i \in 1..m : b[i] \in Nat /\ b[i] <= n
  BY <1>1, EntryIsNat DEF BufferBehind, UpToNow, m
<1>5. Rising(q, h)
  <2> SUFFICES ASSUME NEW i \in 1..(m + 1), NEW j \in 1..(m + 1), i < j PROVE Fit(q[i], q[j], h)
    BY <1>3 DEF Rising
  <2>1. i \in 1..m
    BY <1>1
  <2>2. CASE j = m + 1
    BY <1>1, <1>3, <1>4, <2>1, <2>2 DEF Fit
  <2>3. CASE j # m + 1
    <3>1. j \in 1..m /\ q[i] = b[i] /\ q[j] = b[j]
      BY <1>1, <1>3, <2>1, <2>3
    <3> QED BY <1>1, <2>1, <3>1 DEF BufferBehind, Rising, m
  <2> QED BY <2>2, <2>3
<1>6. UpToNow(q, n + 1) /\ Len(q) <= n + 1
  <2>1. \A i \in 1..(m + 1) : q[i] <= n + 1
    BY <1>1, <1>3, <1>4
  <2> QED BY <1>1, <1>3, <2>1 DEF UpToNow
<1>7. ASSUME NEW k \in 0..MaxFiles PROVE Before(f[k], q, h) /\ UpToNow(f[k], n + 1)
  <2>1. \A i \in 1..Len(f[k]) : f[k][i] \in Nat /\ f[k][i] <= n
    BY <1>1, FileFacts DEF FilesInOrder, UpToNow
  <2>2. Before(f[k], b, h)
    BY <1>1 DEF BufferBehind
  <2>3. ASSUME NEW i \in 1..Len(f[k]), NEW j \in 1..(m + 1) PROVE Fit(f[k][i], q[j], h)
    <3>1. CASE j = m + 1
      BY <1>1, <1>3, <2>1, <3>1 DEF Fit
    <3>2. CASE j # m + 1
      BY <1>3, <2>2, <3>2 DEF Before, m
    <3> QED BY <3>1, <3>2
  <2>4. Before(f[k], q, h)
    BY <1>3, <2>3 DEF Before
  <2>5. \A i \in 1..Len(f[k]) : f[k][i] <= n + 1
    BY <1>1, <2>1
  <2> QED BY <2>4, <2>5 DEF UpToNow
<1>8. FilesInOrder(f, n + 1, h) /\ BufferBehind(f, q, n + 1, h) /\ h \cup gone \subseteq 1..(n + 1)
  BY <1>1, <1>5, <1>6, <1>7 DEF FilesInOrder, BufferBehind
<1>9. ASSUME fl = 0 PROVE Unbroken(f, h) /\ Whole(f, q, n + 1, gone)
  <2>1. Unbroken(f, h) /\ Whole(f, b, n, gone)
    BY <1>9 DEF LogInv
  <2>2. PICK first \in Nat : first >= 1 /\ first <= n + 1 /\ From(f, b, n, first, gone) /\ (first > 1 => InUse(f))
    BY <2>1 DEF Whole
  <2>3. ASSUME NEW x \in Nat PROVE Has(f, q, x) <=> first <= x /\ x <= n + 1 /\ x \notin gone
    <3>1. Has(f, b, x) <=> first <= x /\ x <= n /\ x \notin gone
      BY <2>2 DEF From
    <3>2. Holds(q, x) <=> x = n + 1 \/ Holds(b, x)
      <4>1. ASSUME Holds(q, x) PROVE x = n + 1 \/ Holds(b, x)
        <5>1. PICK i \in 1..(m + 1) : q[i] = x
          BY <1>3, <4>1 DEF Holds
        <5> QED BY <1>3, <5>1 DEF Holds, m
      <4>2. ASSUME Holds(b, x) PROVE Holds(q, x)
        <5>1. PICK i \in 1..m : b[i] = x
          BY <4>2 DEF Holds, m
        <5>2. i \in 1..(m + 1) /\ i # m + 1
          BY <1>1
        <5> QED BY <1>3, <5>1, <5>2 DEF Holds
      <4>3. x = n + 1 => Holds(q, x)
        BY <1>3 DEF Holds
      <4> QED BY <4>1, <4>2, <4>3
    <3>3. Has(f, q, x) <=> x = n + 1 \/ Has(f, b, x)
      BY <3>2 DEF Has
    <3>4. n + 1 \notin gone
      BY <1>1
    <3> QED BY <1>1, <2>2, <3>1, <3>3, <3>4
  <2>4. From(f, q, n + 1, first, gone)
    BY <2>3 DEF From
  <2>5. first <= (n + 1) + 1
    BY <1>1, <2>2
  <2> QED BY <2>1, <2>2, <2>4, <2>5 DEF Whole
<1> QED BY <1>1, <1>2, <1>3, <1>8, <1>9 DEF LogInv, q

(* The renames keep the order, whichever of them fail.                       *)
LEMMA ShiftedInOrder ==
  ASSUME NEW f \in Files, NEW n, NEW b, NEW h, FilesInOrder(f, n, h), BufferBehind(f, b, n, h), NEW fails
  PROVE  /\ Shifted(f, fails) \in Files /\ FilesInOrder(Shifted(f, fails), n, h)
         /\ BufferBehind(Shifted(f, fails), b, n, h)
<1> DEFINE g == Shifted(f, fails)
<1>0. MaxFiles \in Nat
  BY AuditConstants
<1>1. \A k \in 0..MaxFiles :
        \/ k - 1 \in 0..MaxFiles /\ Moves(f, fails, k - 1) /\ g[k] = f[k - 1]
        \/ ~Moves(f, fails, k - 1) /\ k \in fails /\ g[k] = f[k]
        \/ g[k] = << >>
  <2> TAKE k \in 0..MaxFiles
  <2>1. g[k] = Place(f, fails, k)
    BY DEF Shifted
  <2>2. Moves(f, fails, k - 1) => k - 1 \in 0..MaxFiles
    BY <1>0 DEF Moves
  <2> HIDE DEF g
  <2> QED BY <2>1, <2>2 DEF Place
<1>2. g \in Files
  <2>1. \A k \in 0..MaxFiles : g[k] \in Seq(Chunk)
    BY <1>1, NoEntries, FileFacts
  <2> QED BY <2>1 DEF Shifted, Files
<1> HIDE DEF g
<1>3. \A k \in 0..MaxFiles : Rising(g[k], h) /\ UpToNow(g[k], n) /\ Before(g[k], b, h)
  <2> TAKE k \in 0..MaxFiles
  <2>1. \A l \in 0..MaxFiles : Rising(f[l], h) /\ UpToNow(f[l], n) /\ Before(f[l], b, h)
    BY DEF FilesInOrder, BufferBehind
  <2> QED BY <1>1, <2>1, NoEntries
<1>4. ASSUME NEW k \in 0..MaxFiles, NEW l \in 0..MaxFiles, k < l PROVE Before(g[l], g[k], h)
  <2>0. k - 1 < l - 1 /\ k - 1 < l /\ (k = l - 1 \/ k < l - 1)
    BY <1>4
  <2>1. \A i, j \in 0..MaxFiles : i < j => Before(f[j], f[i], h)
    BY DEF FilesInOrder
  <2>2. CASE g[l] = << >> \/ g[k] = << >>
    BY <2>2, NoEntries
  <2>3. CASE l - 1 \in 0..MaxFiles /\ Moves(f, fails, l - 1) /\ g[l] = f[l - 1]
    <3>1. CASE k - 1 \in 0..MaxFiles /\ g[k] = f[k - 1]
      BY <2>0, <2>1, <2>3, <3>1
    <3>2. CASE k \in fails /\ g[k] = f[k]
      <4>1. k # l - 1
        BY <2>3, <3>2 DEF Moves
      <4>2. k < l - 1
        BY <2>0, <4>1
      <4> QED BY <2>1, <2>3, <3>2, <4>2
    <3> QED BY <1>1, <2>2, <3>1, <3>2
  <2>4. CASE g[l] = f[l]
    <3>1. CASE k - 1 \in 0..MaxFiles /\ g[k] = f[k - 1]
      BY <2>0, <2>1, <2>4, <3>1
    <3>2. CASE g[k] = f[k]
      BY <1>4, <2>1, <2>4, <3>2
    <3> QED BY <1>1, <2>2, <3>1, <3>2
  <2> QED BY <1>1, <2>2, <2>3, <2>4
<1>5. FilesInOrder(g, n, h)
  BY <1>3, <1>4 DEF FilesInOrder
<1>6. BufferBehind(g, b, n, h)
  BY <1>3 DEF BufferBehind
<1> QED BY <1>2, <1>5, <1>6 DEF g

(* Chunks written behind what the newest file has, and before the buffer.    *)
LEMMA AppendedInOrder ==
  ASSUME NEW f \in Files, NEW n \in Nat, NEW h, NEW c \in Seq(Chunk), NEW b,
         FilesInOrder(f, n, h), BufferBehind(f, b, n, h), Rising(c, h), UpToNow(c, n),
         \A k \in 0..MaxFiles : Before(f[k], c, h), Before(c, b, h)
  PROVE  /\ Appended(f, c) \in Files /\ FilesInOrder(Appended(f, c), n, h)
         /\ BufferBehind(Appended(f, c), b, n, h)
         /\ \A x : Holds(Appended(f, c)[0], x) <=> Holds(f[0], x) \/ Holds(c, x)
         /\ \A k \in 0..MaxFiles : k # 0 => Appended(f, c)[k] = f[k]
         /\ Appended(f, c)[0] = f[0] \o c
         /\ c # << >> => Appended(f, c)[0] # << >>
<1> DEFINE s == f[0]
           q == s \o c
           g == Appended(f, c)
<1>0. MaxFiles \in Nat /\ 0 \in 0..MaxFiles
  BY AuditConstants
<1>1. s \in Seq(Chunk) /\ Len(s) \in Nat /\ Len(c) \in Nat
      /\ (\A i \in 1..Len(s) : s[i] \in Nat) /\ \A i \in 1..Len(c) : c[i] \in Nat
  BY <1>0, FileFacts, ChunkIsNat
<1>2. \A k \in 0..MaxFiles : g[k] = IF k = 0 THEN q ELSE f[k]
  BY <1>0 DEF Appended, Files
<1>5. Rising(s, h) /\ UpToNow(s, n) /\ Before(s, c, h) /\ Before(s, b, h)
  BY <1>0 DEF FilesInOrder, BufferBehind
<1>6. /\ Len(q) = Len(s) + Len(c) /\ Rising(q, h)
      /\ \A i \in 1..(Len(s) + Len(c)) :
           \/ i \in 1..Len(s) /\ q[i] = s[i]
           \/ i - Len(s) \in 1..Len(c) /\ q[i] = c[i - Len(s)]
      /\ \A x : Holds(q, x) <=> Holds(s, x) \/ Holds(c, x)
  BY <1>1, <1>5, Joined
<1>3. q \in Seq(Chunk)
  BY <1>1, <1>5, Joined
<1>4. g \in Files
  BY <1>0, <1>3 DEF Appended, Files
<1>7. g[0] = f[0] \o c
  BY <1>0, <1>2
<1> HIDE DEF g, q, s
<1>8. UpToNow(q, n) /\ Before(q, b, h)
  BY <1>5, <1>6 DEF UpToNow, Before
<1>9. ASSUME NEW k \in 0..MaxFiles, k > 0 PROVE Before(f[k], q, h)
  <2>1. Before(f[k], s, h) /\ Before(f[k], c, h)
    BY <1>0, <1>9 DEF FilesInOrder, s
  <2> QED BY <1>6, <2>1 DEF Before
<1>10. FilesInOrder(g, n, h)
  <2>1. \A k \in 0..MaxFiles : Rising(g[k], h) /\ UpToNow(g[k], n)
    BY <1>2, <1>6, <1>8 DEF FilesInOrder
  <2>2. ASSUME NEW k \in 0..MaxFiles, NEW l \in 0..MaxFiles, k < l PROVE Before(g[l], g[k], h)
    <3>1. l > 0 /\ g[l] = f[l]
      BY <1>2, <2>2
    <3>2. CASE k = 0
      BY <1>2, <1>9, <3>1, <3>2
    <3>3. CASE k # 0
      BY <1>2, <2>2, <3>1, <3>3 DEF FilesInOrder
    <3> QED BY <3>2, <3>3
  <2> QED BY <2>1, <2>2 DEF FilesInOrder
<1>11. BufferBehind(g, b, n, h)
  <2>1. \A k \in 0..MaxFiles : Before(g[k], b, h)
    BY <1>2, <1>8 DEF BufferBehind
  <2> QED BY <2>1 DEF BufferBehind
<1>13. c # << >> => q # << >>
  <2>1. c # << >> => Len(c) # 0
    BY <1>1, EmptySeq
  <2>2. Len(c) # 0 => Len(q) # 0
    BY <1>1, <1>6
  <2> QED BY <2>1, <2>2, NoEntries
<1> QED BY <1>0, <1>2, <1>4, <1>6, <1>7, <1>10, <1>11, <1>13 DEF g, s

(* A whole batch, with nothing left in the buffer.                           *)
LEMMA BatchInOrder ==
  ASSUME NEW f \in Files, NEW n \in Nat, NEW h, NEW b \in Seq(EntryNo),
         FilesInOrder(f, n, h), BufferBehind(f, b, n, h)
  PROVE  /\ Appended(f, b) \in Files /\ FilesInOrder(Appended(f, b), n, h)
         /\ BufferBehind(Appended(f, b), << >>, n, h)
         /\ \A x : Holds(Appended(f, b)[0], x) <=> Holds(f[0], x) \/ Holds(b, x)
         /\ \A k \in 0..MaxFiles : k # 0 => Appended(f, b)[k] = f[k]
         /\ Appended(f, b)[0] = f[0] \o b
         /\ b # << >> => Appended(f, b)[0] # << >>
<1>1. b \in Seq(Chunk)
  BY EntryIsNat
<1>2. Rising(b, h) /\ UpToNow(b, n) /\ \A k \in 0..MaxFiles : Before(f[k], b, h)
  BY DEF BufferBehind
<1>3. BufferBehind(f, << >>, n, h) /\ Before(b, << >>, h)
  BY NoEntries DEF BufferBehind
<1> QED BY <1>1, <1>2, <1>3, AppendedInOrder

(* The first part of a batch that was put back.                              *)
LEMMA PartIs ==
  ASSUME NEW b \in Seq(EntryNo), NEW m \in 0..Len(b), NEW torn \in BOOLEAN
  PROVE  /\ FirstPart(b, m, torn) \in Seq(Chunk)
         /\ \A i \in 1..Len(FirstPart(b, m, torn)) :
              \/ FirstPart(b, m, torn)[i] = Torn
              \/ i \in 1..m /\ FirstPart(b, m, torn)[i] = b[i]
         /\ m = Len(b) /\ ~torn => FirstPart(b, m, torn) = b
<1> DEFINE s == SubSeq(b, 1, m)
           t == IF torn THEN <<Torn>> ELSE << >>
           c == FirstPart(b, m, torn)
<1>1. b \in Seq(Chunk) /\ Len(b) \in Nat /\ m \in Nat /\ m <= Len(b)
  BY EntryIsNat
<1>2. s \in Seq(Chunk) /\ Len(s) = m /\ \A i \in 1..m : s[i] = b[i]
  <2>1. \A i \in 1..m : i \in 1..Len(b)
    BY <1>1
  <2> QED BY <1>1, <2>1
<1>3. t \in Seq(Chunk) /\ Len(t) \in Nat /\ \A i \in 1..Len(t) : t[i] = Torn
  <2>1. Torn \in Chunk
    BY AuditConstants DEF Torn, Chunk
  <2> QED BY <2>1
<1>4. c = s \o t
  BY DEF FirstPart
<1> HIDE DEF s, t
<1>5. /\ s \o t \in Seq(Chunk) /\ Len(s \o t) = m + Len(t)
      /\ \A i \in 1..(m + Len(t)) : (s \o t)[i] = IF i <= m THEN s[i] ELSE t[i - m]
  BY <1>1, <1>2, <1>3, ConcatProperties
<1>6. ASSUME NEW i \in 1..(m + Len(t)) PROVE (s \o t)[i] = Torn \/ (i \in 1..m /\ (s \o t)[i] = b[i])
  <2>1. CASE i <= m
    <3>1. i \in 1..m
      BY <1>1, <1>3, <2>1
    <3> QED BY <1>2, <1>5, <2>1, <3>1
  <2>2. CASE ~(i <= m)
    <3>1. i - m \in 1..Len(t)
      BY <1>1, <1>3, <2>2
    <3> QED BY <1>3, <1>5, <2>2, <3>1
  <2> QED BY <2>1, <2>2
<1>7. ASSUME m = Len(b), ~torn PROVE s \o t = b
  <2>1. t = << >> /\ Len(t) = 0
    BY <1>7 DEF t
  <2>2. Len(s \o t) = Len(b) /\ \A i \in 1..Len(b) : (s \o t)[i] = b[i]
    BY <1>1, <1>2, <1>5, <1>7, <2>1
  <2> QED BY <1>1, <1>5, <2>2, SeqEqual
<1> HIDE DEF c
<1>8. c \in Seq(Chunk) /\ Len(c) = m + Len(t)
  BY <1>4, <1>5
<1>9. \A i \in 1..Len(c) : c[i] = Torn \/ (i \in 1..m /\ c[i] = b[i])
  BY <1>4, <1>6, <1>8
<1>10. m = Len(b) /\ ~torn => c = b
  BY <1>4, <1>7
<1> QED BY <1>8, <1>9, <1>10 DEF c

(* A write that failed: a first part of the batch is in the file, and what   *)
(* fits of the batch is in the buffer; they share the entries of that part.  *)
LEMMA PartInOrder ==
  ASSUME NEW f \in Files, NEW n \in Nat, NEW h, NEW b \in Seq(EntryNo), NEW m \in 0..Len(b),
         NEW torn \in BOOLEAN, NEW kept \in 0..Len(b), FilesInOrder(f, n, h), BufferBehind(f, b, n, h)
  PROVE  LET g == Appended(f, FirstPart(b, m, torn))
             twice == h \cup ToSet(SubSeq(b, 1, m))
         IN /\ g \in Files /\ SubSeq(b, 1, kept) \in Seq(EntryNo)
            /\ FilesInOrder(g, n, twice) /\ BufferBehind(g, SubSeq(b, 1, kept), n, twice)
            /\ ToSet(SubSeq(b, 1, m)) \subseteq 1..n
<1> DEFINE c == FirstPart(b, m, torn)
           piece == SubSeq(b, 1, m)
           q == SubSeq(b, 1, kept)
           twice == h \cup ToSet(piece)
<1>1. Len(b) \in Nat /\ m \in Nat /\ m <= Len(b) /\ kept \in Nat /\ kept <= Len(b)
  OBVIOUS
<1>2. \A i \in 1..Len(b) : b[i] \in Nat /\ b[i] \in EntryNo /\ b[i] # Torn
  BY EntryIsNat
<1>3. c \in Seq(Chunk) /\ \A i \in 1..Len(c) : c[i] = Torn \/ (i \in 1..m /\ c[i] = b[i])
  BY PartIs
<1>4. (\A i \in 1..m : i \in 1..Len(b)) /\ \A i \in 1..kept : i \in 1..Len(b)
  BY <1>1
<1>5. piece \in Seq(EntryNo) /\ DOMAIN piece = 1..m /\ \A i \in 1..m : piece[i] = b[i]
  BY <1>1, <1>4
<1>6. q \in Seq(EntryNo) /\ Len(q) = kept /\ \A i \in 1..kept : q[i] = b[i]
  BY <1>1, <1>4
<1>7. ToSet(piece) = {b[i] : i \in 1..m}
  <2> HIDE DEF piece
  <2>1. {piece[i] : i \in 1..m} = {b[i] : i \in 1..m}
    BY <1>5
  <2> QED BY <1>5, <2>1 DEF ToSet
<1> HIDE DEF c, piece, q
<1>8. Rising(b, h) /\ UpToNow(b, n) /\ Len(b) <= n /\ \A k \in 0..MaxFiles : Before(f[k], b, h)
  BY DEF BufferBehind
<1>9. /\ FilesInOrder(f, n, twice) /\ BufferBehind(f, b, n, twice)
      /\ Rising(b, twice) /\ \A k \in 0..MaxFiles : Before(f[k], b, twice)
  BY <1>8, Widened
<1>10. Rising(c, twice)
  <2> SUFFICES ASSUME NEW i \in 1..Len(c), NEW j \in 1..Len(c), i < j PROVE Fit(c[i], c[j], twice)
    BY DEF Rising
  <2>1. CASE c[i] = Torn \/ c[j] = Torn
    BY <2>1 DEF Fit
  <2>2. CASE ~(c[i] = Torn \/ c[j] = Torn)
    <3>1. i \in 1..Len(b) /\ j \in 1..Len(b) /\ c[i] = b[i] /\ c[j] = b[j]
      BY <1>3, <1>4, <2>2
    <3> QED BY <1>9, <3>1 DEF Rising
  <2> QED BY <2>1, <2>2
<1>11. UpToNow(c, n)
  <2> SUFFICES ASSUME NEW i \in 1..Len(c) PROVE c[i] <= n
    BY DEF UpToNow
  <2>1. Torn <= n
    BY DEF Torn
  <2> QED BY <1>3, <1>4, <1>8, <2>1 DEF UpToNow
<1>12. ASSUME NEW k \in 0..MaxFiles PROVE Before(f[k], c, twice)
  <2> SUFFICES ASSUME NEW i \in 1..Len(f[k]), NEW j \in 1..Len(c) PROVE Fit(f[k][i], c[j], twice)
    BY DEF Before
  <2>1. CASE c[j] = Torn
    BY <2>1 DEF Fit
  <2>2. CASE c[j] # Torn
    <3>1. j \in 1..Len(b) /\ c[j] = b[j]
      BY <1>3, <1>4, <2>2
    <3> QED BY <1>9, <3>1 DEF Before
  <2> QED BY <2>1, <2>2
<1>13. Before(c, q, twice)
  <2> SUFFICES ASSUME NEW i \in 1..Len(c), NEW j \in 1..kept PROVE Fit(c[i], b[j], twice)
    BY <1>6 DEF Before
  <2>1. CASE c[i] = Torn
    BY <2>1 DEF Fit
  <2>2. CASE c[i] # Torn
    <3>1. i \in 1..m /\ c[i] = b[i]
      BY <1>3, <2>2
    <3>2. CASE i < j
      BY <1>4, <1>9, <3>1, <3>2 DEF Rising
    <3>3. CASE ~(i < j)
      <4>1. j \in 1..m
        BY <1>1, <3>1, <3>3
      <4> QED BY <1>7, <3>1, <4>1 DEF Fit
    <3> QED BY <3>2, <3>3
  <2> QED BY <2>1, <2>2
<1>14. BufferBehind(f, q, n, twice)
  <2>1. Rising(q, twice)
    BY <1>4, <1>6, <1>9 DEF Rising
  <2>2. UpToNow(q, n)
    BY <1>4, <1>6, <1>8 DEF UpToNow
  <2>3. Len(q) <= n
    BY <1>1, <1>6, <1>8
  <2>4. \A k \in 0..MaxFiles : Before(f[k], q, twice)
    BY <1>4, <1>6, <1>9 DEF Before
  <2> QED BY <2>1, <2>2, <2>3, <2>4 DEF BufferBehind
<1>15. ToSet(piece) \subseteq 1..n
  <2>1. \A i \in 1..m : b[i] \in 1..n
    BY <1>2, <1>4, <1>8 DEF UpToNow, EntryNo
  <2> QED BY <1>7, <2>1
<1> HIDE DEF twice
<1>16. Appended(f, c) \in Files /\ FilesInOrder(Appended(f, c), n, twice) /\ BufferBehind(Appended(f, c), q, n, twice)
  BY <1>3, <1>9, <1>10, <1>11, <1>12, <1>13, <1>14, AppendedInOrder
<1> QED BY <1>6, <1>15, <1>16 DEF twice, c, piece, q

(* Nothing failed: nothing is lost but the oldest file, and that only when   *)
(* every file is in use.                                                     *)
LEMMA ShiftedWhole ==
  ASSUME NEW f \in Files, NEW n \in Nat, NEW b \in Seq(EntryNo), NEW gone,
         FilesInOrder(f, n, {}), BufferBehind(f, b, n, {}), Unbroken(f, {}), Whole(f, b, n, gone), b # << >>
  PROVE  /\ Whole(Appended(Shifted(f, {}), b), << >>, n, gone)
         /\ Unbroken(Appended(Shifted(f, {}), b), {})
<1> DEFINE g == Shifted(f, {})
           h == Appended(g, b)
<1>0. MaxFiles \in Nat /\ MaxFiles >= 1 /\ 0 \in 0..MaxFiles /\ MaxFiles \in 0..MaxFiles
  BY AuditConstants
<1>1. \A k \in 0..MaxFiles : g[k] = IF k = 0 THEN << >> ELSE f[k - 1]
  <2> TAKE k \in 0..MaxFiles
  <2>1. g[k] = Place(f, {}, k)
    BY DEF Shifted
  <2>2. CASE k = 0
    <3>1. ~Moves(f, {}, k - 1)
      BY <1>0, <2>2 DEF Moves
    <3> QED BY <2>1, <2>2, <3>1 DEF Place
  <2>3. CASE k # 0
    <3>1. k - 1 \in 0..(MaxFiles - 1)
      BY <1>0, <2>3
    <3>2. Moves(f, {}, k - 1) <=> f[k - 1] # << >>
      BY <3>1 DEF Moves
    <3> HIDE DEF g
    <3> QED BY <2>1, <2>3, <3>2 DEF Place
  <2> QED BY <2>2, <2>3
<1>2. g \in Files /\ FilesInOrder(g, n, {}) /\ BufferBehind(g, b, n, {})
  BY ShiftedInOrder
<1> HIDE DEF g
<1>3. /\ h \in Files
      /\ \A x : Holds(h[0], x) <=> Holds(g[0], x) \/ Holds(b, x)
      /\ \A k \in 0..MaxFiles : k # 0 => h[k] = g[k]
      /\ h[0] = g[0] \o b /\ h[0] # << >>
  BY <1>2, BatchInOrder
<1> HIDE DEF h
<1>4. \A x : Holds(h[0], x) <=> Holds(b, x)
  BY <1>0, <1>1, <1>3, NoEntries
<1>5. \A k \in 1..MaxFiles : k \in 0..MaxFiles /\ k # 0 /\ h[k] = f[k - 1] /\ k - 1 \in 0..(MaxFiles - 1)
  <2> TAKE k \in 1..MaxFiles
  <2>1. k \in 0..MaxFiles /\ k # 0 /\ k - 1 \in 0..(MaxFiles - 1)
    BY <1>0
  <2> QED BY <1>1, <1>3, <2>1
<1>6. FilledUp(f) /\ \E first \in Nat : first >= 1 /\ first <= n + 1 /\ From(f, b, n, first, gone) /\ (first > 1 => InUse(f))
  BY DEF Whole
<1>7. PICK first \in Nat : first >= 1 /\ first <= n + 1 /\ From(f, b, n, first, gone) /\ (first > 1 => InUse(f))
  BY <1>6
<1>8. FilledUp(h)
  <2> SUFFICES ASSUME NEW k \in 0..(MaxFiles - 1), h[k + 1] # << >> PROVE h[k] # << >>
    BY DEF FilledUp
  <2>1. CASE k = 0
    BY <1>3, <2>1
  <2>2. CASE k # 0
    <3>1. k \in 1..MaxFiles /\ k + 1 \in 1..MaxFiles /\ (k + 1) - 1 = k /\ k - 1 \in 0..(MaxFiles - 1) /\ (k - 1) + 1 = k
      BY <1>0, <2>2
    <3>2. h[k + 1] = f[k] /\ h[k] = f[k - 1]
      BY <1>5, <3>1
    <3> QED BY <1>6, <3>1, <3>2 DEF FilledUp
  <2> QED BY <2>1, <2>2
(* What is left is what the files before the last had, and the batch.        *)
<1>9. \A x : Has(h, << >>, x) <=> Holds(b, x) \/ \E k \in 0..(MaxFiles - 1) : Holds(f[k], x)
  <2> TAKE x
  <2>1. ASSUME NEW k \in 0..MaxFiles, Holds(h[k], x)
        PROVE  Holds(b, x) \/ \E l \in 0..(MaxFiles - 1) : Holds(f[l], x)
    <3>1. CASE k = 0
      BY <1>4, <2>1, <3>1
    <3>2. CASE k # 0
      <4>1. k \in 1..MaxFiles
        BY <3>2
      <4> QED BY <1>5, <2>1, <4>1
    <3> QED BY <3>1, <3>2
  <2>2. ASSUME NEW k \in 0..(MaxFiles - 1), Holds(f[k], x) PROVE Has(h, << >>, x)
    <3>1. k + 1 \in 1..MaxFiles /\ (k + 1) - 1 = k
      BY <1>0
    <3>2. Holds(h[k + 1], x) /\ k + 1 \in 0..MaxFiles
      BY <1>5, <2>2, <3>1
    <3> QED BY <3>2 DEF Has
  <2>3. Holds(b, x) => Has(h, << >>, x)
    BY <1>0, <1>4 DEF Has
  <2> QED BY <2>1, <2>2, <2>3, NoEntries DEF Has
<1>10. ASSUME f[MaxFiles] = << >> PROVE Whole(h, << >>, n, gone)
  <2>1. \A x : Has(f, b, x) <=> Has(h, << >>, x)
    <3> TAKE x
    <3>1. ASSUME NEW k \in 0..MaxFiles, Holds(f[k], x) PROVE k \in 0..(MaxFiles - 1)
      <4>1. k # MaxFiles
        BY <1>10, <3>1, NoEntries
      <4> QED BY <1>0, <4>1
    <3>2. \A k \in 0..(MaxFiles - 1) : k \in 0..MaxFiles
      BY <1>0
    <3> QED BY <1>9, <3>1, <3>2 DEF Has
  <2>2. From(h, << >>, n, first, gone)
    BY <1>7, <2>1 DEF From
  <2>3. ~(first > 1)
    BY <1>0, <1>7, <1>10 DEF InUse
  <2> QED BY <1>7, <1>8, <2>2, <2>3 DEF Whole
<1>11. ASSUME f[MaxFiles] # << >> PROVE Whole(h, << >>, n, gone)
  <2> DEFINE s == f[MaxFiles]
             m == Len(s)
             last == s[m]
  <2>1. s \in Seq(EntryNo) /\ m \in Nat /\ m # 0 /\ m \in 1..m /\ last \in Nat /\ \A i \in 1..m : s[i] \in Nat
    <3>1. s \in Seq(EntryNo)
      BY <1>0 DEF Unbroken
    <3>3. m \in Nat /\ \A i \in 1..m : s[i] \in Nat
      BY <3>1, EntryIsNat
    <3>2. m # 0
      BY <1>11, <3>1, <3>3, EmptySeq
    <3> QED BY <3>1, <3>2, <3>3
  <2> HIDE DEF m
  <2>2. Rising(s, {}) /\ UpToNow(s, n)
    BY <1>0 DEF FilesInOrder
  <2>3. \A i \in 1..m : s[i] <= last
    <3> TAKE i \in 1..m
    <3>1. i < m \/ i = m
      BY <2>1
    <3>2. i < m => s[i] < last
      BY <2>1, <2>2, Strictly DEF m
    <3> QED BY <2>1, <3>1, <3>2
  <2>4. Has(f, b, last)
    BY <1>0, <2>1 DEF Has, Holds, m
  <2>5. first <= last /\ last <= n
    BY <1>7, <2>1, <2>4 DEF From
  <2>6. ASSUME NEW x \in Nat PROVE Has(h, << >>, x) <=> last + 1 <= x /\ x <= n /\ x \notin gone
    <3>1. ASSUME Has(h, << >>, x) PROVE last < x /\ Has(f, b, x)
      <4>1. CASE Holds(b, x)
        <5>1. PICK j \in 1..Len(b) : b[j] = x
          BY <4>1 DEF Holds
        <5>2. Before(s, b, {})
          BY <1>0 DEF BufferBehind
        <5>3. last < b[j]
          BY <2>1, <5>2, Strictly DEF m
        <5> QED BY <4>1, <5>1, <5>3 DEF Has
      <4>2. ASSUME NEW k \in 0..(MaxFiles - 1), Holds(f[k], x) PROVE last < x /\ Has(f, b, x)
        <5>1. PICK j \in 1..Len(f[k]) : f[k][j] = x
          BY <4>2 DEF Holds
        <5>2. k \in 0..MaxFiles /\ k < MaxFiles
          BY <1>0
        <5>3. Before(s, f[k], {}) /\ f[k] \in Seq(EntryNo)
          BY <1>0, <5>2 DEF FilesInOrder, Unbroken
        <5>4. last < f[k][j]
          BY <2>1, <5>3, Strictly DEF m
        <5> QED BY <4>2, <5>1, <5>2, <5>4 DEF Has
      <4> QED BY <1>9, <3>1, <4>1, <4>2
    <3>2. ASSUME Has(f, b, x), last < x PROVE Has(h, << >>, x)
      <4>1. ~Holds(s, x)
        <5> SUFFICES ASSUME Holds(s, x) PROVE FALSE
          OBVIOUS
        <5>1. PICK i \in 1..m : s[i] = x
          BY DEF Holds, m
        <5> QED BY <2>1, <2>3, <3>2, <5>1
      <4>2. ASSUME NEW k \in 0..MaxFiles, Holds(f[k], x) PROVE k \in 0..(MaxFiles - 1)
        <5>1. k # MaxFiles
          BY <4>1, <4>2
        <5> QED BY <1>0, <5>1
      <4> QED BY <1>9, <3>2, <4>2 DEF Has
    <3>3. Has(f, b, x) <=> first <= x /\ x <= n /\ x \notin gone
      BY <1>7 DEF From
    <3>4. last < x <=> last + 1 <= x
      BY <2>1
    <3>5. last < x => first <= x
      BY <2>1, <2>5
    <3> QED BY <3>1, <3>2, <3>3, <3>4, <3>5
  <2>7. From(h, << >>, n, last + 1, gone)
    BY <2>6 DEF From
  <2>8. InUse(h)
    <3>1. \A k \in 0..MaxFiles : f[k] # << >>
      <4> DEFINE Bad == {d \in Nat : d <= MaxFiles /\ f[MaxFiles - d] = << >>}
      <4>1. Bad = {}
        <5> SUFFICES ASSUME Bad # {} PROVE FALSE
          OBVIOUS
        <5>1. PICK d \in Bad : \A e \in Bad : d <= e
          BY LeastOf
        <5>2. d \in Nat /\ d <= MaxFiles /\ f[MaxFiles - d] = << >>
          OBVIOUS
        <5>3. d # 0
          BY <1>0, <1>11, <5>2
        <5>4. d - 1 \in Nat /\ d - 1 <= MaxFiles /\ ~(d <= d - 1) /\ MaxFiles - d \in 0..(MaxFiles - 1)
              /\ (MaxFiles - d) + 1 = MaxFiles - (d - 1)
          BY <1>0, <5>2, <5>3
        <5>5. f[MaxFiles - (d - 1)] # << >>
          BY <5>1, <5>4
        <5> QED BY <1>6, <5>2, <5>4, <5>5 DEF FilledUp
      <4>2. \A k \in 0..MaxFiles : MaxFiles - k \in Nat /\ MaxFiles - k <= MaxFiles /\ MaxFiles - (MaxFiles - k) = k
        BY <1>0
      <4> QED BY <4>1, <4>2
    <3> SUFFICES ASSUME NEW k \in 0..MaxFiles PROVE h[k] # << >>
      BY DEF InUse
    <3>2. CASE k = 0
      BY <1>3, <3>2
    <3>3. CASE k # 0
      <4>1. k \in 1..MaxFiles /\ k - 1 \in 0..MaxFiles
        BY <1>0, <3>3
      <4> QED BY <1>5, <3>1, <4>1
    <3> QED BY <3>2, <3>3
  <2>9. last + 1 \in Nat /\ last + 1 >= 1 /\ last + 1 <= n + 1
    BY <2>1, <2>5
  <2> HIDE DEF last
  <2> QED BY <1>8, <2>7, <2>8, <2>9 DEF Whole
<1>12. Unbroken(h, {})
  <2> SUFFICES ASSUME NEW k \in 0..MaxFiles PROVE h[k] \in Seq(EntryNo)
    BY DEF Unbroken
  <2>1. CASE k = 0
    <3>1. h[0] = << >> \o b
      BY <1>0, <1>1, <1>3
    <3> QED BY <2>1, <3>1
  <2>2. CASE k # 0
    <3>1. k \in 1..MaxFiles /\ k - 1 \in 0..MaxFiles
      BY <1>0, <2>2
    <3> QED BY <1>5, <3>1 DEF Unbroken
  <2> QED BY <2>1, <2>2
<1> QED BY <1>10, <1>11, <1>12 DEF h, g

LEMMA AppendedWhole ==
  ASSUME NEW f \in Files, NEW n \in Nat, NEW b \in Seq(EntryNo), NEW gone,
         FilesInOrder(f, n, {}), BufferBehind(f, b, n, {}), Unbroken(f, {}), Whole(f, b, n, gone), b # << >>
  PROVE  Whole(Appended(f, b), << >>, n, gone) /\ Unbroken(Appended(f, b), {})
<1> DEFINE h == Appended(f, b)
<1>0. MaxFiles \in Nat /\ 0 \in 0..MaxFiles
  BY AuditConstants
<1>1. /\ \A x : Holds(h[0], x) <=> Holds(f[0], x) \/ Holds(b, x)
      /\ \A k \in 0..MaxFiles : k # 0 => h[k] = f[k]
      /\ h[0] = f[0] \o b /\ h[0] # << >>
  BY BatchInOrder
<1> HIDE DEF h
<1>2. FilledUp(f) /\ \E first \in Nat : first >= 1 /\ first <= n + 1 /\ From(f, b, n, first, gone) /\ (first > 1 => InUse(f))
  BY DEF Whole
<1>3. PICK first \in Nat : first >= 1 /\ first <= n + 1 /\ From(f, b, n, first, gone) /\ (first > 1 => InUse(f))
  BY <1>2
<1>4. \A x : Has(h, << >>, x) <=> Has(f, b, x)
  <2> TAKE x
  <2>1. \A k \in 0..MaxFiles : Holds(h[k], x) <=> (Holds(f[k], x) \/ (k = 0 /\ Holds(b, x)))
    BY <1>1
  <2> QED BY <1>0, <2>1, NoEntries DEF Has
<1>5. FilledUp(h)
  <2> SUFFICES ASSUME NEW k \in 0..(MaxFiles - 1), h[k + 1] # << >> PROVE h[k] # << >>
    BY DEF FilledUp
  <2>1. k + 1 \in 0..MaxFiles /\ k + 1 # 0 /\ k \in 0..MaxFiles
    BY <1>0
  <2> QED BY <1>1, <1>2, <2>1 DEF FilledUp
<1>6. From(h, << >>, n, first, gone)
  BY <1>3, <1>4 DEF From
<1>7. InUse(f) => InUse(h)
  BY <1>1 DEF InUse
<1>8. Unbroken(h, {})
  <2>1. f[0] \o b \in Seq(EntryNo)
    BY <1>0 DEF Unbroken
  <2> QED BY <1>1, <2>1 DEF Unbroken
<1> QED BY <1>3, <1>5, <1>6, <1>7, <1>8 DEF Whole, h

(* A flush, written or not, after a rotation or without one.                 *)
LEMMA FlushKeeps ==
  ASSUME NEW batch, NEW n, LogInv(logFile, batch, n, failures, halfway, lost), batch # << >>,
         currentSize \in Nat, FlushEntries(batch)
  PROVE  LogInv(logFile', buffer', n, failures', halfway', lost') /\ currentSize' \in Nat
<1> DEFINE size == currentSize + Len(batch)
           full == size > MaxFileSize
           kept == IF Len(batch) < MaxBuffered THEN Len(batch) ELSE MaxBuffered
<1>1. PICK fails \in (IF full THEN SUBSET (0..MaxFiles) ELSE {{}}),
           written, torn \in BOOLEAN, reached \in 0..Len(batch) :
        /\ IF written THEN reached = Len(batch) /\ ~torn ELSE torn => reached < Len(batch)
        /\ failures + Cardinality(fails) + (IF written THEN 0 ELSE 1) <= MaxFailures
        /\ failures' = failures + Cardinality(fails) + (IF written THEN 0 ELSE 1)
        /\ logFile' = Appended(IF full THEN Rotated(fails) ELSE logFile, FirstPart(batch, reached, torn))
        /\ currentSize' = IF full THEN 0 ELSE size
        /\ buffer' = IF written THEN << >> ELSE SubSeq(batch, 1, kept)
        /\ overflow' = overflow \cup (ToSet(batch) \ (ToSet(buffer') \cup ToSet(logFile'[0])))
        /\ halfway' = IF written THEN halfway ELSE halfway \cup ToSet(SubSeq(batch, 1, reached))
        /\ UNCHANGED lost
  BY Zenon DEF FlushEntries
<1> DEFINE files == IF full THEN Rotated(fails) ELSE logFile
<1>2. /\ logFile \in Files /\ batch \in Seq(EntryNo) /\ n \in 0..MaxEntries /\ n \in Nat /\ failures \in Nat
      /\ FilesInOrder(logFile, n, halfway) /\ BufferBehind(logFile, batch, n, halfway)
      /\ halfway \cup lost \subseteq 1..n
      /\ failures = 0 => Unbroken(logFile, halfway) /\ Whole(logFile, batch, n, lost)
  BY AuditConstants DEF LogInv
<1>3. Len(batch) \in Nat /\ size \in Nat /\ kept \in 0..Len(batch)
  BY <1>2, AuditConstants
<1>4. currentSize' \in Nat
  BY <1>1, <1>3
<1>5. fails \in SUBSET (0..MaxFiles)
  BY <1>1
<1>6. Cardinality(fails) \in Nat /\ (Cardinality(fails) = 0 => fails = {})
  <2>1. IsFiniteSet(0..MaxFiles)
    BY AuditConstants, FS_Interval
  <2>2. IsFiniteSet(fails)
    BY <1>5, <2>1, FS_Subset
  <2> QED BY <2>2, FS_CardinalityType, FS_EmptySet
<1> HIDE DEF size, kept
<1>7. failures' \in Nat /\ (failures' = 0 => failures = 0 /\ fails = {} /\ written)
  <2> DEFINE c == Cardinality(fails)
  <2>1. c \in Nat /\ failures \in Nat
    BY <1>2, <1>6
  <2> HIDE DEF c
  <2>2. failures' = failures + c + (IF written THEN 0 ELSE 1)
    BY <1>1 DEF c
  <2>3. failures' \in Nat /\ (failures' = 0 => failures = 0 /\ c = 0 /\ written)
    <3>1. CASE written
      BY <2>1, <2>2, <3>1
    <3>2. CASE ~written
      BY <2>1, <2>2, <3>2
    <3> QED BY <3>1, <3>2
  <2> QED BY <1>6, <2>3 DEF c
<1>8. files \in Files /\ FilesInOrder(files, n, halfway) /\ BufferBehind(files, batch, n, halfway)
  <2>1. CASE full
    <3>1. files = Shifted(logFile, fails)
      BY <1>2, <2>1, RotatedIs
    <3> HIDE DEF files, full
    <3> QED BY <1>2, <3>1, ShiftedInOrder
  <2>2. CASE ~full
    BY <1>2, <2>2
  <2> QED BY <2>1, <2>2
<1>9. fails = {} /\ failures = 0 =>
        Whole(Appended(files, batch), << >>, n, lost) /\ Unbroken(Appended(files, batch), halfway)
  <2> SUFFICES ASSUME fails = {}, failures = 0
               PROVE  Whole(Appended(files, batch), << >>, n, lost) /\ Unbroken(Appended(files, batch), halfway)
    OBVIOUS
  <2>0. halfway = {} /\ Unbroken(logFile, {})
    BY <1>2 DEF Unbroken
  <2>1. CASE full
    <3>1. files = Shifted(logFile, {})
      BY <1>2, <2>1, RotatedIs
    <3> HIDE DEF files, full
    <3> QED BY <1>2, <2>0, <3>1, ShiftedWhole
  <2>2. CASE ~full
    <3>1. files = logFile
      BY <2>2
    <3> HIDE DEF files, full
    <3> QED BY <1>2, <2>0, <3>1, AppendedWhole
  <2> QED BY <2>1, <2>2
<1>10. logFile' = Appended(files, FirstPart(batch, reached, torn))
  BY <1>1
<1> HIDE DEF files, full
<1>11. CASE written
  <2>1. logFile' = Appended(files, batch) /\ buffer' = << >> /\ halfway' = halfway /\ lost' = lost
    BY <1>1, <1>2, <1>10, <1>11, PartIs
  <2>2. /\ Appended(files, batch) \in Files /\ FilesInOrder(Appended(files, batch), n, halfway)
        /\ BufferBehind(Appended(files, batch), << >>, n, halfway)
    BY <1>2, <1>8, BatchInOrder
  <2>3. LogInv(Appended(files, batch), << >>, n, failures', halfway, lost)
    BY <1>2, <1>7, <1>9, <2>2, NoEntries DEF LogInv
  <2> QED BY <1>4, <2>1, <2>3
<1>12. CASE ~written
  <2> DEFINE twice == halfway \cup ToSet(SubSeq(batch, 1, reached))
             putBack == SubSeq(batch, 1, kept)
             now == Appended(files, FirstPart(batch, reached, torn))
  <2>1. logFile' = now /\ buffer' = putBack /\ halfway' = twice /\ lost' = lost
    BY <1>1, <1>10, <1>12
  <2>2. /\ now \in Files /\ putBack \in Seq(EntryNo) /\ FilesInOrder(now, n, twice) /\ BufferBehind(now, putBack, n, twice)
        /\ ToSet(SubSeq(batch, 1, reached)) \subseteq 1..n
    BY <1>2, <1>3, <1>8, PartInOrder
  <2>3. twice \cup lost \subseteq 1..n
    BY <1>2, <2>2
  <2> HIDE DEF twice, putBack, now
  <2>4. LogInv(now, putBack, n, failures', twice, lost)
    BY <1>2, <1>7, <1>12, <2>2, <2>3 DEF LogInv
  <2> QED BY <1>4, <2>1, <2>4
<1> QED BY <1>11, <1>12

(* The process dies with what it had in its buffer.                          *)
LEMMA BufferLost ==
  ASSUME NEW f, NEW b, NEW n, NEW fl, NEW h, NEW gone, LogInv(f, b, n, fl, h, gone)
  PROVE  LogInv(f, << >>, n, fl, h, gone \cup ToSet(b))
<1>1. /\ f \in Files /\ b \in Seq(EntryNo) /\ n \in 0..MaxEntries /\ n \in Nat /\ fl \in Nat
      /\ FilesInOrder(f, n, h) /\ BufferBehind(f, b, n, h) /\ h \cup gone \subseteq 1..n
      /\ fl = 0 => Unbroken(f, h) /\ Whole(f, b, n, gone)
  BY AuditConstants DEF LogInv
<1>2. BufferBehind(f, << >>, n, h)
  BY <1>1, NoEntries DEF BufferBehind
<1>3. DOMAIN b = 1..Len(b) /\ ToSet(b) = {b[i] : i \in 1..Len(b)}
  BY <1>1 DEF ToSet
<1>4. ToSet(b) \subseteq 1..n
  <2>1. \A i \in 1..Len(b) : b[i] \in EntryNo /\ b[i] <= n
    BY <1>1, EntryIsNat DEF BufferBehind, UpToNow
  <2>2. \A i \in 1..Len(b) : b[i] \in 1..n
    BY <1>1, <2>1, AuditConstants DEF EntryNo
  <2> QED BY <1>3, <2>2
<1>5. ASSUME fl = 0 PROVE Whole(f, << >>, n, gone \cup ToSet(b))
  <2>1. h = {} /\ Unbroken(f, {}) /\ Whole(f, b, n, gone)
    BY <1>1, <1>5 DEF Unbroken
  <2>2. PICK first \in Nat : first >= 1 /\ first <= n + 1 /\ From(f, b, n, first, gone) /\ (first > 1 => InUse(f))
    BY <2>1 DEF Whole
  <2>3. ASSUME NEW k \in 0..MaxFiles, NEW x, Holds(f[k], x) PROVE x \notin ToSet(b)
    <3> SUFFICES ASSUME x \in ToSet(b) PROVE FALSE
      OBVIOUS
    <3>1. PICK i \in 1..Len(b) : b[i] = x
      BY <1>3
    <3>2. PICK j \in 1..Len(f[k]) : f[k][j] = x
      BY <2>3 DEF Holds
    <3>3. Before(f[k], b, {}) /\ f[k] \in Seq(EntryNo)
      BY <1>1, <2>1 DEF BufferBehind, Unbroken
    <3>4. x < x
      BY <1>1, <3>1, <3>2, <3>3, Strictly
    <3>5. x \in Nat
      BY <1>1, <3>1, EntryIsNat
    <3> QED BY <3>4, <3>5
  <2>4. ASSUME NEW x PROVE Has(f, << >>, x) <=> Has(f, b, x) /\ x \notin ToSet(b)
    <3>1. Has(f, << >>, x) <=> \E k \in 0..MaxFiles : Holds(f[k], x)
      BY NoEntries DEF Has
    <3>2. Holds(b, x) <=> x \in ToSet(b)
      BY <1>3 DEF Holds
    <3> QED BY <2>3, <3>1, <3>2 DEF Has
  <2>5. From(f, << >>, n, first, gone \cup ToSet(b))
    <3> SUFFICES ASSUME NEW x \in Nat
                 PROVE  Has(f, << >>, x) <=> first <= x /\ x <= n /\ x \notin gone \cup ToSet(b)
      BY DEF From
    <3>1. Has(f, b, x) <=> first <= x /\ x <= n /\ x \notin gone
      BY <2>2 DEF From
    <3> QED BY <2>4, <3>1
  <2> QED BY <2>1, <2>2, <2>5 DEF Whole
<1> QED BY <1>1, <1>2, <1>4, <1>5, NoEntries DEF LogInv

AuditInv == LogInv(logFile, buffer, logged, failures, halfway, lost) /\ currentSize \in Nat

LEMMA AuditStart == ASSUME AuditInit PROVE AuditInv
<1>0. MaxFiles \in Nat /\ MaxEntries \in Nat /\ 0 \in 0..MaxEntries
  BY AuditConstants
<1>1. buffer = << >> /\ logFile = [i \in 0..MaxFiles |-> << >>] /\ currentSize = 0 /\ logged = 0 /\ failures = 0
      /\ halfway = {} /\ lost = {}
  BY DEF AuditInit
<1>2. logFile \in Files
  BY <1>1, NoEntries DEF Files
<1>3. \A k \in 0..MaxFiles : logFile[k] = << >>
  BY <1>1
<1>4. FilesInOrder(logFile, 0, {})
  BY <1>3, NoEntries DEF FilesInOrder
<1>5. BufferBehind(logFile, << >>, 0, {})
  BY <1>3, NoEntries DEF BufferBehind
<1>6. Unbroken(logFile, {}) /\ Whole(logFile, << >>, 0, {})
  <2>1. \A x : ~Has(logFile, << >>, x)
    BY <1>3, NoEntries DEF Has
  <2>2. From(logFile, << >>, 0, 1, {})
    BY <2>1 DEF From
  <2>3. FilledUp(logFile)
    <3>1. \A k \in 0..(MaxFiles - 1) : k + 1 \in 0..MaxFiles
      BY <1>0
    <3> QED BY <1>3, <3>1 DEF FilledUp
  <2>4. Unbroken(logFile, {})
    BY <1>3, NoEntries DEF Unbroken
  <2> QED BY <2>2, <2>3, <2>4 DEF Whole
<1>7. LogInv(logFile, << >>, 0, 0, {}, {})
  BY <1>0, <1>2, <1>4, <1>5, <1>6, NoEntries DEF LogInv
<1> QED BY <1>1, <1>7 DEF AuditInv

LEMMA AuditStep == ASSUME AuditInv, [AuditNext]_auditVars PROVE AuditInv'
<1>1. LogInv(logFile, buffer, logged, failures, halfway, lost) /\ currentSize \in Nat
  BY DEF AuditInv
<1>2. SUFFICES LogInv(logFile', buffer', logged', failures', halfway', lost') /\ currentSize' \in Nat
  BY DEF AuditInv
<1>3. CASE Flush
  <2>1. buffer # << >> /\ FlushEntries(buffer) /\ logged' = logged
    BY <1>3 DEF Flush
  <2> QED BY <1>1, <2>1, FlushKeeps
<1>4. logged < MaxEntries => LogInv(logFile, Append(buffer, logged + 1), logged + 1, failures, halfway, lost)
                             /\ Append(buffer, logged + 1) # << >>
  BY <1>1, EntryAdded
<1>5. CASE LogRequest
  <2>1. logged < MaxEntries /\ logged' = logged + 1
    BY <1>5 DEF LogRequest
  <2>2. \/ FlushEntries(Append(buffer, logged + 1))
        \/ /\ buffer' = Append(buffer, logged + 1)
           /\ UNCHANGED <<logFile, currentSize, failures, halfway, lost>>
    BY <1>5 DEF LogRequest
  <2>3. CASE FlushEntries(Append(buffer, logged + 1))
    BY <1>1, <1>4, <2>1, <2>3, FlushKeeps
  <2>4. CASE buffer' = Append(buffer, logged + 1) /\ UNCHANGED <<logFile, currentSize, failures, halfway, lost>>
    BY <1>1, <1>4, <2>1, <2>4
  <2> QED BY <2>2, <2>3, <2>4
<1>6. CASE LogEvent
  BY <1>1, <1>4, <1>6 DEF LogEvent
<1>7. CASE Restart
  <2>1. 0 \in 0..MaxFiles /\ logFile \in Files
    BY <1>1, AuditConstants DEF LogInv
  <2>2. Len(logFile[0]) \in Nat
    BY <2>1, FileFacts
  <2>3. LogInv(logFile, << >>, logged, failures, halfway, lost \cup ToSet(buffer))
    BY <1>1, BufferLost
  <2> QED BY <1>7, <2>2, <2>3 DEF Restart
<1>8. CASE UNCHANGED auditVars
  BY <1>1, <1>8 DEF auditVars
<1> QED BY <1>3, <1>5, <1>6, <1>7, <1>8 DEF AuditNext

(* The lists q, joined from the first on.                                    *)
Joins(q, r, n) == r = [i \in 1..n |-> IF i = 1 THEN q[i] ELSE r[i - 1] \o q[i]]

LEMMA JoinsExist ==
  ASSUME NEW q, NEW N \in Nat, N >= 1
  PROVE  \E r : Joins(q, r, N)
<1> DEFINE Bad == {n \in Nat : n >= 1 /\ ~\E r : Joins(q, r, n)}
<1>1. Bad = {}
  <2> SUFFICES ASSUME Bad # {} PROVE FALSE
    OBVIOUS
  <2>1. PICK n \in Bad : \A e \in Bad : n <= e
    BY LeastOf
  <2>2. n \in Nat /\ n >= 1 /\ ~\E r : Joins(q, r, n)
    OBVIOUS
  <2>3. CASE n = 1
    <3> DEFINE r == [i \in 1..1 |-> q[i]]
    <3>1. \A i \in 1..1 : i = 1
      OBVIOUS
    <3>2. r = [i \in 1..1 |-> IF i = 1 THEN q[i] ELSE r[i - 1] \o q[i]]
      BY <3>1
    <3>3. Joins(q, r, 1)
      BY <3>2 DEF Joins
    <3> QED BY <2>2, <2>3, <3>3
  <2>4. CASE n # 1
    <3>1. n - 1 \in Nat /\ n - 1 >= 1 /\ ~(n <= n - 1)
      BY <2>2, <2>4
    <3>2. PICK p : Joins(q, p, n - 1)
      BY <2>1, <3>1
    <3> DEFINE last == p[n - 1] \o q[n]
               r == [i \in 1..n |-> IF i = n THEN last ELSE p[i]]
               s == [i \in 1..n |-> IF i = 1 THEN q[i] ELSE r[i - 1] \o q[i]]
    <3>3. ASSUME NEW i \in 1..n PROVE r[i] = s[i]
      <4>1. CASE i = n
        <5>1. i # 1 /\ n - 1 \in 1..n /\ n - 1 # n
          BY <2>2, <2>4, <4>1
        <5>2. r[i] = last /\ r[i - 1] = p[n - 1]
          <6> HIDE DEF last
          <6> QED BY <4>1, <5>1
        <5> HIDE DEF r
        <5>3. s[i] = r[i - 1] \o q[i]
          BY <5>1
        <5> QED BY <4>1, <5>2, <5>3
      <4>2. CASE i # n
        <5>1. i \in 1..(n - 1) /\ (i # 1 => i - 1 \in 1..n /\ i - 1 # n)
          BY <2>2, <4>2
        <5>2. r[i] = p[i] /\ (i # 1 => r[i - 1] = p[i - 1])
          <6> HIDE DEF last
          <6> QED BY <4>2, <5>1
        <5>3. p[i] = IF i = 1 THEN q[i] ELSE p[i - 1] \o q[i]
          BY <3>2, <5>1 DEF Joins
        <5> HIDE DEF r
        <5>4. s[i] = IF i = 1 THEN q[i] ELSE r[i - 1] \o q[i]
          OBVIOUS
        <5> QED BY <5>2, <5>3, <5>4
      <4> QED BY <4>1, <4>2
    <3>4. r = [i \in 1..n |-> r[i]]
      OBVIOUS
    <3>5. s = [i \in 1..n |-> s[i]]
      <4> HIDE DEF r
      <4> QED OBVIOUS
    <3>6. [i \in 1..n |-> r[i]] = [i \in 1..n |-> s[i]]
      <4> HIDE DEF r, s
      <4> QED BY <3>3
    <3>7. r = s
      <4> HIDE DEF r, s
      <4> QED BY <3>4, <3>5, <3>6
    <3>8. Joins(q, r, n)
      <4> HIDE DEF r
      <4> QED BY <3>7 DEF Joins
    <3> QED BY <2>2, <3>8
  <2> QED BY <2>3, <2>4
<1> QED BY <1>1

LEMMA FlattenJoins ==
  ASSUME NEW q, NEW N \in Nat, N = Len(q), N >= 1
  PROVE  \E r : Joins(q, r, N) /\ FlattenSeq(q) = r[N]
<1> DEFINE F == CHOOSE r : r = [i \in 1..Len(q) |-> IF i = 1 THEN q[i] ELSE r[i - 1] \o q[i]]
<1>1. FlattenSeq(q) = F[Len(q)]
  <2>1. Len(q) # 0
    OBVIOUS
  <2>2. FlattenSeq(q) = IF Len(q) = 0 THEN q ELSE F[Len(q)]
    BY ONLY ZenonT(30) DEF FlattenSeq
  <2> HIDE DEF F
  <2> QED BY <2>1, <2>2
<1>2. \E r : r = [i \in 1..Len(q) |-> IF i = 1 THEN q[i] ELSE r[i - 1] \o q[i]]
  <2>1. PICK r : Joins(q, r, N)
    BY JoinsExist
  <2>2. Joins(q, r, Len(q))
    BY <2>1
  <2> QED BY <2>2, Zenon DEF Joins
<1>3. F = [i \in 1..Len(q) |-> IF i = 1 THEN q[i] ELSE F[i - 1] \o q[i]]
  BY <1>2, Zenon
<1>4. Joins(q, F, Len(q))
  BY <1>3, Zenon DEF Joins
<1> HIDE DEF F
<1> QED BY <1>1, <1>4

(* Lists in order, joined: their entries, in order.                          *)
LEMMA FlattenIs ==
  ASSUME NEW q, NEW h, NEW N \in Nat, N = Len(q), N >= 1,
         \A k \in 1..N : q[k] \in Seq(Chunk) /\ Rising(q[k], h),
         \A k, l \in 1..N : k < l => Before(q[k], q[l], h)
  PROVE  /\ FlattenSeq(q) \in Seq(Chunk) /\ Rising(FlattenSeq(q), h)
         /\ \A x : Holds(FlattenSeq(q), x) <=> \E k \in 1..N : Holds(q[k], x)
<1>1. PICK r : Joins(q, r, N) /\ FlattenSeq(q) = r[N]
  BY FlattenJoins
<1> DEFINE Fine(n) == /\ r[n] \in Seq(Chunk) /\ Rising(r[n], h)
                      /\ \A x : Holds(r[n], x) <=> \E k \in 1..n : Holds(q[k], x)
           Bad == {n \in Nat : n >= 1 /\ n <= N /\ ~Fine(n)}
<1>2. Bad = {}
  <2> SUFFICES ASSUME Bad # {} PROVE FALSE
    OBVIOUS
  <2>1. PICK n \in Bad : \A e \in Bad : n <= e
    <3> HIDE DEF Fine
    <3> QED BY LeastOf
  <2>2. n \in Nat /\ n \in 1..N /\ n >= 1 /\ n <= N /\ ~Fine(n)
    <3> HIDE DEF Fine
    <3> QED OBVIOUS
  <2>3. r[n] = IF n = 1 THEN q[n] ELSE r[n - 1] \o q[n]
    BY <1>1, <2>2 DEF Joins
  <2>4. CASE n = 1
    <3>1. r[n] = q[1] /\ q[1] \in Seq(Chunk) /\ Rising(q[1], h)
      BY <2>2, <2>3, <2>4
    <3>2. \A k \in 1..1 : k = 1
      OBVIOUS
    <3>3. \A x : Holds(r[n], x) <=> \E k \in 1..n : Holds(q[k], x)
      BY <2>4, <3>1, <3>2
    <3> QED BY <2>2, <3>1, <3>3
  <2>5. CASE n # 1
    <3> DEFINE m == n - 1
    <3>1. m \in Nat /\ m >= 1 /\ m <= N /\ ~(n <= m)
      BY <2>2, <2>5
    <3>2. Fine(m)
      <4> HIDE DEF Fine, m
      <4> QED BY <2>1, <3>1
    <3>3. \A k \in 1..m : k \in 1..N /\ k < n
      BY <2>2
    <3>4. \A k \in 1..n : k = n \/ k \in 1..m
      BY <2>2
    <3>5. \A k \in 1..m : k \in 1..n
      BY <2>2
    <3> HIDE DEF m
    <3>6. r[m] \in Seq(Chunk) /\ Rising(r[m], h) /\ q[n] \in Seq(Chunk) /\ Rising(q[n], h)
      BY <2>2, <3>2
    <3>7. \A x : Holds(r[m], x) <=> \E k \in 1..m : Holds(q[k], x)
      BY <3>2
    <3>8. Before(r[m], q[n], h)
      <4> SUFFICES ASSUME NEW i \in 1..Len(r[m]), NEW j \in 1..Len(q[n]) 
                   PROVE  Fit(r[m][i], q[n][j], h)
        BY DEF Before
      <4>1. Holds(r[m], r[m][i])
        BY DEF Holds
      <4>2. PICK k \in 1..m : Holds(q[k], r[m][i])
        BY <3>7, <4>1
      <4>3. PICK p \in 1..Len(q[k]) : q[k][p] = r[m][i]
        BY <4>2 DEF Holds
      <4>4. Before(q[k], q[n], h)
        BY <2>2, <3>3
      <4> QED BY <4>3, <4>4 DEF Before
    <3>9. r[n] = r[m] \o q[n]
      BY <2>3, <2>5 DEF m
    <3>10. /\ r[n] \in Seq(Chunk) /\ Rising(r[n], h)
           /\ \A x : Holds(r[n], x) <=> Holds(r[m], x) \/ Holds(q[n], x)
      BY <3>6, <3>8, <3>9, Joined
    <3>11. n \in 1..n
      BY <2>2
    <3>12. \A x : Holds(r[n], x) <=> \E k \in 1..n : Holds(q[k], x)
      BY <3>4, <3>5, <3>7, <3>10, <3>11
    <3> QED BY <2>2, <3>10, <3>12
  <2> QED BY <2>4, <2>5
<1>3. Fine(N)
  <2> HIDE DEF Fine
  <2> QED BY <1>2
<1> QED BY <1>1, <1>3

LEMMA AuditGuarantee == ASSUME AuditInv PROVE AuditTypeOK /\ InOrderWithoutGaps
<1>0. MaxFiles \in Nat /\ MaxFiles + 1 \in Nat /\ MaxFiles + 1 >= 1
  BY AuditConstants
<1>1. /\ logFile \in Files /\ buffer \in Seq(EntryNo) /\ logged \in 0..MaxEntries /\ logged \in Nat /\ failures \in Nat
      /\ FilesInOrder(logFile, logged, halfway) /\ BufferBehind(logFile, buffer, logged, halfway)
      /\ halfway \cup lost \subseteq 1..logged
      /\ currentSize \in Nat /\ (failures = 0 => Whole(logFile, buffer, logged, lost))
  BY AuditConstants DEF AuditInv, LogInv
<1>2. AuditTypeOK
  <2>1. Len(buffer) <= logged
    BY <1>1 DEF BufferBehind
  <2>2. DOMAIN logFile = 0..MaxFiles /\ \A i \in 0..MaxFiles : logFile[i] \in Seq(Chunk)
    BY <1>1 DEF Files
  <2> QED BY <1>1, <2>1, <2>2 DEF AuditTypeOK, EntryNo, Chunk
<1> DEFINE q == [i \in 1..(MaxFiles + 1) |-> logFile[MaxFiles + 1 - i]]
           all == Lines \o buffer
<1>3. \A i \in 1..(MaxFiles + 1) : q[i] = logFile[MaxFiles + 1 - i] /\ MaxFiles + 1 - i \in 0..MaxFiles
  BY <1>0
<1>4. Len(q) = MaxFiles + 1
  BY <1>0
<1>5. Lines = FlattenSeq(q)
  BY DEF Lines
<1> HIDE DEF q
<1>6. \A k \in 1..(MaxFiles + 1) : q[k] \in Seq(Chunk) /\ Rising(q[k], halfway)
  BY <1>1, <1>3, FileFacts DEF FilesInOrder
<1>7. \A k, l \in 1..(MaxFiles + 1) : k < l => Before(q[k], q[l], halfway)
  <2> SUFFICES ASSUME NEW k \in 1..(MaxFiles + 1), NEW l \in 1..(MaxFiles + 1), k < l PROVE Before(q[k], q[l], halfway)
    OBVIOUS
  <2>1. MaxFiles + 1 - l < MaxFiles + 1 - k
    BY <1>0
  <2> QED BY <1>1, <1>3, <2>1 DEF FilesInOrder
<1>8. /\ Lines \in Seq(Chunk) /\ Rising(Lines, halfway)
      /\ \A x : Holds(Lines, x) <=> \E k \in 1..(MaxFiles + 1) : Holds(q[k], x)
  BY <1>0, <1>4, <1>5, <1>6, <1>7, FlattenIs
<1>9. \A x : Holds(Lines, x) <=> \E k \in 0..MaxFiles : Holds(logFile[k], x)
  <2> TAKE x
  <2>1. ASSUME NEW k \in 0..MaxFiles, Holds(logFile[k], x) PROVE \E l \in 1..(MaxFiles + 1) : Holds(q[l], x)
    <3>1. MaxFiles + 1 - k \in 1..(MaxFiles + 1) /\ MaxFiles + 1 - (MaxFiles + 1 - k) = k
      BY <1>0
    <3> QED BY <1>3, <2>1, <3>1
  <2> QED BY <1>3, <1>8, <2>1
<1>10. Before(Lines, buffer, halfway) /\ Rising(buffer, halfway)
  <2>1. Rising(buffer, halfway)
    BY <1>1 DEF BufferBehind
  <2> SUFFICES ASSUME NEW i \in 1..Len(Lines), NEW j \in 1..Len(buffer) 
               PROVE  Fit(Lines[i], buffer[j], halfway)
    BY <2>1 DEF Before
  <2>2. Holds(Lines, Lines[i])
    BY DEF Holds
  <2>3. PICK k \in 0..MaxFiles : Holds(logFile[k], Lines[i])
    BY <1>9, <2>2
  <2>4. PICK h \in 1..Len(logFile[k]) : logFile[k][h] = Lines[i]
    BY <2>3 DEF Holds
  <2>5. Before(logFile[k], buffer, halfway)
    BY <1>1 DEF BufferBehind
  <2> QED BY <2>4, <2>5 DEF Before
<1>11. /\ all \in Seq(Chunk) /\ Rising(all, halfway)
       /\ \A x : Holds(all, x) <=> Holds(Lines, x) \/ Holds(buffer, x)
  <2>1. buffer \in Seq(Chunk)
    BY <1>1, EntryIsNat
  <2> QED BY <1>8, <1>10, <2>1, Joined
<1>12. \A x : Holds(all, x) <=> Has(logFile, buffer, x)
  BY <1>9, <1>11 DEF Has
<1> HIDE DEF all
<1>13. Len(all) \in Nat /\ DOMAIN all = 1..Len(all) /\ \A i \in 1..Len(all) : all[i] \in Nat
  BY <1>11, ChunkIsNat
<1>14. \A i, j \in 1..Len(all) : i < j => InOrder(all[i], all[j])
  <2>1. \A x, y : Fit(x, y, halfway) => InOrder(x, y)
    BY DEF Fit, InOrder
  <2> QED BY <1>11, <2>1 DEF Rising
<1>15. ASSUME failures = 0
       PROVE  \E first \in 1..(logged + 1) :
                /\ ToSet(all) = (first..logged) \ lost
                /\ first > 1 => \A i \in DOMAIN logFile : logFile[i] # << >>
  <2>1. Whole(logFile, buffer, logged, lost)
    BY <1>1, <1>15
  <2>2. PICK first \in Nat : /\ first >= 1 /\ first <= logged + 1 /\ From(logFile, buffer, logged, first, lost)
                             /\ (first > 1 => InUse(logFile))
    BY <2>1 DEF Whole
  <2>3. \A x \in Nat : Holds(all, x) <=> first <= x /\ x <= logged /\ x \notin lost
    BY <1>12, <2>2 DEF From
  <2>4. ToSet(all) = {all[i] : i \in 1..Len(all)}
    BY <1>13 DEF ToSet
  <2>5. \A x : x \in ToSet(all) <=> x \in Nat /\ Holds(all, x)
    BY <1>13, <2>4 DEF Holds
  <2>6. \A x : x \in (first..logged) \ lost <=> x \in Nat /\ first <= x /\ x <= logged /\ x \notin lost
    BY <1>1, <2>2
  <2>7. ToSet(all) = (first..logged) \ lost
    BY <2>3, <2>5, <2>6
  <2>8. DOMAIN logFile = 0..MaxFiles /\ first \in 1..(logged + 1)
    BY <1>1, <2>2 DEF Files
  <2> QED BY <2>2, <2>7, <2>8 DEF InUse
<1>16. InOrderWithoutGaps
  BY <1>14, <1>15 DEF InOrderWithoutGaps, all
<1> QED BY <1>2, <1>16

----------------------------------------------------------------------------
(* All parts.                                                                *)
ServerInv ==
  /\ RegistryInv /\ LimiterInv /\ CacheInv /\ TrafficInv /\ SettingsInv
  /\ AuditInv /\ AccountsInv /\ PasswordsInv /\ AccessInv

LEMMA ServerStarts == ServerStateInit => ServerInv
<1> SUFFICES ASSUME ServerStateInit PROVE ServerInv
  OBVIOUS
<1>1. RegistryInit /\ CacheInit /\ TrafficInit /\ SettingsInit /\ AuditInit /\ PasswordsInit /\ AccessInit
  BY DEF ServerStateInit
<1>2. (BandwidthInit \/ BandwidthRests) /\ (AccountsInit \/ AccountsRest)
  BY DEF ServerStateInit
<1>3. BandwidthRests => BandwidthInit
  <2>1. (CHOOSE l \in Limits : TRUE) \in Limits /\ (CHOOSE l \in Globals : TRUE) \in Globals
    BY BandwidthAssumption
  <2>2. FALSE \in BOOLEAN
    OBVIOUS
  <2>3. GlobalBucket(CHOOSE l \in Globals : TRUE) \in {GlobalBucket(l) : l \in Globals}
    BY <2>1
  <2> QED BY <2>1, <2>2, <2>3 DEF BandwidthRests, BandwidthInit
<1>4. AccountsRest => AccountsInit
  <2> SUFFICES ASSUME AccountsRest PROVE AccountsInit
    OBVIOUS
  <2> DEFINE Typed(extra) == users \in [extra \cup {WebUser} -> {User(r, e) : r \in Roles, e \in {"true", "false"}}]
             Rest == /\ tokens = {} /\ loginFailures = << >> /\ moment = 0
                     /\ wrongPasswords = [k \in LoginKeys |-> << >>] /\ revoked = {}
  <2>1. Typed({}) /\ Rest
    BY DEF AccountsRest, Roles
  <2>2. AccountsInit <=> (\E extra \in SUBSET UserNames : Typed(extra)) /\ Rest
    BY DEF AccountsInit
  <2> HIDE DEF Typed, Rest
  <2> QED BY <2>1, <2>2
<1> QED BY <1>1, <1>2, <1>3, <1>4, RegistryInvInit, LimiterStart, CacheStart, TrafficStart, SettingsStart,
           AuditStart, AccountsStart, PasswordsStart, AccessStart DEF ServerInv

(* A step of one part leaves the others as they are.                         *)
LEMMA StepOfEach ==
  ASSUME [ServerStateNext]_stateVars
  PROVE  /\ [RegistryNext]_registryVars /\ [BandwidthNext]_bandwidthVars /\ [CacheNext]_cacheVars
         /\ [TrafficNext]_trafficVars /\ [SettingsNext]_settingsVars /\ [AuditNext]_auditVars
         /\ [AccountsNext]_accountsVars /\ [PasswordsNext]_passwordVars /\ [AccessNext]_accessVars
<1>1. [RegistryNext]_registryVars
  BY DEF ServerStateNext, Only, stateVars
<1>2. [BandwidthNext]_bandwidthVars
  BY DEF ServerStateNext, Only, stateVars
<1>3. [CacheNext]_cacheVars
  BY DEF ServerStateNext, Only, stateVars
<1>4. [TrafficNext]_trafficVars
  BY DEF ServerStateNext, Only, stateVars
<1>5. [SettingsNext]_settingsVars
  BY DEF ServerStateNext, Only, stateVars
<1>6. [AuditNext]_auditVars
  BY DEF ServerStateNext, Only, stateVars
<1>7. [AccountsNext]_accountsVars
  BY DEF ServerStateNext, Only, stateVars
<1>8. [PasswordsNext]_passwordVars
  BY DEF ServerStateNext, Only, stateVars
<1>9. [AccessNext]_accessVars
  BY DEF ServerStateNext, Only, stateVars
<1> QED BY <1>1, <1>2, <1>3, <1>4, <1>5, <1>6, <1>7, <1>8, <1>9

LEMMA ServerStep == ServerInv /\ [ServerStateNext]_stateVars => ServerInv'
BY StepOfEach, RegistryInvStep, LimiterStep, CacheStep, TrafficStep, SettingsStep, AuditStep, AccountsStep,
   PasswordsStep, AccessStep DEF ServerInv

LEMMA ServerAlways == ServerStateSpec => []ServerInv
BY ServerStarts, ServerStep, PTL DEF ServerStateSpec

(* In every behaviour, whatever the server is configured with: every part's  *)
(* state has its type.                                                       *)
THEOREM ServerStateTypes == ServerStateSpec => []ServerStateTypeOK
<1>1. ServerInv => ServerStateTypeOK
  BY InvIsSound, InvImpliesLimits, CacheGuarantee, TrafficGuarantee, SettingsGuarantee, AuditGuarantee,
     AccountsGuarantee, PasswordsGuarantee, AccessGuarantee DEF ServerInv, ServerStateTypeOK
<1> QED BY <1>1, ServerAlways, PTL

(* In every behaviour, for origins that name in Vary the headers a response  *)
(* depends on, Range excepted: a hit of the cache is what the origin sent to *)
(* a request for the same method, path and parameters, in whatever order,    *)
(* with the same values of those headers; so a part of the content is still  *)
(* served for the whole.  The rules of now decide about a request, whatever  *)
(* verdicts are remembered, and a proxy password leads to its own route.     *)
THEOREM AlwaysServedRight == ServerStateSpec => []ServedRight
<1>1. ServerInv => ServedRight
  BY CacheGuarantee, PasswordsGuarantee, AccessGuarantee DEF ServerInv, ServedRight
<1> QED BY <1>1, ServerAlways, PTL

(* In every behaviour, whichever writes and renames fail, also part of the   *)
(* way, and whenever the process dies: the file of the settings is behind    *)
(* only where a save is due or a write has failed; the audit log is in order *)
(* but for what a failed write had written and its batch writes again, and,  *)
(* where no operation failed, has no gaps but for the entries that were in   *)
(* the buffer of a process when it died; and no traffic is uncounted.        *)
THEOREM AlwaysDurable == ServerStateSpec => []Durable
<1>1. ServerInv => Durable
  BY TrafficGuarantee, SettingsGuarantee, AuditGuarantee DEF ServerInv, Durable
<1> QED BY <1>1, ServerAlways, PTL

(* In every behaviour a revoked token is refused, and an address finds wrong *)
(* passwords of a user no faster than the lock allows, between two right     *)
(* ones or dropped records; for any number of accounts, of addresses and of  *)
(* remembered records.                                                       *)
THEOREM AuthorityHolds == ServerStateSpec => []Authority
<1>1. ServerInv => Authority
  BY AccountsGuarantee DEF ServerInv, Authority
<1> QED BY <1>1, ServerAlways, PTL

(* A restart of the server brings back the settings it was saved with, for   *)
(* any configuration: of a group with a row all of them, of `client` those   *)
(* in its row, and of a group without one those that a reset takes back.     *)
(* With a section that gives a part of the breaker's or of the limiter's     *)
(* settings a reset leaves the others as they are, and nothing is said of    *)
(* these until the group is stored again.                                    *)
THEOREM RestartsRestore == ServerStateSpec => RestartRestores
<1>1. ServerInv /\ [ServerStateNext]_stateVars => [Restarted([g \in Groups |-> Lasting(g, db[g])])]_settingsVars
  BY StepOfEach, StartRestores DEF ServerInv
<1> QED BY <1>1, ServerAlways, PTL DEF ServerStateSpec, RestartRestores

(* The panel never loses its last administrator, where the requests of the   *)
(* panel set the enabled state of an account to true or false.               *)
THEOREM AdminAlwaysRemains ==
  ASSUME "null" \notin EnabledValues
  PROVE  ServerStateSpec => AdminRemains
<1>1. ServerInv /\ [ServerStateNext]_stateVars => [EnabledAdmins # {} => EnabledAdmins' # {}]_accountsVars
  BY StepOfEach, AdminStays DEF ServerInv
<1> QED BY <1>1, ServerAlways, PTL DEF ServerStateSpec, AdminRemains
=============================================================================
