------------------------------ MODULE Bandwidth ------------------------------
(* The bandwidth limiter (bandwidth.ts): a token bucket for each node and    *)
(* one for all of them, with the limits the panel sets for a node or for all *)
(* while nodes come and go, and a wall clock that may be set back or ahead.  *)
EXTENDS Integers

CONSTANTS
  Users,        \* nodes whose traffic is limited
  Sizes,        \* bytes asked for at once
  Limits,       \* [rate, burst], as configured or set for a node
  Globals,      \* the same for all nodes together; rate 0: unlimited
  MaxTicks,     \* bound: time that passes
  MaxSteps      \* bound: units the clock is set ahead or back, in all

ASSUME BandwidthAssumption ==
  /\ Sizes \subseteq Nat /\ Limits # {} /\ Globals # {}
  /\ \A l \in Limits \cup Globals : l.rate \in Nat /\ l.burst \in Nat \ {0}
  /\ MaxTicks \in Nat /\ MaxSteps \in Nat

VARIABLES
  enabled,
  default,      \* default_rate and default_burst
  overrides,    \* overrides[c]: what setLimit() set, or NoLimit
  bucket,       \* bucket[c], or NoBucket
  global,       \* globalBucket, or NoBucket
  wall,         \* Date.now()
  passed,       \* history: time that has passed
  ahead,        \* history: how far the clock was set ahead, in all
  back          \* history: how far it was set back, in all

bandwidthVars == <<enabled, default, overrides, bucket, global, wall, passed, ahead, back>>

(* What the clock has gone forward, whatever made it.                        *)
Advanced == passed + ahead

NoLimit == [rate |-> 0, burst |-> 0]
NoBucket == [rate |-> 0, burst |-> 0, tokens |-> 0, last |-> 0, used |-> 0, born |-> 0]

(* used and born are history: what the bucket let through, since when.       *)
NewBucket(limit) ==
  [rate |-> limit.rate, burst |-> limit.burst, tokens |-> limit.burst,
   last |-> wall, used |-> 0, born |-> Advanced]
GlobalBucket(limit) == IF limit.rate > 0 THEN NewBucket(limit) ELSE NoBucket

Least(a, b) == IF a <= b THEN a ELSE b

BandwidthInit ==
  /\ wall = 0 /\ passed = 0 /\ ahead = 0 /\ back = 0
  /\ enabled \in BOOLEAN /\ default \in Limits
  /\ overrides = [c \in Users |-> NoLimit] /\ bucket = [c \in Users |-> NoBucket]
  /\ global \in {GlobalBucket(l) : l \in Globals}

----------------------------------------------------------------------------
(* _refill(): a clock that was set back earns nothing, a clock that was set  *)
(* ahead what the same time would have earned.                               *)
RefillUnclamped(b) ==
  [b EXCEPT !.tokens = Least(b.burst, b.tokens + (wall - b.last) * b.rate), !.last = wall]
Refill(b) ==
  LET elapsed == IF wall > b.last THEN wall - b.last ELSE 0
  IN [b EXCEPT !.tokens = Least(b.burst, b.tokens + elapsed * b.rate), !.last = wall]

(* tryConsume(): the bucket after it, and whether it had enough.             *)
Allows(b, bytes) == Refill(b).tokens >= bytes
ConsumedAhead(b, bytes) ==
  IF Allows(b, bytes)
    THEN [b EXCEPT !.tokens = Refill(b).tokens - bytes, !.used = @ + bytes] ELSE b
Consumed(b, bytes) ==
  IF Allows(b, bytes)
    THEN [Refill(b) EXCEPT !.tokens = @ - bytes, !.used = @ + bytes] ELSE Refill(b)

LimitOf(c) == IF overrides[c] # NoLimit THEN overrides[c] ELSE default
BucketOf(c) == IF bucket[c] = NoBucket THEN NewBucket(LimitOf(c)) ELSE bucket[c]

(* check(), before a request is sent to its node and before a response goes  *)
(* out: the global bucket pays before the node's bucket is asked.            *)
Check(c, bytes) ==
  /\ enabled
  /\ global' = IF global = NoBucket THEN global ELSE Consumed(global, bytes)
  /\ bucket' = IF global # NoBucket /\ ~Allows(global, bytes) THEN bucket
               ELSE [bucket EXCEPT ![c] = Consumed(BucketOf(c), bytes)]
  /\ UNCHANGED <<enabled, default, overrides, wall, passed, ahead, back>>

(* setLimit(): by the panel, and from the storage when the node registers.   *)
SetLimit(c, rate) ==
  LET limit == [rate |-> rate, burst |-> rate]
  IN /\ rate > 0
     /\ overrides' = [overrides EXCEPT ![c] = limit]
     /\ bucket' = [bucket EXCEPT ![c] = NewBucket(limit)]
     /\ UNCHANGED <<enabled, default, global, wall, passed, ahead, back>>

(* updateConfig(): the buckets of the nodes are left as they are.            *)
UpdateConfig(on, limit, total) ==
  /\ enabled' = on /\ default' = limit /\ global' = GlobalBucket(total)
  /\ UNCHANGED <<overrides, bucket, wall, passed, ahead, back>>

(* Hourly, for the nodes that are not connected.                             *)
CleanupBuckets(gone) ==
  /\ bucket' = [c \in Users |-> IF c \in gone THEN NoBucket ELSE bucket[c]]
  /\ UNCHANGED <<enabled, default, overrides, global, wall, passed, ahead, back>>

TimePasses ==
  /\ passed < MaxTicks /\ passed' = passed + 1 /\ wall' = wall + 1
  /\ UNCHANGED <<enabled, default, overrides, bucket, global, ahead, back>>
ClockSetAhead ==
  /\ ahead + back < MaxSteps /\ ahead' = ahead + 1 /\ wall' = wall + 1
  /\ UNCHANGED <<enabled, default, overrides, bucket, global, passed, back>>
ClockSetBack ==
  /\ ahead + back < MaxSteps /\ back' = back + 1 /\ wall' = wall - 1
  /\ UNCHANGED <<enabled, default, overrides, bucket, global, passed, ahead>>

BandwidthNext ==
  \/ \E c \in Users : \/ \E bytes \in Sizes : Check(c, bytes)
                      \/ \E l \in Limits : SetLimit(c, l.rate)
  \/ \E on \in BOOLEAN, limit \in Limits, total \in Globals : UpdateConfig(on, limit, total)
  \/ \E gone \in SUBSET Users : CleanupBuckets(gone)
  \/ TimePasses \/ ClockSetAhead \/ ClockSetBack

BandwidthSpec == BandwidthInit /\ [][BandwidthNext]_bandwidthVars

----------------------------------------------------------------------------
Buckets == {bucket[c] : c \in Users} \cup {global}

BandwidthTypeOK ==
  /\ enabled \in BOOLEAN /\ {passed, ahead, back} \subseteq Nat /\ wall = Advanced - back
  /\ default.rate \in Nat /\ default.burst \in Nat \ {0}
  /\ \A b \in Buckets :
       /\ b.rate \in Nat /\ b.burst \in Nat /\ b.tokens \in 0..b.burst
       /\ b.used \in Nat /\ b.born \in 0..Advanced

(* However requests, responses, changes of the limits and steps of the clock *)
(* in both directions are mixed, a bucket never lets through more than its   *)
(* burst and its rate over what the clock has gone forward since it was made *)
(* - by time or by being set ahead, also when that only takes back an        *)
(* earlier step; a step back is worth nothing.                               *)
WithinLimit ==
  \A b \in Buckets : b.used <= b.burst + b.rate * (Advanced - b.born)

(* The same over the time that has really passed: not so, as _refill() takes *)
(* a clock that was set ahead for time.                                      *)
WithinRealTime ==
  \A b \in Buckets : b.used <= b.burst + b.rate * passed

(* "applied live to the running module (no restart)" (settings.ts:7): a      *)
(* node's bucket has the limit that is set.                                  *)
LimitInForce ==
  \A c \in Users : bucket[c] # NoBucket =>
    bucket[c].rate = LimitOf(c).rate /\ bucket[c].burst = LimitOf(c).burst
=============================================================================
