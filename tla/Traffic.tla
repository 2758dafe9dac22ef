------------------------------- MODULE Traffic -------------------------------
(* What the server counts: the statistics of a node's session and of the     *)
(* server (client-manager.ts), and the traffic rows of the storage, one for  *)
(* a node and a minute (storage.ts), while sessions begin and end.           *)
EXTENDS Integers, FiniteSets, FiniteSetsExt

CONSTANTS
  Peers,        \* the nodes whose traffic is counted
  Amounts,      \* bytes of a chunk or of a body
  Minutes,      \* bound: minutes that pass
  Retention,    \* minutes a row is kept
  MaxCarried    \* bound: bytes carried

ASSUME TrafficAssumption ==
  Amounts \subseteq Nat \ {0} /\ Minutes \in Nat /\ Retention \in Nat /\ MaxCarried \in Nat

VARIABLES
  available,    \* the storage is open
  registered,   \* nodes that have a session
  stats,        \* stats[c]: bytes of the session
  rows,         \* rows[c][m]: bytes of the node in a minute
  minute,
  carried,      \* history: bytes of each minute
  oldest        \* history: the first minute whose rows are complete

trafficVars == <<available, registered, stats, rows, minute, carried, oldest>>

TrafficInit ==
  /\ available = FALSE /\ registered = {} /\ minute = 0 /\ oldest = Minutes + 1
  /\ stats = [c \in Peers |-> 0]
  /\ rows = [c \in Peers |-> [m \in 0..Minutes |-> 0]]
  /\ carried = [c \in Peers |-> [m \in 0..Minutes |-> 0]]

----------------------------------------------------------------------------
(* recordTraffic(): the row of this minute is updated, or inserted.          *)
RecordTraffic(c, bytes) ==
  rows' = IF available THEN [rows EXCEPT ![c][minute] = @ + bytes] ELSE rows

(* trackBytes(), with the node's id of the request or tunnel: the node may   *)
(* have gone since.                                                          *)
TrackBytes(c, bytes) ==
  /\ MapThenSumSet(LAMBDA m : carried[c][m], 0..Minutes) + bytes <= MaxCarried
  /\ stats' = IF c \in registered THEN [stats EXCEPT ![c] = @ + bytes] ELSE stats
  /\ RecordTraffic(c, bytes)
  /\ carried' = [carried EXCEPT ![c][minute] = @ + bytes]
  /\ UNCHANGED <<available, registered, minute, oldest>>

(* add() and remove(): the totals of a session that ends are recorded, also  *)
(* of the one that a new one replaces.                                       *)
StatsEnded(c) ==
  IF c \in registered THEN RecordTraffic(c, stats[c]) ELSE UNCHANGED rows

AddNode(c) ==
  /\ StatsEnded(c)
  /\ registered' = registered \cup {c} /\ stats' = [stats EXCEPT ![c] = 0]
  /\ UNCHANGED <<available, minute, carried, oldest>>

RemoveNode(c) ==
  /\ c \in registered /\ StatsEnded(c)
  /\ registered' = registered \ {c} /\ stats' = [stats EXCEPT ![c] = 0]
  /\ UNCHANGED <<available, minute, carried, oldest>>

(* cleanupOldData()                                                          *)
Deleted(cutoff) ==
  rows' = [c \in Peers |-> [m \in 0..Minutes |-> IF m < cutoff THEN 0 ELSE rows[c][m]]]
CleanupOldData ==
  /\ available /\ minute >= Retention
  /\ Deleted(minute - Retention)
  /\ oldest' = IF oldest < minute - Retention THEN minute - Retention ELSE oldest
  /\ UNCHANGED <<available, registered, stats, minute, carried>>

StorageReady ==
  /\ ~available /\ available' = TRUE /\ oldest' = minute + 1
  /\ UNCHANGED <<registered, stats, rows, minute, carried>>
MinutePasses ==
  /\ minute < Minutes /\ minute' = minute + 1
  /\ UNCHANGED <<available, registered, stats, rows, carried, oldest>>

TrafficNext ==
  \/ \E c \in Peers : \/ \E bytes \in Amounts : TrackBytes(c, bytes)
                      \/ AddNode(c) \/ RemoveNode(c)
  \/ CleanupOldData \/ StorageReady \/ MinutePasses

TrafficSpec == TrafficInit /\ [][TrafficNext]_trafficVars

----------------------------------------------------------------------------
Since(m) == {k \in 0..Minutes : k >= m}

(* getTrafficStats(): the sum over the rows of a node.                       *)
TrafficStats(c, since) == MapThenSumSet(LAMBDA m : rows[c][m], Since(since))
Carried(c, since) == MapThenSumSet(LAMBDA m : carried[c][m], Since(since))

TrafficTypeOK ==
  /\ available \in BOOLEAN /\ registered \subseteq Peers /\ minute \in 0..Minutes
  /\ \A c \in Peers : stats[c] \in Nat

(* No traffic is lost from the statistics of any period that is still kept:  *)
(* not between two sessions, not when a node is replaced, not when data      *)
(* arrives for a node that has gone, not at the turn of a minute.            *)
NothingUncounted ==
  \A c \in Peers : \A m \in oldest..minute : rows[c][m] >= carried[c][m]

(* "Lifetime totals across all recorded traffic (all clients)"               *)
(* (storage.ts:421): a byte is counted once.                                 *)
TrafficCountedOnce ==
  \A c \in Peers : TrafficStats(c, 0) <= Carried(c, 0)
=============================================================================
