-------------------------- MODULE Accounts_proofs ---------------------------
(* Accounts, for any number of them, of versions of a password and of        *)
(* remembered records of failed logins: a revoked token stays refused, an    *)
(* address finds wrong passwords of a user no faster than the lock allows,   *)
(* and an administrator remains.                                             *)
(*                                                                           *)
(* By itself TokensRevoked is not inductive: what does not accept a token    *)
(* now may be that its account is disabled. The invariant says of a revoked  *)
(* token that its version is lower than its account's, and of no token that  *)
(* it is higher. ThrottleBounds counts wrong passwords in every stretch of   *)
(* time: the invariant ties each record to the moments it has counted, and   *)
(* these to the ones before them.                                            *)
EXTENDS Accounts, Lists, SequencesExt, FiniteSetsExt, SequenceTheorems,
        FiniteSetTheorems, FunctionTheorems, WellFoundedInduction, TLAPS

----------------------------------------------------------------------------
(* Lists, of which elements are kept, dropped or put in between.             *)

(* The place of an index among those that stay.                              *)
UpTo(I, k) == {j \in I : j <= k}
Rank(I) == [k \in I |-> Cardinality(UpTo(I, k))]

LEMMA RankRises ==
  ASSUME NEW n \in Nat, NEW I \in SUBSET (1..n)
  PROVE  /\ IsFiniteSet(I) /\ Cardinality(I) \in Nat /\ Cardinality(I) <= n
         /\ \A k \in I : Rank(I)[k] \in 1..Cardinality(I)
         /\ \A k, l \in I : k < l => Rank(I)[k] < Rank(I)[l]
<1>1. IsFiniteSet(1..n) /\ Cardinality(1..n) = n
  BY FS_Interval
<1>2. IsFiniteSet(I) /\ Cardinality(I) \in Nat /\ Cardinality(I) <= n
  BY <1>1, FS_Subset, FS_CardinalityType
<1>3. \A k \in I : UpTo(I, k) \in SUBSET I /\ k \in UpTo(I, k)
  BY DEF UpTo
<1>4. \A k \in I : IsFiniteSet(UpTo(I, k)) /\ Cardinality(UpTo(I, k)) \in Nat
                   /\ Cardinality(UpTo(I, k)) <= Cardinality(I) /\ Cardinality(UpTo(I, k)) # 0
  BY <1>2, <1>3, FS_Subset, FS_CardinalityType, FS_EmptySet
<1>6. I \subseteq Nat
  OBVIOUS
<1>5. ASSUME NEW k \in I, NEW l \in I, k < l
      PROVE  Cardinality(UpTo(I, k)) < Cardinality(UpTo(I, l))
  <2>1. UpTo(I, k) \in SUBSET UpTo(I, l) /\ l \notin UpTo(I, k)
    <3>1. \A j \in I : j <= k => j <= l
      BY <1>5, <1>6
    <3>2. ~(l <= k)
      BY <1>5, <1>6
    <3> QED BY <3>1, <3>2 DEF UpTo
  <2>2. UpTo(I, k) # UpTo(I, l)
    BY <1>3, <2>1
  <2> QED BY <1>4, <2>1, <2>2, FS_Subset
<1> QED BY <1>2, <1>4, <1>5 DEF Rank

LEMMA OrderedIs ==
  ASSUME NEW n \in Nat, NEW I \in SUBSET (1..n)
  PROVE  /\ Ordered(I) \in [1..Cardinality(I) -> I]
         /\ \A i, j \in 1..Cardinality(I) : i < j => Ordered(I)[i] < Ordered(I)[j]
         /\ \A k \in I : \E i \in 1..Cardinality(I) : Ordered(I)[i] = k
<1> DEFINE m == Cardinality(I)
           R == Rank(I)
<1>1. /\ IsFiniteSet(I) /\ m \in Nat /\ I \subseteq Nat
      /\ R \in [I -> 1..m]
      /\ \A k, l \in I : k < l => R[k] < R[l]
  BY RankRises DEF Rank
<1>2. IsFiniteSet(1..m) /\ Cardinality(1..m) = m
  BY <1>1, FS_Interval
<1> HIDE DEF m, R
<1>3. \A i \in 1..m : \E k \in I : R[k] = i
  <2>1. \A k, l \in I : R[k] = R[l] => k = l
    BY <1>1
  <2>2. R \in Injection(I, 1..m)
    BY <1>1, <2>1 DEF Injection, IsInjective
  <2>3. R \in Surjection(I, 1..m)
    BY <1>2, <2>2, FS_Injection DEF m
  <2> QED BY <2>3 DEF Surjection
<1> DEFINE g == [i \in 1..m |-> CHOOSE k \in I : R[k] = i]
<1>4. g \in [1..m -> I] /\ \A i \in 1..m : R[g[i]] = i
  BY <1>3
<1> HIDE DEF g
<1>5. \A i, j \in 1..m : i < j => g[i] < g[j]
  <2> SUFFICES ASSUME NEW i \in 1..m, NEW j \in 1..m, i < j, ~(g[i] < g[j]) PROVE FALSE
    OBVIOUS
  <2>1. g[i] \in I /\ g[j] \in I /\ R[g[i]] = i /\ R[g[j]] = j
    BY <1>4
  <2>2. g[j] < g[i] \/ g[j] = g[i]
    <3>1. g[i] \in Nat /\ g[j] \in Nat
      BY <1>1, <2>1
    <3> QED BY <3>1
  <2>3. i \in Nat /\ j \in Nat
    BY <1>1
  <2>5. CASE g[j] < g[i]
    <3>1. R[g[j]] < R[g[i]]
      BY <1>1, <2>1, <2>5
    <3> QED BY <2>1, <2>3, <3>1
  <2>6. CASE g[j] = g[i]
    BY <2>1, <2>3, <2>6
  <2> QED BY <2>2, <2>5, <2>6
<1>6. \E f \in [1..m -> I] : \A i, j \in DOMAIN f : i < j => f[i] < f[j]
  BY <1>4, <1>5
<1> DEFINE f == Ordered(I)
<1>7. f \in [1..m -> I] /\ \A i, j \in 1..m : i < j => f[i] < f[j]
  <2>1. f \in [1..m -> I] /\ \A i, j \in DOMAIN f : i < j => f[i] < f[j]
    BY <1>6 DEF Ordered, m
  <2> QED BY <2>1
<1> HIDE DEF f
<1>8. \A k \in I : \E i \in 1..m : f[i] = k
  <2>1. \A i, j \in 1..m : f[i] = f[j] => i = j
    <3> SUFFICES ASSUME NEW i \in 1..m, NEW j \in 1..m, f[i] = f[j], i # j PROVE FALSE
      OBVIOUS
    <3>1. i < j \/ j < i
      BY <1>1
    <3>2. f[i] \in Nat /\ f[j] \in Nat
      BY <1>1, <1>7
    <3> QED BY <1>7, <3>1, <3>2
  <2>2. f \in Injection(1..m, I)
    BY <1>7, <2>1 DEF Injection, IsInjective
  <2>3. f \in Surjection(1..m, I)
    BY <1>1, <1>2, <2>2, FS_Injection DEF m
  <2> QED BY <2>3 DEF Surjection
<1> QED BY <1>7, <1>8 DEF m, f

(* What stays is there, in its order, and nothing else.                      *)
LEMMA KeptIs ==
  ASSUME NEW S, NEW s \in Seq(S), NEW I \in SUBSET (1..Len(s))
  PROVE  /\ Kept(s, I) \in Seq(S) /\ Len(Kept(s, I)) <= Len(s)
         /\ \E f \in [1..Len(Kept(s, I)) -> I] :
              /\ \A i \in 1..Len(Kept(s, I)) : Kept(s, I)[i] = s[f[i]]
              /\ \A i, j \in 1..Len(Kept(s, I)) : i < j => f[i] < f[j]
              /\ \A k \in I : \E i \in 1..Len(Kept(s, I)) : f[i] = k
<1> DEFINE m == Cardinality(I)
           f == Ordered(I)
           q == Kept(s, I)
<1>1. Len(s) \in Nat
  OBVIOUS
<1>2. m \in Nat /\ m <= Len(s)
  BY <1>1, RankRises
<1>3. /\ f \in [1..m -> I]
      /\ \A i, j \in 1..m : i < j => f[i] < f[j]
      /\ \A k \in I : \E i \in 1..m : f[i] = k
  BY <1>1, OrderedIs
<1>4. q = [i \in 1..m |-> s[f[i]]]
  BY DEF Kept
<1> HIDE DEF m, f, q
<1>5. \A i \in 1..m : f[i] \in 1..Len(s)
  BY <1>3
<1>6. q \in Seq(S) /\ Len(q) = m
  BY <1>2, <1>4, <1>5
<1> QED BY <1>2, <1>3, <1>4, <1>6 DEF q

LEMMA LeastOf ==
  ASSUME NEW S \in SUBSET Nat, S # {}
  PROVE  \E n \in S : \A k \in S : n <= k
<1>1. IsWellFoundedOn(OpToRel(<, Nat), Nat)
  BY NatLessThanWellFounded
<1>2. PICK n \in S : \A k \in S : ~(<<k, n>> \in OpToRel(<, Nat))
  BY <1>1, WFMin
<1>3. \A k \in S : ~(k < n)
  BY <1>2 DEF OpToRel
<1> QED BY <1>3

(* The list q is a part of a: what a has at the indices of I, in its order.  *)
Part(S, a, q, I) ==
  /\ q \in Seq(S) /\ Len(q) <= Len(a)
  /\ \E f \in [1..Len(q) -> I] :
       /\ \A i \in 1..Len(q) : q[i] = a[f[i]]
       /\ \A i, j \in 1..Len(q) : i < j => f[i] < f[j]
       /\ \A k \in I : \E i \in 1..Len(q) : f[i] = k

LEMMA KeptIsPart ==
  ASSUME NEW S, NEW s \in Seq(S), NEW I \in SUBSET (1..Len(s))
  PROVE  Part(S, s, Kept(s, I), I)
BY KeptIs DEF Part

OneToOne(a, q, I) ==
  \E f \in [1..Len(q) -> I] :
    /\ \A i \in 1..Len(q) : q[i] = a[f[i]]
    /\ \A i, j \in 1..Len(q) : f[i] = f[j] => i = j
    /\ \A k \in I : \E i \in 1..Len(q) : f[i] = k

LEMMA PartIsOne ==
  ASSUME NEW S, NEW a \in Seq(S), NEW I \in SUBSET (1..Len(a)), NEW q, Part(S, a, q, I)
  PROVE  OneToOne(a, q, I)
<1>1. PICK f \in [1..Len(q) -> I] :
       /\ \A i \in 1..Len(q) : q[i] = a[f[i]]
       /\ \A i, j \in 1..Len(q) : i < j => f[i] < f[j]
       /\ \A k \in I : \E i \in 1..Len(q) : f[i] = k
  BY DEF Part
<1>2. ASSUME NEW i \in 1..Len(q), NEW j \in 1..Len(q), f[i] = f[j], i # j PROVE FALSE
  <2>1. q \in Seq(S) /\ Len(q) \in Nat
    BY DEF Part
  <2>2. i < j \/ j < i
    BY <1>2, <2>1
  <2>3. f[i] < f[j] \/ f[j] < f[i]
    BY <1>1, <2>2
  <2>4. f[i] \in Nat /\ f[j] \in Nat
    <3>1. Len(a) \in Nat /\ \A k \in I : k \in Nat
      OBVIOUS
    <3>2. f[i] \in I /\ f[j] \in I
      OBVIOUS
    <3> QED BY <3>1, <3>2
  <2> QED BY <1>2, <2>3, <2>4
<1> QED BY <1>1, <1>2 DEF OneToOne


Rises(a, q, I) ==
  \E f \in [1..Len(q) -> 1..Len(a)] :
    /\ \A i \in 1..Len(q) : q[i] = a[f[i]] /\ f[i] \in I
    /\ \A i, j \in 1..Len(q) : i < j => f[i] < f[j]

LEMMA PartRises ==
  ASSUME NEW S, NEW a \in Seq(S), NEW I \in SUBSET (1..Len(a)), NEW q, Part(S, a, q, I)
  PROVE  /\ q \in Seq(S) /\ Len(q) \in Nat /\ Len(q) <= Len(a)
         /\ Rises(a, q, I)
<1>1. PICK f \in [1..Len(q) -> I] :
       /\ \A i \in 1..Len(q) : q[i] = a[f[i]]
       /\ \A i, j \in 1..Len(q) : i < j => f[i] < f[j]
  BY DEF Part
<1>2. q \in Seq(S) /\ Len(q) <= Len(a)
  BY DEF Part
<1>3. f \in [1..Len(q) -> 1..Len(a)] /\ \A i \in 1..Len(q) : f[i] \in I
  BY <1>1
<1>4. Len(q) \in Nat
  BY <1>2
<1>5. \A i \in 1..Len(q) : q[i] = a[f[i]] /\ f[i] \in I
  BY <1>1, <1>3
<1> QED BY <1>1, <1>2, <1>3, <1>4, <1>5 DEF Rises

LEMMA RemoveIsPart ==
  ASSUME NEW S, NEW a \in Seq(S), NEW i \in 1..Len(a)
  PROVE  /\ Part(S, a, RemoveAt(a, i), (1..Len(a)) \ {i})
         /\ Len(RemoveAt(a, i)) = Len(a) - 1
<1> DEFINE n == Len(a)
           q == RemoveAt(a, i)
           p == SubSeq(a, 1, i - 1)
           r == SubSeq(a, i + 1, n)
           f == [j \in 1..(n - 1) |-> IF j < i THEN j ELSE j + 1]
<1>1. n \in Nat /\ i \in Nat /\ i >= 1 /\ i <= n
  OBVIOUS
<1>2. p \in Seq(S) /\ Len(p) = i - 1 /\ \A j \in 1..(i - 1) : p[j] = a[j]
  BY <1>1
<1>3. r \in Seq(S) /\ Len(r) = n - i /\ \A j \in 1..(n - i) : r[j] = a[i + j]
  <2>1. Len(r) = n - i /\ r \in Seq(S)
    BY <1>1
  <2>2. \A j \in 1..(n - i) : (i + 1) + j - 1 = i + j
    BY <1>1
  <2> QED BY <1>1, <2>1, <2>2
<1>4. q = p \o r
  BY DEF RemoveAt
<1> HIDE DEF p, r, q, n
<1>5. q \in Seq(S) /\ Len(q) = n - 1
      /\ \A j \in 1..(n - 1) : q[j] = IF j <= i - 1 THEN p[j] ELSE r[j - (i - 1)]
  <2>1. q \in Seq(S) /\ Len(q) = Len(p) + Len(r)
        /\ \A j \in 1..(Len(p) + Len(r)) : q[j] = IF j <= Len(p) THEN p[j] ELSE r[j - Len(p)]
    BY <1>2, <1>3, <1>4, ConcatProperties
  <2>2. Len(p) = i - 1 /\ Len(r) = n - i /\ (i - 1) + (n - i) = n - 1
    BY <1>1, <1>2, <1>3
  <2> QED BY <2>1, <2>2
<1>6. f \in [1..(n - 1) -> (1..n) \ {i}] /\ \A j \in 1..(n - 1) : f[j] = IF j < i THEN j ELSE j + 1
  BY <1>1
<1> HIDE DEF f
<1>7. \A j \in 1..(n - 1) : q[j] = a[f[j]]
  <2> SUFFICES ASSUME NEW j \in 1..(n - 1) PROVE q[j] = a[f[j]]
    OBVIOUS
  <2>1. CASE j < i
    <3>1. j \in 1..(i - 1) /\ j <= i - 1
      BY <1>1, <2>1
    <3>2. q[j] = p[j]
      BY <1>5, <3>1
    <3> QED BY <1>2, <1>6, <2>1, <3>1, <3>2
  <2>2. CASE ~(j < i)
    <3>1. j - (i - 1) \in 1..(n - i) /\ i + (j - (i - 1)) = j + 1 /\ ~(j <= i - 1)
      BY <1>1, <2>2
    <3>2. q[j] = r[j - (i - 1)]
      BY <1>5, <3>1
    <3> QED BY <1>3, <1>6, <2>2, <3>1, <3>2
  <2> QED BY <2>1, <2>2
<1>8. \A j, k \in 1..(n - 1) : j < k => f[j] < f[k]
  BY <1>1, <1>6
<1>9. \A k \in (1..n) \ {i} : \E j \in 1..(n - 1) : f[j] = k
  <2> SUFFICES ASSUME NEW k \in (1..n) \ {i} PROVE \E j \in 1..(n - 1) : f[j] = k
    OBVIOUS
  <2>1. CASE k < i
    <3>1. k \in 1..(n - 1)
      BY <1>1, <2>1
    <3> QED BY <1>6, <2>1, <3>1
  <2>2. CASE ~(k < i)
    <3>1. k - 1 \in 1..(n - 1) /\ ~(k - 1 < i) /\ (k - 1) + 1 = k
      BY <1>1, <2>2
    <3> QED BY <1>6, <3>1
  <2> QED BY <2>1, <2>2
<1>10. Len(q) <= n
  BY <1>1, <1>5
<1>11. Part(S, a, q, (1..n) \ {i})
  <2>1. /\ f \in [1..Len(q) -> (1..n) \ {i}]
        /\ \A j \in 1..Len(q) : q[j] = a[f[j]]
        /\ \A j, k \in 1..Len(q) : j < k => f[j] < f[k]
        /\ \A k \in (1..n) \ {i} : \E j \in 1..Len(q) : f[j] = k
    BY <1>5, <1>6, <1>7, <1>8, <1>9
  <2>2. q \in Seq(S) /\ Len(q) <= Len(a)
    BY <1>5, <1>10 DEF n
  <2> QED BY <2>1, <2>2 DEF Part
<1> QED BY <1>5, <1>11 DEF n, q

LEMMA MinIs ==
  ASSUME NEW n \in Nat, NEW I \in SUBSET (1..n), I # {}
  PROVE  Min(I) \in I /\ \A i \in I : Min(I) <= i
<1>1. I \in SUBSET Nat
  OBVIOUS
<1>2. \E k \in I : \A i \in I : k <= i
  BY <1>1, LeastOf
<1> QED BY <1>2 DEF Min

(* An element goes in before place k.                                        *)
LEMMA InsertIs ==
  ASSUME NEW S, NEW a \in Seq(S), NEW k \in 1..Len(a), NEW x \in S
  PROVE  /\ InsertAt(a, k, x) \in Seq(S) /\ Len(InsertAt(a, k, x)) = Len(a) + 1
         /\ \A i \in 1..(Len(a) + 1) :
              InsertAt(a, k, x)[i] = IF i < k THEN a[i] ELSE IF i = k THEN x ELSE a[i - 1]
<1> DEFINE n == Len(a)
           q == InsertAt(a, k, x)
           p == SubSeq(a, 1, k - 1)
           m == p \o <<x>>
           r == SubSeq(a, k, n)
<1>1. n \in Nat /\ k \in Nat /\ k >= 1 /\ k <= n
  OBVIOUS
<1>2. p \in Seq(S) /\ Len(p) = k - 1 /\ \A j \in 1..(k - 1) : p[j] = a[j]
  BY <1>1
<1>3. r \in Seq(S) /\ Len(r) = n - k + 1 /\ \A j \in 1..(n - k + 1) : r[j] = a[k + j - 1]
  BY <1>1
<1>4. q = m \o r
  BY DEF InsertAt
<1> HIDE DEF p, r, q, n
<1>5. m \in Seq(S) /\ Len(m) = k /\ m[k] = x /\ \A j \in 1..(k - 1) : m[j] = a[j]
  BY <1>1, <1>2
<1> HIDE DEF m
<1>6. q \in Seq(S) /\ Len(q) = n + 1
      /\ \A i \in 1..(n + 1) : q[i] = IF i <= k THEN m[i] ELSE r[i - k]
  <2>1. q \in Seq(S) /\ Len(q) = Len(m) + Len(r)
        /\ \A i \in 1..(Len(m) + Len(r)) : q[i] = IF i <= Len(m) THEN m[i] ELSE r[i - Len(m)]
    BY <1>3, <1>4, <1>5, ConcatProperties
  <2>2. Len(m) = k /\ k + Len(r) = n + 1
    BY <1>1, <1>3, <1>5
  <2> QED BY <2>1, <2>2
<1>7. ASSUME NEW i \in 1..(n + 1)
      PROVE  q[i] = IF i < k THEN a[i] ELSE IF i = k THEN x ELSE a[i - 1]
  <2>1. CASE i <= k
    <3>1. q[i] = m[i]
      BY <1>6, <2>1
    <3>2. i = k \/ (i < k /\ i \in 1..(k - 1))
      BY <1>1, <2>1
    <3> QED BY <1>1, <1>5, <3>1, <3>2
  <2>2. CASE ~(i <= k)
    <3>1. i - k \in 1..(n - k + 1) /\ k + (i - k) - 1 = i - 1 /\ ~(i < k) /\ i # k
      BY <1>1, <2>2
    <3>2. q[i] = r[i - k]
      BY <1>6, <2>2
    <3> QED BY <1>3, <3>1, <3>2
  <2> QED BY <2>1, <2>2
<1> QED BY <1>6, <1>7 DEF q, n

----------------------------------------------------------------------------
(* Tokens and the login throttle.                                            *)

(* Failed logins of an address as one user: w are the moments of those that are *)
(* remembered, m is the time.  A run is what one record counts.              *)
LoginRecord == [key : LoginKeys, count : Nat, first : Nat, until : Nat]

Spread(w, m) ==
  /\ w \in Seq(Nat)
  /\ \A i \in 1..Len(w) : w[i] <= m
  /\ \A i, j \in 1..Len(w) : i <= j => w[i] <= w[j]
  /\ \A i, j \in 1..Len(w) : i + 2 * (LoginFailures - 1) <= j => w[i] + LoginWindow <= w[j]

Running(w, r) ==
  /\ r.count \in 1..Len(w) /\ r.count <= LoginFailures
  /\ w[Len(w) - r.count + 1] = r.first /\ w[Len(w)] < r.first + LoginWindow
  /\ r.until = IF r.count = LoginFailures THEN w[Len(w)] + LoginLock ELSE 0
  /\ \A i \in 1..Len(w) : i + LoginFailures <= Len(w) - r.count + 2 => w[i] + LoginWindow <= r.first

Rested(w, m) == \A i \in 1..Len(w) : w[i] + LoginWindow <= m

Early(w, m) == \A i \in 1..Len(w) : i + LoginFailures <= Len(w) + 2 => w[i] + LoginWindow <= m

Tracked(a, wp, m) ==
  /\ a \in Seq(LoginRecord)
  /\ \A i, j \in 1..Len(a) : a[i].key = a[j].key => i = j
  /\ wp \in [LoginKeys -> Seq(Nat)]
  /\ \A u \in LoginKeys : Spread(wp[u], m)
  /\ \A i \in 1..Len(a) : Running(wp[a[i].key], a[i])
  /\ \A u \in LoginKeys : (\A i \in 1..Len(a) : a[i].key # u) => Rested(wp[u], m)

ThrottleInv ==
  /\ moment \in 0..LastMoment /\ Len(loginFailures) <= LoginRecords
  /\ Tracked(loginFailures, wrongPasswords, moment)

LEMMA ThrottleConstants ==
  /\ LoginFailures \in Nat /\ LoginFailures > 1 /\ LoginWindow \in Nat /\ LoginWindow > 0
  /\ LoginLock \in Nat /\ LoginLock >= LoginWindow /\ LoginRecords \in Nat /\ LoginRecords > 0
  /\ LastMoment \in Nat
BY AccountsAssumption

LEMMA AppendIs ==
  ASSUME NEW S, NEW w \in Seq(S), NEW x \in S
  PROVE  /\ Append(w, x) \in Seq(S) /\ Len(Append(w, x)) = Len(w) + 1 /\ Len(w) \in Nat
         /\ Append(w, x)[Len(w) + 1] = x
         /\ \A i \in 1..Len(w) : Append(w, x)[i] = w[i]
OBVIOUS

(* A failure after a while, or after the lock: a new run.                    *)
LEMMA NewRun ==
  ASSUME NEW w, NEW m \in Nat, Spread(w, m), Early(w, m), NEW r \in LoginRecord,
         r.count = 1, r.first = m, r.until = 0
  PROVE  Spread(Append(w, m), m) /\ Running(Append(w, m), r)
<1> DEFINE v == Append(w, m)
           n == Len(w)
<1>1. w \in Seq(Nat)
  BY DEF Spread
<1>2. /\ v \in Seq(Nat) /\ Len(v) = n + 1 /\ n \in Nat /\ v[n + 1] = m
      /\ \A i \in 1..n : v[i] = w[i] /\ w[i] \in Nat
  BY <1>1, AppendIs
<1> HIDE DEF v, n
<1>3. /\ \A i \in 1..n : w[i] <= m
      /\ \A i, j \in 1..n : i <= j => w[i] <= w[j]
      /\ \A i, j \in 1..n : i + 2 * (LoginFailures - 1) <= j => w[i] + LoginWindow <= w[j]
      /\ \A i \in 1..n : i + LoginFailures <= n + 2 => w[i] + LoginWindow <= m
  BY DEF Spread, Early, n
<1>4. \A i \in 1..Len(v) : v[i] <= m
  BY <1>2, <1>3
<1>5. \A i, j \in 1..Len(v) : i <= j => v[i] <= v[j]
  BY <1>2, <1>3
<1>6. ASSUME NEW i \in 1..Len(v), NEW j \in 1..Len(v), i + 2 * (LoginFailures - 1) <= j
      PROVE  v[i] + LoginWindow <= v[j]
  <2>1. i \in 1..n
    <3>1. i \in 1..(n + 1) /\ j \in 1..(n + 1) /\ n \in Nat
      BY <1>2
    <3>2. LoginFailures \in Nat /\ LoginFailures > 1
      BY ThrottleConstants
    <3> QED BY <1>6, <3>1, <3>2
  <2>2. CASE j = n + 1
    <3>1. i + LoginFailures <= n + 2
      BY <1>2, <1>6, <2>1, <2>2, ThrottleConstants
    <3> QED BY <1>2, <1>3, <2>1, <2>2, <3>1
  <2>3. CASE j \in 1..n
    BY <1>2, <1>3, <1>6, <2>1, <2>3
  <2> QED BY <1>2, <2>2, <2>3
<1>7. Spread(v, m)
  BY <1>2, <1>4, <1>5, <1>6 DEF Spread
<1>8. \A i \in 1..Len(v) : i + LoginFailures <= Len(v) - r.count + 2 => v[i] + LoginWindow <= r.first
  BY <1>2, <1>3, ThrottleConstants
<1>9. /\ r.count \in 1..Len(v) /\ r.count <= LoginFailures
      /\ v[Len(v) - r.count + 1] = r.first /\ v[Len(v)] < r.first + LoginWindow
      /\ r.until = IF r.count = LoginFailures THEN v[Len(v)] + LoginLock ELSE 0
  BY <1>2, ThrottleConstants
<1> QED BY <1>7, <1>8, <1>9 DEF Running, v

(* A failure within the window of the run's first one.                       *)
LEMMA LongerRun ==
  ASSUME NEW w, NEW m \in Nat, Spread(w, m), NEW r \in LoginRecord, Running(w, r),
         m - r.first < LoginWindow, ~(r.until > m), NEW q \in LoginRecord,
         q.count = r.count + 1, q.first = r.first,
         q.until = IF q.count >= LoginFailures THEN m + LoginLock ELSE 0
  PROVE  Spread(Append(w, m), m) /\ Running(Append(w, m), q)
<1> DEFINE v == Append(w, m)
           n == Len(w)
           k == n - r.count + 1
<1>1. w \in Seq(Nat)
  BY DEF Spread
<1>2. /\ v \in Seq(Nat) /\ Len(v) = n + 1 /\ n \in Nat /\ v[n + 1] = m
      /\ \A i \in 1..n : v[i] = w[i] /\ w[i] \in Nat
  BY <1>1, AppendIs
<1>a. /\ \A i \in 1..n : w[i] <= m
      /\ \A i, j \in 1..n : i <= j => w[i] <= w[j]
      /\ \A i, j \in 1..n : i + 2 * (LoginFailures - 1) <= j => w[i] + LoginWindow <= w[j]
  BY DEF Spread
<1>b. r.count \in Nat /\ r.first \in Nat /\ r.until \in Nat /\ q.count \in Nat
  BY DEF LoginRecord
<1>c. /\ r.count \in 1..n /\ r.count <= LoginFailures
      /\ w[k] = r.first /\ w[n] < r.first + LoginWindow
      /\ r.until = IF r.count = LoginFailures THEN w[n] + LoginLock ELSE 0
      /\ \A i \in 1..n : i + LoginFailures <= k + 1 => w[i] + LoginWindow <= r.first
  BY <1>b, <1>2 DEF Running
<1> HIDE DEF v, n
<1>d. k \in 1..n
  <2>1. n \in Nat /\ r.count \in 1..n
    BY <1>2, <1>c
  <2>2. \A c \in 1..n : n - c + 1 \in 1..n
    BY <2>1
  <2> QED BY <2>1, <2>2
<1> HIDE DEF k
(* A full run is locked for longer than its window.                          *)
<1>3. r.count < LoginFailures
  <2> SUFFICES ASSUME r.count = LoginFailures PROVE FALSE
    BY <1>b, <1>c, ThrottleConstants
  <2>1. r.until = w[n] + LoginLock /\ n \in 1..n
    BY <1>c, <1>2, <1>d
  <2>2. w[k] <= w[n] /\ w[n] \in Nat
    BY <1>a, <1>d, <1>2, <2>1
  <2> QED BY <1>b, <1>c, <2>1, <2>2, ThrottleConstants
<1>4. \A i \in 1..Len(v) : v[i] <= m
  BY <1>2, <1>a
<1>5. \A i, j \in 1..Len(v) : i <= j => v[i] <= v[j]
  BY <1>2, <1>a
<1>6. ASSUME NEW i \in 1..Len(v), NEW j \in 1..Len(v), i + 2 * (LoginFailures - 1) <= j
      PROVE  v[i] + LoginWindow <= v[j]
  <2>1. i \in 1..n
    BY <1>2, <1>6, ThrottleConstants
  <2>2. CASE j = n + 1
    <3>1. i + LoginFailures <= k + 1
      <4>1. i + 2 * (LoginFailures - 1) <= n + 1 /\ i \in Nat /\ n \in Nat /\ LoginFailures \in Nat
        BY <1>2, <1>6, <2>1, <2>2, ThrottleConstants
      <4>2. k = n - r.count + 1 /\ r.count <= LoginFailures - 1
        BY <1>3, <1>b, <4>1 DEF k
      <4> HIDE DEF k
      <4> QED BY ONLY <1>b, <4>1, <4>2
    <3>2. w[i] + LoginWindow <= w[k] /\ w[k] <= m /\ w[i] \in Nat /\ w[k] \in Nat
      BY <1>2, <1>a, <1>c, <1>d, <2>1, <3>1
    <3> QED BY <1>2, <2>1, <2>2, <3>2, ThrottleConstants
  <2>3. CASE j \in 1..n
    BY <1>2, <1>a, <1>6, <2>1, <2>3
  <2> QED BY <1>2, <2>2, <2>3
<1>7. Spread(v, m)
  BY <1>2, <1>4, <1>5, <1>6 DEF Spread
<1>8. Len(v) - q.count + 1 = k
  <2>1. Len(v) = n + 1 /\ n \in Nat
    BY <1>2
  <2> QED BY <1>b, <2>1 DEF k
<1>9. \A i \in 1..Len(v) : i + LoginFailures <= Len(v) - q.count + 2 => v[i] + LoginWindow <= q.first
  <2> SUFFICES ASSUME NEW i \in 1..Len(v), i + LoginFailures <= Len(v) - q.count + 2
               PROVE  v[i] + LoginWindow <= q.first
    OBVIOUS
  <2>1. i + LoginFailures <= k + 1
    <3>1. Len(v) \in Nat /\ LoginFailures \in Nat
      BY <1>2, ThrottleConstants
    <3> QED BY <1>b, <1>8, <3>1
  <2>2. i \in 1..n
    BY <1>2, <1>d, <2>1, ThrottleConstants
  <2> QED BY <1>2, <1>c, <2>1, <2>2
<1>10. /\ q.count \in 1..Len(v) /\ q.count <= LoginFailures
       /\ v[Len(v) - q.count + 1] = q.first /\ v[Len(v)] < q.first + LoginWindow
  <2>1. v[k] = w[k]
    BY <1>2, <1>d
  <2>2. m < r.first + LoginWindow
    BY <1>b, ThrottleConstants
  <2>3. q.count \in 1..Len(v) /\ q.count <= LoginFailures
    BY <1>2, <1>3, <1>b, <1>c, ThrottleConstants
  <2>4. v[Len(v)] = m
    BY <1>2
  <2>5. w[k] = r.first
    BY <1>c
  <2> QED BY <1>8, <2>1, <2>2, <2>3, <2>4, <2>5
<1>11. q.until = IF q.count = LoginFailures THEN v[Len(v)] + LoginLock ELSE 0
  BY <1>2, <1>3, <1>b, ThrottleConstants
<1> QED BY <1>7, <1>9, <1>10, <1>11 DEF Running, v

(* A run is over with its window or its lock, and then no failure of it is   *)
(* near: of a run that ends short of the lock, the first one is not.         *)
LEMMA RunOver ==
  ASSUME NEW w, NEW m \in Nat, Spread(w, m), NEW r \in LoginRecord, Running(w, r), ~(r.until > m)
  PROVE  /\ r.until # 0 => Rested(w, m)
         /\ ~(m - r.first < LoginWindow) => Early(w, m)
<1> DEFINE n == Len(w)
           k == n - r.count + 1
<1>1. w \in Seq(Nat)
  BY DEF Spread
<1>2. n \in Nat /\ \A i \in 1..n : w[i] \in Nat
  BY <1>1
<1>3. \A i, j \in 1..n : i <= j => w[i] <= w[j]
  BY DEF Spread
<1>4. r.count \in Nat /\ r.first \in Nat /\ r.until \in Nat
  BY DEF LoginRecord
<1>5. /\ r.count \in 1..n /\ r.count <= LoginFailures /\ w[k] = r.first
      /\ r.until = IF r.count = LoginFailures THEN w[n] + LoginLock ELSE 0
  BY DEF Running
<1> HIDE DEF n
<1>6. k \in 1..n /\ n \in 1..n
  BY <1>2, <1>4, <1>5
<1> HIDE DEF k
<1>7. ASSUME r.count = LoginFailures PROVE \A i \in 1..n : w[i] + LoginWindow <= m
  <2>1. w[n] + LoginLock <= m /\ w[n] \in Nat
    BY <1>2, <1>4, <1>5, <1>6, <1>7, ThrottleConstants
  <2>2. \A i \in 1..n : w[i] <= w[n] /\ w[i] \in Nat
    BY <1>2, <1>3, <1>6
  <2> QED BY <2>1, <2>2, ThrottleConstants
<1>8. r.until # 0 => Rested(w, m)
  BY <1>5, <1>7 DEF Rested, n
<1>9. ASSUME r.count < LoginFailures, ~(m - r.first < LoginWindow),
             NEW i \in 1..n, i + LoginFailures <= n + 2
      PROVE  w[i] + LoginWindow <= m
  <2>1. i <= k
    BY <1>2, <1>4, <1>9, ThrottleConstants DEF k
  <2>2. w[i] <= r.first /\ w[i] \in Nat
    BY <1>2, <1>3, <1>5, <1>6, <2>1
  <2> QED BY <1>4, <1>9, <2>2, ThrottleConstants
<1>10. r.count = LoginFailures \/ r.count < LoginFailures
  BY <1>4, <1>5, ThrottleConstants
<1>11. ~(m - r.first < LoginWindow) => Early(w, m)
  BY <1>7, <1>9, <1>10 DEF Early, n
<1> QED BY <1>8, <1>11

LEMMA RestedIsEarly ==
  ASSUME NEW w, NEW m, Rested(w, m)
  PROVE  Early(w, m)
BY DEF Rested, Early

LEMMA NoFailures ==
  ASSUME NEW m \in Nat
  PROVE  Spread(<< >>, m) /\ Rested(<< >>, m)
BY DEF Spread, Rested

LEMMA FailuresLater ==
  ASSUME NEW w, NEW m \in Nat, Spread(w, m)
  PROVE  Spread(w, m + 1) /\ (Rested(w, m) => Rested(w, m + 1))
<1>1. w \in Seq(Nat)
  BY DEF Spread
<1>2. Len(w) \in Nat /\ \A i \in 1..Len(w) : w[i] \in Nat /\ w[i] + LoginWindow \in Nat
  BY <1>1, ThrottleConstants
<1>3. \A i \in 1..Len(w) : w[i] <= m + 1
  BY <1>2 DEF Spread
<1> QED BY <1>2, <1>3 DEF Spread, Rested

(* Few failures are near each other.                                         *)
LEMMA FewTogether ==
  ASSUME NEW w, NEW m, Spread(w, m), NEW t \in Nat
  PROVE  Cardinality({i \in DOMAIN w : w[i] \in t..(t + LoginWindow - 1)}) <= 2 * (LoginFailures - 1)
<1> DEFINE I == {i \in DOMAIN w : w[i] \in t..(t + LoginWindow - 1)}
           b == 2 * (LoginFailures - 1)
<1>1. w \in Seq(Nat)
  BY DEF Spread
<1>2. DOMAIN w = 1..Len(w) /\ Len(w) \in Nat /\ \A i \in 1..Len(w) : w[i] \in Nat
  BY <1>1
<1>3. b \in Nat /\ b > 0
  BY ThrottleConstants
<1>4. \A i, j \in 1..Len(w) : i + b <= j => w[i] + LoginWindow <= w[j]
  BY DEF Spread
<1>5. I \in SUBSET Nat /\ \A i \in I : i \in 1..Len(w) /\ w[i] >= t /\ w[i] < t + LoginWindow
  BY <1>2, ThrottleConstants
<1> HIDE DEF I, b
<1>6. CASE I = {}
  BY <1>3, <1>6, FS_EmptySet DEF I, b
<1>7. CASE I # {}
  <2>1. PICK i \in I : \A j \in I : i <= j
    BY <1>5, <1>7, LeastOf
  <2>2. i \in Nat
    BY <1>5
  <2>3. \A j \in I : j \in i..(i + b - 1)
    <3> SUFFICES ASSUME NEW j \in I, ~(j \in i..(i + b - 1)) PROVE FALSE
      OBVIOUS
    <3>1. j \in Nat /\ i <= j /\ i + b <= j
      BY <1>3, <1>5, <2>1, <2>2
    <3>2. w[i] + LoginWindow <= w[j]
      BY <1>4, <1>5, <3>1
    <3> QED BY <1>2, <1>5, <3>2, ThrottleConstants
  <2>4. I \in SUBSET (i..(i + b - 1))
    BY <2>3
  <2>5. IsFiniteSet(i..(i + b - 1)) /\ Cardinality(i..(i + b - 1)) = b
    <3> DEFINE c == i + b - 1
    <3>1. i \in Int /\ c \in Int /\ ~(i > c) /\ c - i + 1 = b
      BY <1>3, <2>2
    <3> HIDE DEF c
    <3>2. IsFiniteSet(i..c) /\ Cardinality(i..c) = b
      BY <3>1, FS_Interval
    <3> QED BY <3>2 DEF c
  <2>6. Cardinality(I) <= b
    <3> DEFINE c == i + b - 1
    <3> HIDE DEF c
    <3>1. I \in SUBSET (i..c) /\ IsFiniteSet(i..c) /\ Cardinality(i..c) = b
      BY <2>4, <2>5 DEF c
    <3>2. Cardinality(I) <= Cardinality(i..c)
      BY ONLY <3>1, FS_Subset
    <3> QED BY <3>1, <3>2
  <2> QED BY <2>6 DEF I, b
<1> QED BY <1>6, <1>7

(* Records are dropped: their keys are rested, or start afresh.             *)
Dropping(a, wp, m, I, q, wq) ==
  /\ I \in SUBSET (1..Len(a)) /\ Part(LoginRecord, a, q, I)
  /\ wq \in [LoginKeys -> Seq(Nat)]
  /\ \A u \in LoginKeys : wq[u] = wp[u] \/ wq[u] = << >>
  /\ \A i \in I : wq[a[i].key] = wp[a[i].key]
  /\ \A i \in (1..Len(a)) \ I : Rested(wq[a[i].key], m)

LEMMA DroppingKeeps ==
  ASSUME NEW a, NEW wp, NEW m \in Nat, NEW I, NEW q, NEW wq,
         Tracked(a, wp, m), Dropping(a, wp, m, I, q, wq)
  PROVE  Tracked(q, wq, m)
<1>0. /\ I \in SUBSET (1..Len(a)) /\ Part(LoginRecord, a, q, I)
      /\ wq \in [LoginKeys -> Seq(Nat)]
      /\ \A u \in LoginKeys : wq[u] = wp[u] \/ wq[u] = << >>
      /\ \A i \in I : wq[a[i].key] = wp[a[i].key]
      /\ \A i \in (1..Len(a)) \ I : Rested(wq[a[i].key], m)
  BY DEF Dropping
<1>1. /\ a \in Seq(LoginRecord)
      /\ \A i, j \in 1..Len(a) : a[i].key = a[j].key => i = j
      /\ \A u \in LoginKeys : Spread(wp[u], m)
      /\ \A i \in 1..Len(a) : Running(wp[a[i].key], a[i])
      /\ \A u \in LoginKeys : (\A i \in 1..Len(a) : a[i].key # u) => Rested(wp[u], m)
  BY DEF Tracked
<1>2. PICK f \in [1..Len(q) -> I] :
           /\ \A i \in 1..Len(q) : q[i] = a[f[i]]
           /\ \A i, j \in 1..Len(q) : f[i] = f[j] => i = j
           /\ \A k \in I : \E i \in 1..Len(q) : f[i] = k
  <2>1. OneToOne(a, q, I)
    BY <1>0, <1>1, PartIsOne
  <2> QED BY <2>1 DEF OneToOne
<1>3. q \in Seq(LoginRecord)
  BY <1>0 DEF Part
<1>4. \A i \in 1..Len(q) : f[i] \in I /\ f[i] \in 1..Len(a)
  BY <1>0, <1>2
<1>5. ASSUME NEW i \in 1..Len(q), NEW j \in 1..Len(q), q[i].key = q[j].key PROVE i = j
  <2>1. q[i] = a[f[i]] /\ q[j] = a[f[j]] /\ f[i] \in 1..Len(a) /\ f[j] \in 1..Len(a)
    BY <1>2, <1>4
  <2>2. f[i] = f[j]
    BY <1>1, <1>5, <2>1
  <2> QED BY <1>2, <2>2
<1>6. \A u \in LoginKeys : Spread(wq[u], m)
  BY <1>0, <1>1, NoFailures
<1>7. \A i \in 1..Len(q) : Running(wq[q[i].key], q[i])
  BY <1>0, <1>1, <1>2, <1>4
<1>8. ASSUME NEW u \in LoginKeys, \A i \in 1..Len(q) : q[i].key # u PROVE Rested(wq[u], m)
  <2>1. CASE \A i \in 1..Len(a) : a[i].key # u
    BY <1>0, <1>1, <2>1, NoFailures
  <2>2. CASE \E i \in 1..Len(a) : a[i].key = u
    <3>1. PICK i \in 1..Len(a) : a[i].key = u
      BY <2>2
    <3>2. i \notin I
      <4> SUFFICES ASSUME i \in I PROVE FALSE
        OBVIOUS
      <4>1. PICK k \in 1..Len(q) : f[k] = i
        BY <1>2
      <4> QED BY <1>2, <1>8, <3>1, <4>1
    <3> QED BY <1>0, <3>1, <3>2
  <2> QED BY <2>1, <2>2
<1> QED BY <1>0, <1>3, <1>5, <1>6, <1>7, <1>8 DEF Tracked

(* A failure is counted.                                                     *)
WithWrong(key) == [u \in LoginKeys |-> IF u = key THEN Append(wrongPasswords[u], moment) ELSE wrongPasswords[u]]

LEMMA RecordsAre ==
  ASSUME NEW key, loginFailures \in Seq(LoginRecord)
  PROVE  /\ \A r \in Records(key) : r \in LoginRecord /\ r.key = key
                                     /\ \E i \in 1..Len(loginFailures) : r = loginFailures[i]
         /\ \A i \in 1..Len(loginFailures) : loginFailures[i].key = key => loginFailures[i] \in Records(key)
<1>1. DOMAIN loginFailures = 1..Len(loginFailures)
  OBVIOUS
<1>2. \A i \in 1..Len(loginFailures) : loginFailures[i] \in LoginRecord
  OBVIOUS
<1> QED BY <1>1, <1>2 DEF Records, ToSet

LEMMA CountedIs ==
  ASSUME ThrottleInv, NEW key \in LoginKeys, ~Locked(key)
  PROVE  /\ Counted(key) \in LoginRecord /\ Counted(key).key = key
         /\ Running(WithWrong(key)[key], Counted(key)) /\ Spread(WithWrong(key)[key], moment)
<1> DEFINE w == wrongPasswords[key]
           within == {r \in Records(key) : moment - r.first < LoginWindow}
           c == Counted(key)
<1>1. /\ moment \in Nat /\ Spread(w, moment) /\ w \in Seq(Nat) /\ loginFailures \in Seq(LoginRecord)
      /\ WithWrong(key)[key] = Append(w, moment)
      /\ \A i, j \in 1..Len(loginFailures) : loginFailures[i].key = loginFailures[j].key => i = j
      /\ \A i \in 1..Len(loginFailures) :
           Running(wrongPasswords[loginFailures[i].key], loginFailures[i])
  BY ThrottleConstants DEF ThrottleInv, Tracked, WithWrong
<1>2. \A r \in Records(key) : r \in LoginRecord /\ Running(w, r) /\ r.key = key /\ ~(r.until > moment)
  BY <1>1, RecordsAre DEF Locked
<1>3. \A r, q \in Records(key) : r = q
  BY <1>1, RecordsAre
<1>4. CASE within = {}
  <2>1. c = [key |-> key, count |-> 1, first |-> moment, until |-> 0]
    <3>1. 1 + 0 = 1 /\ ~(1 >= LoginFailures)
      BY ThrottleConstants
    <3> HIDE DEF w
    <3> QED BY <1>4, <3>1 DEF Counted
  <2>2. c \in LoginRecord /\ c.key = key /\ c.count = 1 /\ c.first = moment /\ c.until = 0
    BY <1>1, <2>1 DEF LoginRecord
  <2>3. Early(w, moment)
    <3>1. CASE Records(key) = {}
      <4>1. \A i \in 1..Len(loginFailures) : loginFailures[i].key # key
        BY <1>1, <3>1, RecordsAre
      <4>2. Rested(w, moment)
        BY <4>1 DEF ThrottleInv, Tracked
      <4> QED BY <4>2, RestedIsEarly
    <3>2. CASE Records(key) # {}
      <4>1. PICK r \in Records(key) : TRUE
        BY <3>2
      <4>2. ~(moment - r.first < LoginWindow)
        BY <1>4, <4>1
      <4> QED BY <1>1, <1>2, <4>1, <4>2, RunOver
    <3> QED BY <3>1, <3>2
  <2> HIDE DEF c, w
  <2> QED BY <1>1, <2>2, <2>3, NewRun DEF c
<1>5. CASE within # {}
  <2>1. PICK r \in within : TRUE
    BY <1>5
  <2>2. r \in Records(key) /\ moment - r.first < LoginWindow /\ \A q \in within : q = r
    BY <1>3, <2>1
  <2>3. (CHOOSE q \in within : TRUE) = r
    BY <2>1, <2>2
  <2>4. r.count \in Nat /\ r.first \in Nat
    BY <1>2, <2>2 DEF LoginRecord
  <2>5. c = [key |-> key, count |-> 1 + r.count, first |-> r.first,
             until |-> IF 1 + r.count >= LoginFailures THEN moment + LoginLock ELSE 0]
    <3> DEFINE x == CHOOSE q \in within : TRUE
    <3>1. c = [key |-> key, count |-> 1 + x.count, first |-> x.first,
               until |-> IF 1 + x.count >= LoginFailures THEN moment + LoginLock ELSE 0]
      BY <1>5 DEF Counted
    <3> QED BY <2>3, <3>1
  <2> HIDE DEF c, w
  <2>6. /\ c \in LoginRecord /\ c.key = key /\ c.count = r.count + 1 /\ c.first = r.first
        /\ c.until = IF c.count >= LoginFailures THEN moment + LoginLock ELSE 0
    BY <1>1, <2>4, <2>5, ThrottleConstants DEF LoginRecord
  <2>7. Spread(Append(w, moment), moment) /\ Running(Append(w, moment), c)
    BY <1>1, <1>2, <2>2, <2>6, LongerRun
  <2> QED BY <1>1, <2>6, <2>7 DEF c
<1> QED BY <1>4, <1>5

LEMMA FailureTracked ==
  ASSUME ThrottleInv, NEW key \in LoginKeys, ~Locked(key)
  PROVE  Tracked(WithFailure(key), WithWrong(key), moment)
<1> DEFINE a == loginFailures
           c == Counted(key)
           wq == WithWrong(key)
           b == WithFailure(key)
<1>1. /\ a \in Seq(LoginRecord) /\ Len(a) \in Nat /\ moment \in Nat
      /\ \A i, j \in 1..Len(a) : a[i].key = a[j].key => i = j
      /\ wrongPasswords \in [LoginKeys -> Seq(Nat)]
      /\ \A u \in LoginKeys : Spread(wrongPasswords[u], moment)
      /\ \A i \in 1..Len(a) : Running(wrongPasswords[a[i].key], a[i])
      /\ \A u \in LoginKeys : (\A i \in 1..Len(a) : a[i].key # u) => Rested(wrongPasswords[u], moment)
  BY ThrottleConstants DEF ThrottleInv, Tracked
<1>2. /\ c \in LoginRecord /\ c.key = key
      /\ Running(wq[key], c) /\ Spread(wq[key], moment)
  BY CountedIs
<1>3. wq \in [LoginKeys -> Seq(Nat)] /\ \A u \in LoginKeys : u # key => wq[u] = wrongPasswords[u]
  BY <1>1, <1>2 DEF WithWrong, Spread
<1>4. \A u \in LoginKeys : Spread(wq[u], moment)
  BY <1>1, <1>2, <1>3
<1>5. \A i \in 1..Len(a) : a[i] \in LoginRecord /\ a[i].key \in LoginKeys
  <2>1. \A i \in 1..Len(a) : a[i] \in LoginRecord
    BY <1>1
  <2>2. \A r \in LoginRecord : r.key \in LoginKeys
    BY DEF LoginRecord
  <2> QED BY <2>1, <2>2
<1>6. CASE Records(key) = {}
  <2>1. \A i \in 1..Len(a) : a[i].key # key
    BY <1>1, <1>6, RecordsAre
  <2>2. b = Append(a, c)
    BY <1>6 DEF WithFailure
  <2> HIDE DEF a, b, c, wq
  <2>3. /\ b \in Seq(LoginRecord) /\ Len(b) = Len(a) + 1 /\ b[Len(a) + 1] = c
        /\ \A i \in 1..Len(a) : b[i] = a[i]
    BY <1>1, <1>2, <2>2, AppendIs
  <2>4. \A i \in 1..Len(b) : i \in 1..Len(a) \/ i = Len(a) + 1
    BY <1>1, <2>3
  <2>5. \A i, j \in 1..Len(b) : b[i].key = b[j].key => i = j
    BY <1>1, <1>2, <2>1, <2>3, <2>4
  <2>6. \A i \in 1..Len(b) : Running(wq[b[i].key], b[i])
    BY <1>1, <1>2, <1>3, <1>5, <2>1, <2>3, <2>4
  <2>7. ASSUME NEW u \in LoginKeys, \A i \in 1..Len(b) : b[i].key # u PROVE Rested(wq[u], moment)
    <3>1. u # key
      <4>1. Len(a) + 1 \in 1..Len(b)
        BY <1>1, <2>3
      <4> QED BY <1>2, <2>3, <2>7, <4>1
    <3>2. \A i \in 1..Len(a) : a[i].key # u
      <4>1. \A i \in 1..Len(a) : i \in 1..Len(b)
        BY <1>1, <2>3
      <4> QED BY <2>3, <2>7, <4>1
    <3> QED BY <1>1, <1>3, <3>1, <3>2
  <2>8. Tracked(b, wq, moment)
    BY <1>3, <1>4, <2>3, <2>5, <2>6, <2>7 DEF Tracked
  <2> QED BY <2>8 DEF b, wq
<1>7. CASE Records(key) # {}
  <2>1. b = [i \in DOMAIN a |-> IF a[i].key = key THEN c ELSE a[i]]
    BY <1>7 DEF WithFailure
  <2> HIDE DEF a, b, c, wq
  <2>2. DOMAIN a = 1..Len(a)
    BY <1>1
  <2>3. /\ b \in Seq(LoginRecord) /\ Len(b) = Len(a)
        /\ \A i \in 1..Len(a) : b[i] = (IF a[i].key = key THEN c ELSE a[i])
    BY <1>1, <1>2, <1>5, <2>1, <2>2
  <2>4. \A i \in 1..Len(a) : b[i].key = a[i].key
    BY <1>2, <2>3
  <2>5. \A i, j \in 1..Len(b) : b[i].key = b[j].key => i = j
    BY <1>1, <2>3, <2>4
  <2>6. \A i \in 1..Len(b) : Running(wq[b[i].key], b[i])
    BY <1>1, <1>2, <1>3, <1>5, <2>3
  <2>7. ASSUME NEW u \in LoginKeys, \A i \in 1..Len(b) : b[i].key # u PROVE Rested(wq[u], moment)
    <3>1. \A i \in 1..Len(a) : a[i].key # u
      BY <2>3, <2>4, <2>7
    <3>2. u # key
      <4>1. PICK r \in Records(key) : TRUE
        BY <1>7
      <4>2. \E i \in 1..Len(a) : a[i].key = key
        BY <1>1, <4>1, RecordsAre DEF a
      <4> QED BY <3>1, <4>2
    <3> QED BY <1>1, <1>3, <3>1, <3>2
  <2>8. Tracked(b, wq, moment)
    BY <1>3, <1>4, <2>3, <2>5, <2>6, <2>7 DEF Tracked
  <2> QED BY <2>8 DEF b, wq
<1> QED BY <1>6, <1>7

UserRecord == [role : Roles, enabled : EnabledValues, tokenVersion : 0..MaxVersion]

TokenInv ==
  /\ DOMAIN users \subseteq UserNames
  /\ users \in [DOMAIN users -> UserRecord]
  /\ tokens \subseteq [user : DOMAIN users, ver : 0..MaxVersion] /\ revoked \subseteq tokens
  /\ \A t \in tokens : t.ver <= users[t.user].tokenVersion
  /\ \A t \in revoked : t.ver < users[t.user].tokenVersion

AccountsInv == TokenInv /\ ThrottleInv

LEMMA TokenFacts ==
  ASSUME TokenInv
  PROVE  /\ MaxVersion \in Nat
         /\ \A u \in DOMAIN users : /\ users[u] \in UserRecord /\ users[u].tokenVersion \in 0..MaxVersion
                                    /\ users[u].tokenVersion \in Nat
         /\ \A t \in tokens : t.user \in DOMAIN users /\ t.ver \in 0..MaxVersion /\ t.ver \in Nat
<1>1. MaxVersion \in Nat
  BY AccountsAssumption
<1>2. \A r \in UserRecord : r.tokenVersion \in 0..MaxVersion
  BY DEF UserRecord
<1>3. \A t \in tokens : t.user \in DOMAIN users /\ t.ver \in 0..MaxVersion
  BY DEF TokenInv
<1> QED BY <1>1, <1>2, <1>3 DEF TokenInv

(* The throttle rests.                                                       *)
LEMMA ThrottleRests ==
  ASSUME ThrottleInv, UNCHANGED <<loginFailures, wrongPasswords, moment>>
  PROVE  ThrottleInv'
BY DEF ThrottleInv

LEMMA AddUserKeeps ==
  ASSUME AccountsInv, NEW name \in UserNames, NEW role \in Roles, AddUser(name, role)
  PROVE  AccountsInv'
<1>1. /\ name \notin DOMAIN users
      /\ users' = [u \in DOMAIN users \cup {name} |-> IF u = name THEN User(role, "true") ELSE users[u]]
      /\ tokens' = tokens /\ revoked' = revoked
      /\ UNCHANGED <<loginFailures, wrongPasswords, moment>>
  BY DEF AddUser
<1>2. TokenInv /\ ThrottleInv /\ MaxVersion \in Nat
  BY TokenFacts DEF AccountsInv
<1>3. User(role, "true") \in UserRecord
  BY <1>2, AccountsAssumption DEF User, UserRecord
<1>4. users' \in [DOMAIN users' -> UserRecord] /\ DOMAIN users' = DOMAIN users \cup {name}
      /\ \A u \in DOMAIN users : users'[u] = users[u]
  BY <1>1, <1>2, <1>3 DEF TokenInv
<1>5. tokens' \subseteq [user : DOMAIN users', ver : 0..MaxVersion]
  BY <1>1, <1>2, <1>4 DEF TokenInv
<1>6. \A t \in tokens : users'[t.user] = users[t.user]
  BY <1>2, <1>4, TokenFacts
<1>7. TokenInv'
  BY <1>1, <1>2, <1>4, <1>5, <1>6 DEF TokenInv
<1> QED BY <1>1, <1>2, <1>7, ThrottleRests DEF AccountsInv

LEMMA DeleteUserKeeps ==
  ASSUME AccountsInv, NEW name \in UserNames, DeleteUser(name)
  PROVE  AccountsInv'
<1>1. /\ users' = [u \in DOMAIN users \ {name} |-> users[u]]
      /\ tokens' = tokens \ Issued(name) /\ revoked' = revoked \ Issued(name)
      /\ UNCHANGED <<loginFailures, wrongPasswords, moment>>
  BY DEF DeleteUser
<1>2. TokenInv /\ ThrottleInv
  BY DEF AccountsInv
<1>3. users' \in [DOMAIN users' -> UserRecord] /\ DOMAIN users' = DOMAIN users \ {name}
      /\ \A u \in DOMAIN users' : users'[u] = users[u]
  BY <1>1, <1>2 DEF TokenInv
<1>4. \A t \in tokens' : t \in tokens /\ t.user # name
  BY <1>1 DEF Issued
<1>5. tokens' \subseteq [user : DOMAIN users', ver : 0..MaxVersion]
  <2> SUFFICES ASSUME NEW t \in tokens' PROVE t \in [user : DOMAIN users', ver : 0..MaxVersion]
    OBVIOUS
  <2>1. t \in [user : DOMAIN users, ver : 0..MaxVersion] /\ t.user # name
    BY <1>2, <1>4 DEF TokenInv
  <2> QED BY <1>3, <2>1
<1>6. \A t \in tokens' : users'[t.user] = users[t.user]
  BY <1>3, <1>5
<1>7. revoked' \subseteq tokens' /\ revoked' \subseteq revoked /\ tokens' \subseteq tokens
  BY <1>1, <1>2 DEF TokenInv
<1>8. DOMAIN users' \subseteq UserNames
  BY <1>2, <1>3 DEF TokenInv
<1>9. TokenInv'
  BY <1>2, <1>3, <1>5, <1>6, <1>7, <1>8 DEF TokenInv
<1> QED BY <1>1, <1>2, <1>9, ThrottleRests DEF AccountsInv

(* A user changes; the tokens issued before are refused when the epoch is    *)
(* another.                                                                  *)
LEMMA UserChanges ==
  ASSUME TokenInv, NEW name \in DOMAIN users, NEW r \in UserRecord,
         users' = [users EXCEPT ![name] = r], tokens' = tokens,
         r.tokenVersion >= users[name].tokenVersion,
         \/ revoked' = revoked
         \/ revoked' = revoked \cup Issued(name) /\ r.tokenVersion > users[name].tokenVersion
  PROVE  TokenInv'
<1>1. /\ DOMAIN users' = DOMAIN users /\ users' \in [DOMAIN users' -> UserRecord]
      /\ \A u \in DOMAIN users : users'[u] = IF u = name THEN r ELSE users[u]
  BY DEF TokenInv
<1>2. \A u \in DOMAIN users : users'[u].tokenVersion \in Nat /\ users[u].tokenVersion \in Nat
                              /\ users'[u].tokenVersion >= users[u].tokenVersion
  <2>1. r.tokenVersion \in Nat
    BY TokenFacts DEF UserRecord
  <2> QED BY <1>1, <2>1, TokenFacts
<1>3. \A t \in tokens' : t.ver <= users'[t.user].tokenVersion
  <2> SUFFICES ASSUME NEW t \in tokens PROVE t.ver <= users'[t.user].tokenVersion
    OBVIOUS
  <2>1. t.user \in DOMAIN users /\ t.ver \in Nat /\ t.ver <= users[t.user].tokenVersion
    BY TokenFacts DEF TokenInv
  <2> QED BY <1>2, <2>1
<1>4. revoked' \subseteq tokens'
  BY DEF TokenInv, Issued
<1>5. \A t \in revoked' : t.ver < users'[t.user].tokenVersion
  <2> SUFFICES ASSUME NEW t \in revoked' PROVE t.ver < users'[t.user].tokenVersion
    OBVIOUS
  <2>1. t \in tokens /\ t.user \in DOMAIN users /\ t.ver \in Nat /\ t.ver <= users[t.user].tokenVersion
    BY <1>4, TokenFacts DEF TokenInv
  <2>2. CASE t \in revoked
    <3>1. t.ver < users[t.user].tokenVersion
      BY <2>2 DEF TokenInv
    <3> QED BY <1>2, <2>1, <3>1
  <2>3. CASE t \notin revoked
    <3>1. t.user = name /\ r.tokenVersion > users[name].tokenVersion
      BY <2>3 DEF Issued
    <3> QED BY <1>1, <1>2, <2>1, <3>1
  <2> QED BY <2>2, <2>3
<1> QED BY <1>1, <1>3, <1>4, <1>5 DEF TokenInv

LEMMA ModifyUserKeeps ==
  ASSUME AccountsInv, NEW name \in UserNames, NEW newPassword \in BOOLEAN,
         NEW role \in Roles \cup {"unchanged"}, NEW on \in EnabledValues \cup {"unchanged"},
         ModifyUser(name, newPassword, role, on)
  PROVE  AccountsInv'
<1> DEFINE r == Modified(users[name], newPassword, role, on)
<1>1. /\ name \in DOMAIN users /\ (newPassword => users[name].tokenVersion < MaxVersion)
      /\ users' = [users EXCEPT ![name] = r] /\ tokens' = tokens
      /\ revoked' = (IF newPassword THEN revoked \cup Issued(name) ELSE revoked)
      /\ UNCHANGED <<loginFailures, wrongPasswords, moment>>
  BY DEF ModifyUser
<1>2. TokenInv /\ ThrottleInv
  BY DEF AccountsInv
<1>3. users[name] \in UserRecord /\ users[name].tokenVersion \in Nat /\ MaxVersion \in Nat
  BY <1>1, <1>2, TokenFacts
<1>4. /\ r.tokenVersion = users[name].tokenVersion + (IF newPassword THEN 1 ELSE 0)
      /\ r.tokenVersion \in 0..MaxVersion
  BY <1>1, <1>3 DEF Modified, UserRecord
<1>5. r \in UserRecord
  BY <1>3, <1>4 DEF Modified, UserRecord
<1> HIDE DEF r
<1>6. TokenInv'
  <2>1. /\ r.tokenVersion >= users[name].tokenVersion
        /\ newPassword => r.tokenVersion > users[name].tokenVersion
    BY <1>3, <1>4
  <2>2. revoked' = revoked \/ (revoked' = revoked \cup Issued(name) /\ newPassword)
    BY <1>1
  <2> QED BY <1>1, <1>2, <1>5, <2>1, <2>2, UserChanges
<1> QED BY <1>1, <1>2, <1>6, ThrottleRests DEF AccountsInv

LEMMA LogoutKeeps ==
  ASSUME AccountsInv, NEW token \in tokens, Logout(token)
  PROVE  AccountsInv'
<1> DEFINE name == token.user
           r == [users[name] EXCEPT !.tokenVersion = @ + 1]
<1>1. /\ name \in DOMAIN users /\ users[name].tokenVersion = token.ver /\ token.ver < MaxVersion
      /\ tokens' = tokens /\ revoked' = revoked \cup Issued(name)
      /\ UNCHANGED <<loginFailures, wrongPasswords, moment>>
  BY DEF Logout
<1>2. users' = [users EXCEPT ![name] = r]
  BY DEF Logout, Revoked
<1>3. TokenInv /\ ThrottleInv
  BY DEF AccountsInv
<1>4. users[name] \in UserRecord /\ users[name].tokenVersion \in Nat /\ MaxVersion \in Nat
  BY <1>1, <1>3, TokenFacts
<1>5. r.tokenVersion = users[name].tokenVersion + 1 /\ r \in UserRecord
  BY <1>1, <1>4 DEF UserRecord
<1> HIDE DEF r
<1>6. TokenInv'
  <2>1. r.tokenVersion >= users[name].tokenVersion /\ r.tokenVersion > users[name].tokenVersion
    BY <1>4, <1>5
  <2> QED BY <1>1, <1>2, <1>3, <1>5, <2>1, UserChanges
<1> QED BY <1>1, <1>3, <1>6, ThrottleRests DEF AccountsInv

LEMMA LoginSucceedsKeeps ==
  ASSUME AccountsInv, NEW key \in LoginKeys, LoginSucceeds(key)
  PROVE  AccountsInv'
<1> DEFINE a == loginFailures
           I == {i \in DOMAIN a : a[i].key # key}
           t == [user |-> key.user, ver |-> users[key.user].tokenVersion]
           wq == [wrongPasswords EXCEPT ![key] = << >>]
<1>1. /\ key.user \in DOMAIN users /\ loginFailures' = Kept(a, I) /\ tokens' = tokens \cup {t}
      /\ wrongPasswords' = wq /\ users' = users /\ moment' = moment /\ revoked' = revoked
  BY DEF LoginSucceeds, Live
<1>2. TokenInv /\ ThrottleInv
  BY DEF AccountsInv
<1>3. TokenInv'
  <2>1. t \in [user : DOMAIN users, ver : 0..MaxVersion] /\ t.ver <= users[t.user].tokenVersion
    BY <1>1, <1>2, TokenFacts
  <2> HIDE DEF t
  <2> QED BY <1>1, <1>2, <2>1 DEF TokenInv
<1>4. /\ a \in Seq(LoginRecord) /\ wrongPasswords \in [LoginKeys -> Seq(Nat)] /\ moment \in Nat
      /\ Len(a) \in Nat /\ Len(a) <= LoginRecords /\ Tracked(a, wrongPasswords, moment)
  BY <1>2, ThrottleConstants DEF ThrottleInv, Tracked
<1>5. I \in SUBSET (1..Len(a))
  BY <1>4
<1>6. Part(LoginRecord, a, Kept(a, I), I)
  BY <1>4, <1>5, KeptIsPart
<1>7. wq \in [LoginKeys -> Seq(Nat)] /\ wq[key] = << >>
      /\ \A u \in LoginKeys : u # key => wq[u] = wrongPasswords[u]
  BY <1>4
<1>8. \A i \in 1..Len(a) : a[i].key \in LoginKeys
  <2>1. \A i \in 1..Len(a) : a[i] \in LoginRecord
    BY <1>4
  <2> QED BY <2>1 DEF LoginRecord
<1>9. \A i \in I : a[i].key # key
  OBVIOUS
<1>10. \A i \in (1..Len(a)) \ I : a[i].key = key
  BY <1>4
<1> DEFINE q == Kept(a, I)
<1> HIDE DEF I, q, wq
<1>11. Tracked(q, wq, moment)
  <2>1. \A i \in I : wq[a[i].key] = wrongPasswords[a[i].key]
    BY <1>5, <1>7, <1>8, <1>9
  <2>2. \A i \in (1..Len(a)) \ I : Rested(wq[a[i].key], moment)
    BY <1>4, <1>7, <1>10, NoFailures
  <2>3. Part(LoginRecord, a, q, I)
    BY <1>6 DEF q
  <2>4. \A u \in LoginKeys : wq[u] = wrongPasswords[u] \/ wq[u] = << >>
    BY <1>7
  <2>5. Dropping(a, wrongPasswords, moment, I, q, wq)
    BY <1>5, <1>7, <2>1, <2>2, <2>3, <2>4 DEF Dropping
  <2> QED BY <1>4, <2>5, DroppingKeeps
<1>12. Len(q) <= LoginRecords
  <2>1. Len(q) <= Len(a) /\ Len(q) \in Nat
    BY <1>6 DEF Part, q
  <2> QED BY <1>4, <2>1, ThrottleConstants
<1>13. loginFailures' = q
  BY <1>1 DEF q
<1>14. ThrottleInv'
  BY <1>1, <1>2, <1>11, <1>12, <1>13 DEF ThrottleInv
<1> QED BY <1>3, <1>14 DEF AccountsInv

LEMMA AccountsTickKeeps ==
  ASSUME AccountsInv, AccountsTick
  PROVE  AccountsInv'
<1>1. /\ moment' = moment + 1 /\ moment < LastMoment /\ moment \in 0..LastMoment /\ moment \in Nat
      /\ UNCHANGED <<users, tokens, revoked, loginFailures, wrongPasswords>>
  BY ThrottleConstants DEF AccountsTick, AccountsInv, ThrottleInv
<1>2. TokenInv'
  BY <1>1 DEF AccountsInv, TokenInv
<1>3. Tracked(loginFailures, wrongPasswords, moment) /\ Len(loginFailures) <= LoginRecords
  BY DEF AccountsInv, ThrottleInv
<1>4. Tracked(loginFailures, wrongPasswords, moment + 1)
  BY <1>1, <1>3, FailuresLater DEF Tracked
<1>5. moment + 1 \in 0..LastMoment
  BY <1>1, ThrottleConstants
<1> QED BY <1>1, <1>2, <1>3, <1>4, <1>5 DEF AccountsInv, ThrottleInv

(* The records that stay of those in excess: the newest.                     *)
LEMMA NewestIs ==
  ASSUME NEW c \in Seq(LoginRecord)
  PROVE  /\ Len(Newest(c)) <= LoginRecords
         /\ \E I \in SUBSET (1..Len(c)) : Part(LoginRecord, c, Newest(c), I)
<1>1. Len(c) \in Nat
  OBVIOUS
<1>2. CASE Len(c) <= LoginRecords
  <2>1. Newest(c) = c
    BY <1>2 DEF Newest
  <2> DEFINE f == [i \in 1..Len(c) |-> i]
  <2>2. f \in [1..Len(c) -> 1..Len(c)] /\ \A i \in 1..Len(c) : f[i] = i
    OBVIOUS
  <2> HIDE DEF f
  <2>3. Part(LoginRecord, c, c, 1..Len(c))
    BY <1>1, <2>2 DEF Part
  <2>4. 1..Len(c) \in SUBSET (1..Len(c))
    OBVIOUS
  <2> QED BY <1>2, <2>1, <2>3, <2>4
<1>3. CASE ~(Len(c) <= LoginRecords)
  <2> DEFINE k == Len(c) - LoginRecords
             q == Newest(c)
             I == (k + 1)..Len(c)
             f == [i \in 1..LoginRecords |-> k + i]
  <2>1. q = SubSeq(c, k + 1, Len(c))
    BY <1>3 DEF Newest
  <2>2. k \in Nat /\ k + LoginRecords = Len(c) /\ LoginRecords \in Nat
    BY <1>1, <1>3, ThrottleConstants
  <2> HIDE DEF k
  <2>3. /\ q \in Seq(LoginRecord) /\ Len(q) = LoginRecords
        /\ \A i \in 1..LoginRecords : q[i] = c[k + i]
    <3> HIDE DEF q
    <3>1. Len(c) - (k + 1) + 1 = LoginRecords /\ k + 1 \in Nat /\ k + 1 >= 1 /\ k + 1 <= Len(c) + 1
      BY <1>1, <2>2
    <3>2. \A i \in 1..LoginRecords : (k + 1) + i - 1 = k + i
      BY <2>2
    <3> QED BY <1>1, <2>1, <2>2, <3>1, <3>2
  <2> HIDE DEF q
  <2>4. f \in [1..LoginRecords -> I] /\ \A i \in 1..LoginRecords : f[i] = k + i
    BY <1>1, <2>2
  <2>5. \A j \in I : \E i \in 1..LoginRecords : k + i = j
    <3> SUFFICES ASSUME NEW j \in I PROVE \E i \in 1..LoginRecords : k + i = j
      OBVIOUS
    <3>1. j - k \in 1..LoginRecords /\ k + (j - k) = j
      BY <1>1, <2>2
    <3> QED BY <3>1
  <2>6. I \in SUBSET (1..Len(c))
    BY <1>1, <2>2
  <2> HIDE DEF f, I
  <2>7. Part(LoginRecord, c, q, I)
    <3>1. \A i, j \in 1..LoginRecords : i < j => f[i] < f[j]
      BY <2>2, <2>4
    <3>2. \A j \in I : \E i \in 1..LoginRecords : f[i] = j
      BY <2>4, <2>5
    <3>3. Len(q) <= Len(c)
      BY <1>1, <2>2, <2>3
    <3>4. f \in [1..Len(q) -> I] /\ \A i \in 1..Len(q) : q[i] = c[f[i]]
      BY <2>3, <2>4
    <3>5. (\A i, j \in 1..Len(q) : i < j => f[i] < f[j]) /\ \A j \in I : \E i \in 1..Len(q) : f[i] = j
      BY <2>3, <3>1, <3>2
    <3> QED BY <2>3, <3>3, <3>4, <3>5 DEF Part
  <2>8. Len(q) <= LoginRecords
    BY <2>2, <2>3
  <2> QED BY <2>6, <2>7, <2>8 DEF q
<1> QED BY <1>2, <1>3

LEMMA LoginFailsKeeps ==
  ASSUME AccountsInv, NEW key \in LoginKeys, LoginFails(key)
  PROVE  AccountsInv'
<1> DEFINE b == WithFailure(key)
           w == WithWrong(key)
           I == {i \in DOMAIN b : b[i].until = 0 \/ b[i].until > moment}
           c == Kept(b, I)
           d == Newest(c)
           dropped == ToSet(c) \ ToSet(d)
           wq == [u \in LoginKeys |-> IF \E r \in dropped : r.key = u THEN << >> ELSE w[u]]
<1>1. ~Locked(key) /\ UNCHANGED <<users, tokens, moment, revoked>>
  BY DEF LoginFails
<1>2. loginFailures' = d
  BY DEF LoginFails, Unexpired
<1>3. wrongPasswords' = wq
  <2>1. wrongPasswords' = [u \in LoginKeys |->
             IF \E r \in dropped : r.key = u THEN << >>
             ELSE IF u = key THEN Append(wrongPasswords[u], moment) ELSE wrongPasswords[u]]
    BY DEF LoginFails, Unexpired
  <2>2. \A u \in LoginKeys : w[u] = IF u = key THEN Append(wrongPasswords[u], moment) ELSE wrongPasswords[u]
    BY DEF WithWrong
  <2> HIDE DEF dropped, w
  <2> QED BY <2>1, <2>2
<1>4. TokenInv /\ ThrottleInv
  BY DEF AccountsInv
<1>5. TokenInv'
  BY <1>1, <1>4 DEF TokenInv
<1>6. Tracked(b, w, moment)
  BY <1>1, <1>4, FailureTracked
<1>7. moment \in Nat /\ moment \in 0..LastMoment
  BY <1>4, ThrottleConstants DEF ThrottleInv
<1> HIDE DEF b, w
<1>8. /\ b \in Seq(LoginRecord) /\ Len(b) \in Nat /\ DOMAIN b = 1..Len(b)
      /\ w \in [LoginKeys -> Seq(Nat)]
      /\ \A u \in LoginKeys : Spread(w[u], moment)
      /\ \A i \in 1..Len(b) : b[i] \in LoginRecord /\ Running(w[b[i].key], b[i])
  BY <1>6 DEF Tracked
<1>9. \A r \in LoginRecord : r.key \in LoginKeys /\ r.until \in Nat
  BY DEF LoginRecord
<1>10. Tracked(c, w, moment)
  <2>1. I \in SUBSET (1..Len(b))
    BY <1>8
  <2>2. Part(LoginRecord, b, c, I)
    BY <1>8, <2>1, KeptIsPart
  <2>3. ASSUME NEW i \in (1..Len(b)) \ I PROVE Rested(w[b[i].key], moment)
    <3>1. b[i].until # 0 /\ ~(b[i].until > moment)
      BY <1>8, <2>3
    <3>2. Spread(w[b[i].key], moment) /\ Running(w[b[i].key], b[i]) /\ b[i] \in LoginRecord
      BY <1>8, <1>9
    <3> QED BY <1>7, <3>1, <3>2, RunOver
  <2> HIDE DEF I, c
  <2>4. Dropping(b, w, moment, I, c, w)
    BY <1>8, <2>1, <2>2, <2>3 DEF Dropping
  <2> QED BY <1>6, <1>7, <2>4, DroppingKeeps
<1> HIDE DEF I, c
<1>11. /\ c \in Seq(LoginRecord) /\ Len(c) \in Nat /\ DOMAIN c = 1..Len(c)
       /\ \A i, j \in 1..Len(c) : c[i].key = c[j].key => i = j
       /\ \A i \in 1..Len(c) : c[i] \in LoginRecord
  BY <1>10 DEF Tracked
<1>12. PICK J \in SUBSET (1..Len(c)) : Part(LoginRecord, c, d, J)
  BY <1>11, NewestIs
<1>13. Len(d) <= LoginRecords
  BY <1>11, NewestIs
<1> HIDE DEF d
<1>14. d \in Seq(LoginRecord) /\ Len(d) \in Nat /\ DOMAIN d = 1..Len(d)
  BY <1>12 DEF Part
<1>15. ToSet(c) = {c[i] : i \in 1..Len(c)} /\ ToSet(d) = {c[i] : i \in J}
  <2>1. OneToOne(c, d, J)
    BY <1>11, <1>12, PartIsOne
  <2>2. PICK f \in [1..Len(d) -> J] :
           /\ \A i \in 1..Len(d) : d[i] = c[f[i]]
           /\ \A k \in J : \E i \in 1..Len(d) : f[i] = k
    BY <2>1 DEF OneToOne
  <2>3. \A i \in 1..Len(d) : f[i] \in J
    BY <2>2
  <2>4. {d[i] : i \in 1..Len(d)} = {c[i] : i \in J}
    <3>1. \A i \in 1..Len(d) : \E k \in J : d[i] = c[k]
      BY <2>2, <2>3
    <3>2. \A k \in J : \E i \in 1..Len(d) : d[i] = c[k]
      <4> TAKE k \in J
      <4>1. PICK i \in 1..Len(d) : f[i] = k
        BY <2>2
      <4> QED BY <2>2, <4>1
    <3>3. ASSUME NEW x \in {d[i] : i \in 1..Len(d)} PROVE x \in {c[i] : i \in J}
      <4>1. PICK i \in 1..Len(d) : x = d[i]
        BY <3>3
      <4>2. PICK k \in J : d[i] = c[k]
        BY <3>1
      <4> QED BY <4>1, <4>2
    <3>4. ASSUME NEW x \in {c[i] : i \in J} PROVE x \in {d[i] : i \in 1..Len(d)}
      <4>1. PICK k \in J : x = c[k]
        BY <3>4
      <4>2. PICK i \in 1..Len(d) : d[i] = c[k]
        BY <3>2
      <4> QED BY <4>1, <4>2
    <3> QED BY <3>3, <3>4
  <2> QED BY <1>11, <1>14, <2>4 DEF ToSet
<1>16. ASSUME NEW i \in (1..Len(c)) \ J PROVE wq[c[i].key] = << >>
  <2>1. \A k \in J : c[k] # c[i]
    BY <1>11, <1>16
  <2>2. c[i] \in dropped
    BY <1>15, <2>1
  <2>3. c[i].key \in LoginKeys
    BY <1>9, <1>11
  <2> HIDE DEF dropped
  <2> QED BY <2>2, <2>3
<1>17. ASSUME NEW i \in J PROVE wq[c[i].key] = w[c[i].key]
  <2>1. ASSUME NEW r \in dropped, r.key = c[i].key PROVE FALSE
    <3>1. PICK k \in 1..Len(c) : r = c[k]
      BY <1>15
    <3>2. k = i
      BY <1>11, <2>1, <3>1
    <3> QED BY <1>15, <3>1, <3>2
  <2>2. c[i].key \in LoginKeys
    BY <1>9, <1>11
  <2> HIDE DEF dropped
  <2> QED BY <2>1, <2>2
<1> HIDE DEF dropped
<1>18. wq \in [LoginKeys -> Seq(Nat)] /\ \A u \in LoginKeys : wq[u] = w[u] \/ wq[u] = << >>
  BY <1>8
<1> HIDE DEF wq
<1>19. Tracked(d, wq, moment)
  <2>1. \A i \in (1..Len(c)) \ J : Rested(wq[c[i].key], moment)
    BY <1>7, <1>16, NoFailures
  <2>2. Dropping(c, w, moment, J, d, wq)
    BY <1>12, <1>17, <1>18, <2>1 DEF Dropping
  <2> QED BY <1>7, <1>10, <2>2, DroppingKeeps
<1>20. ThrottleInv'
  BY <1>1, <1>2, <1>3, <1>7, <1>13, <1>19 DEF ThrottleInv
<1> QED BY <1>5, <1>20 DEF AccountsInv

LEMMA AccountsStart == AccountsInit => AccountsInv
<1> SUFFICES ASSUME AccountsInit PROVE AccountsInv
  OBVIOUS
<1> DEFINE Typed(extra) == users \in [extra \cup {WebUser} -> {User(r, e) : r \in Roles, e \in {"true", "false"}}]
           Rest == /\ tokens = {} /\ loginFailures = << >> /\ moment = 0
                   /\ wrongPasswords = [k \in LoginKeys |-> << >>] /\ revoked = {}
<1>0. (\E extra \in SUBSET UserNames : Typed(extra)) /\ Rest
  <2>1. AccountsInit <=> (\E extra \in SUBSET UserNames : Typed(extra)) /\ Rest
    BY ONLY DEF AccountsInit
  <2> HIDE DEF Typed, Rest
  <2> QED BY <2>1
<1>1. PICK extra \in SUBSET UserNames : Typed(extra)
  <2> HIDE DEF Typed, Rest
  <2> QED BY <1>0
<1>2. Rest
  <2> HIDE DEF Typed
  <2> QED BY <1>0
<1>3. {User(r, e) : r \in Roles, e \in {"true", "false"}} \subseteq UserRecord
  BY AccountsAssumption DEF User, UserRecord
<1>4. DOMAIN users = extra \cup {WebUser} /\ WebUser \in UserNames
  BY <1>1, AccountsAssumption
<1>5. users \in [DOMAIN users -> UserRecord]
  BY <1>1, <1>3, <1>4
<1>6. TokenInv
  BY <1>2, <1>4, <1>5 DEF TokenInv
<1>7. Tracked(loginFailures, wrongPasswords, moment)
  <2>1. << >> \in Seq(Nat) /\ << >> \in Seq(LoginRecord) /\ Len(<< >>) = 0
    OBVIOUS
  <2> QED BY <1>2, <2>1, NoFailures DEF Tracked
<1>8. Len(loginFailures) <= LoginRecords /\ moment \in 0..LastMoment
  BY <1>2, ThrottleConstants
<1> QED BY <1>6, <1>7, <1>8 DEF AccountsInv, ThrottleInv

LEMMA AccountsStep == AccountsInv /\ [AccountsNext]_accountsVars => AccountsInv'
<1> SUFFICES ASSUME AccountsInv, [AccountsNext]_accountsVars PROVE AccountsInv'
  OBVIOUS
<1>1. ASSUME NEW name \in UserNames, NEW role \in Roles, AddUser(name, role) PROVE AccountsInv'
  BY <1>1, AddUserKeeps
<1>2. ASSUME NEW name \in UserNames, DeleteUser(name) PROVE AccountsInv'
  BY <1>2, DeleteUserKeeps
<1>3. ASSUME NEW key \in LoginKeys, LoginFails(key) PROVE AccountsInv'
  BY <1>3, LoginFailsKeeps
<1>4. ASSUME NEW key \in LoginKeys, LoginSucceeds(key) PROVE AccountsInv'
  BY <1>4, LoginSucceedsKeeps
<1>5. ASSUME NEW name \in UserNames, NEW newPassword \in BOOLEAN,
             NEW role \in Roles \cup {"unchanged"}, NEW on \in EnabledValues \cup {"unchanged"},
             ModifyUser(name, newPassword, role, on)
      PROVE  AccountsInv'
  BY <1>5, ModifyUserKeeps
<1>6. ASSUME NEW token \in tokens, Logout(token) PROVE AccountsInv'
  BY <1>6, LogoutKeeps
<1>7. CASE AccountsTick
  BY <1>7, AccountsTickKeeps
<1>8. CASE UNCHANGED accountsVars
  BY <1>8 DEF accountsVars, AccountsInv, TokenInv, ThrottleInv
<1> QED BY <1>1, <1>2, <1>3, <1>4, <1>5, <1>6, <1>7, <1>8 DEF AccountsNext

LEMMA AccountsGuarantee ==
  ASSUME AccountsInv
  PROVE  AccountsTypeOK /\ TokensRevoked /\ ThrottleBounds
<1>1. TokenInv /\ ThrottleInv
  BY DEF AccountsInv
<1>2. AccountsTypeOK
  <2>1. tokens \subseteq [user : UserNames, ver : 0..MaxVersion]
    BY <1>1 DEF TokenInv
  <2> QED BY <1>1, <2>1, TokenFacts DEF TokenInv, ThrottleInv, AccountsTypeOK, UserRecord
<1>3. TokensRevoked
  <2> SUFFICES ASSUME NEW t \in revoked, Accepted(t) PROVE FALSE
    BY DEF TokensRevoked
  <2>1. t \in tokens /\ t.ver < users[t.user].tokenVersion /\ users[t.user].tokenVersion = t.ver
    BY <1>1 DEF TokenInv, Accepted
  <2> QED BY <1>1, <2>1, TokenFacts
<1>4. ThrottleBounds
  <2> SUFFICES ASSUME NEW u \in LoginKeys, NEW t \in 0..LastMoment
               PROVE  Cardinality({i \in DOMAIN wrongPasswords[u] :
                                     wrongPasswords[u][i] \in t..(t + LoginWindow - 1)})
                        <= 2 * (LoginFailures - 1)
    BY DEF ThrottleBounds
  <2>1. t \in Nat /\ Spread(wrongPasswords[u], moment)
    BY <1>1, ThrottleConstants DEF ThrottleInv, Tracked
  <2> QED BY <2>1, FewTogether
<1> QED BY <1>2, <1>3, <1>4

(* The last administrator who can log in is neither deleted nor changed, as  *)
(* long as requests give a Boolean for `enabled`.                         *)
LEMMA AdminStays ==
  ASSUME AccountsInv, "null" \notin EnabledValues, [AccountsNext]_accountsVars, EnabledAdmins # {}
  PROVE  EnabledAdmins' # {}
<1>1. TokenInv /\ EnabledValues = {"true", "false"}
  BY AccountsAssumption DEF AccountsInv
<1>2. IsFiniteSet(EnabledAdmins) /\ Cardinality(EnabledAdmins) \in Nat
  <2>1. EnabledAdmins \in SUBSET UserNames
    BY <1>1 DEF EnabledAdmins, TokenInv
  <2> QED BY <2>1, AccountsAssumption, FS_Subset, FS_CardinalityType
<1>3. \A u : u \in EnabledAdmins <=> u \in DOMAIN users /\ users[u].enabled = "true" /\ users[u].role = "admin"
  BY DEF EnabledAdmins, Live
<1>4. \A u : u \in EnabledAdmins' <=> u \in DOMAIN users' /\ users'[u].enabled = "true" /\ users'[u].role = "admin"
  BY DEF EnabledAdmins, Live
<1>5. ASSUME NEW name, name \in EnabledAdmins, ~(Cardinality(EnabledAdmins) <= 1)
      PROVE  \E u \in EnabledAdmins : u # name
  <2> SUFFICES ASSUME \A u \in EnabledAdmins : u = name PROVE FALSE
    OBVIOUS
  <2>1. EnabledAdmins = {name}
    BY <1>5
  <2> QED BY <1>2, <1>5, <2>1, FS_Singleton
<1>6. CASE users' = users
  BY <1>3, <1>4, <1>6
<1>7. ASSUME NEW name \in UserNames, NEW role \in Roles, AddUser(name, role) PROVE EnabledAdmins' # {}
  <2>1. \A u \in DOMAIN users : u \in DOMAIN users' /\ users'[u] = users[u]
    BY <1>7 DEF AddUser
  <2> QED BY <1>3, <1>4, <2>1
<1>8. ASSUME NEW name \in UserNames, DeleteUser(name) PROVE EnabledAdmins' # {}
  <2>1. /\ name \in DOMAIN users /\ ~(users[name].role = "admin" /\ Cardinality(EnabledAdmins) <= 1)
        /\ users' = [u \in DOMAIN users \ {name} |-> users[u]]
    BY <1>8 DEF DeleteUser, Deletable, LastAdmin
  <2>2. \E u \in EnabledAdmins : u # name
    BY <1>3, <1>5, <2>1
  <2>3. \A u \in DOMAIN users : u # name => u \in DOMAIN users' /\ users'[u] = users[u]
    BY <2>1
  <2> QED BY <1>3, <1>4, <2>2, <2>3
<1>9. ASSUME NEW name \in UserNames, NEW newPassword \in BOOLEAN,
             NEW role \in Roles \cup {"unchanged"}, NEW on \in EnabledValues \cup {"unchanged"},
             ModifyUser(name, newPassword, role, on)
      PROVE  EnabledAdmins' # {}
  <2> DEFINE r == Modified(users[name], newPassword, role, on)
  <2>1. name \in DOMAIN users /\ users' = [users EXCEPT ![name] = r] /\ ~Refused(name, role, on)
    BY <1>9 DEF ModifyUser
  <2>2. /\ r.role = (IF role = "unchanged" THEN users[name].role ELSE role)
        /\ r.enabled = (IF on = "unchanged" THEN users[name].enabled ELSE on)
    BY DEF Modified
  <2> HIDE DEF r
  <2>3. /\ DOMAIN users' = DOMAIN users /\ users'[name] = r
        /\ \A u \in DOMAIN users : u # name => users'[u] = users[u]
    BY <1>1, <2>1 DEF TokenInv
  <2>4. CASE \E u \in EnabledAdmins : u # name
    BY <1>3, <1>4, <2>3, <2>4
  <2>5. CASE \A u \in EnabledAdmins : u = name
    <3>1. name \in EnabledAdmins /\ Cardinality(EnabledAdmins) <= 1
      BY <1>5, <2>5
    <3>2. role \in {"unchanged", "admin"} /\ on # "false"
      BY <2>1, <3>1 DEF Refused
    <3>3. r.role = "admin" /\ r.enabled = "true"
      BY <1>1, <1>3, <2>2, <3>1, <3>2
    <3> QED BY <1>4, <2>1, <2>3, <3>3
  <2> QED BY <2>4, <2>5
<1>10. ASSUME NEW token \in tokens, Logout(token) PROVE EnabledAdmins' # {}
  <2> DEFINE name == token.user
             r == [users[name] EXCEPT !.tokenVersion = @ + 1]
  <2>1. name \in DOMAIN users /\ users' = [users EXCEPT ![name] = r]
    BY <1>10 DEF Logout, Revoked
  <2>2. users[name] \in UserRecord
    BY <1>1, <2>1, TokenFacts
  <2>3. r.role = users[name].role /\ r.enabled = users[name].enabled
    BY <2>2 DEF UserRecord
  <2> HIDE DEF r
  <2>4. /\ DOMAIN users' = DOMAIN users /\ users'[name] = r
        /\ \A u \in DOMAIN users : u # name => users'[u] = users[u]
    BY <1>1, <2>1 DEF TokenInv
  <2> QED BY <1>3, <1>4, <2>3, <2>4
<1>11. ASSUME NEW key \in LoginKeys, LoginFails(key) \/ LoginSucceeds(key) PROVE EnabledAdmins' # {}
  BY <1>6, <1>11 DEF LoginFails, LoginSucceeds
<1>12. CASE AccountsTick \/ UNCHANGED accountsVars
  BY <1>6, <1>12 DEF AccountsTick, accountsVars
<1> QED BY <1>7, <1>8, <1>9, <1>10, <1>11, <1>12 DEF AccountsNext

LEMMA AccountsAlways == AccountsSpec => []AccountsInv
BY AccountsStart, AccountsStep, PTL DEF AccountsSpec

(* In every behaviour, for any number of accounts, of addresses and of        *)
(* remembered records: a token of before a logout or a new password is       *)
(* refused, and in a stretch of time as long as the window an address finds  *)
(* a user's password wrong at most 2 * (LoginFailures - 1) times, from one   *)
(* right password, or dropped record, of the two to the next.                *)
THEOREM AccountsSafe == AccountsSpec => [](AccountsTypeOK /\ TokensRevoked /\ ThrottleBounds)
BY AccountsAlways, AccountsGuarantee, PTL
=============================================================================
