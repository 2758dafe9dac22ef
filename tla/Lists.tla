-------------------------------- MODULE Lists --------------------------------
(* What removing elements leaves of a list: SelectSeq, by the indices that   *)
(* stay and without recursion, so that it can be reasoned about.             *)
EXTENDS Integers, FiniteSets

Ordered(I) == CHOOSE f \in [1..Cardinality(I) -> I] : \A i, j \in DOMAIN f : i < j => f[i] < f[j]
Kept(s, I) == [i \in 1..Cardinality(I) |-> s[Ordered(I)[i]]]
=============================================================================
