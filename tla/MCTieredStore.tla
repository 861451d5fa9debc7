--------------------------- MODULE MCTieredStore ---------------------------
(* Instances of TieredStore for TLC.                                       *)
EXTENDS TieredStoreProperties, TLC

Payload(v, ttl, prio) == [val |-> v, ttl |-> ttl, prio |-> prio]

TwoValues == {Payload(v, 0, 0) : v \in 1..2}
Fleeting == {Payload(1, 1, 0)}
Lifetimes == {Payload(1, 0, 0), Payload(2, 2, 0)}

\* The keys 1 and 3 share a bucket.
OddEven == [k \in Keys |-> k % 2]
OneBucket == [k \in Keys |-> 0]

SymKeys == Permutations(Keys)
=============================================================================
