---------------------------- MODULE MCFileStore ----------------------------
(* Instances of FileStore for TLC.                                         *)
EXTENDS Eviction, TLC

Payload(v, ts, ttl, prio) == [val |-> v, ts |-> ts, ttl |-> ttl, prio |-> prio]

OneValue == {Payload(1, 0, 0, 0)}
TwoValues == {Payload(v, 0, 0, 0) : v \in 1..2}
\* One record that outlives the run, one that expires a second after it.
Fading == {Payload(1, 0, 1, 0), Payload(2, 0, 0, 0)}
\* Two records of one kind, the second from a second ahead, and one whose
\* priority costs it fifty seconds: the eviction ranks 0, 1 and -49.
Fates == {Payload(1, 0, 1, 0), Payload(2, 1, 1, 0), Payload(3, 1, 20, 1)}

SymKeys == Permutations(Keys)
=============================================================================
