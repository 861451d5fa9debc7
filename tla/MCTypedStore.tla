---------------------------- MODULE MCTypedStore ---------------------------
(* Instances of TypedStore for TLC.                                        *)
EXTENDS TypedStoreProperties

Payload(v, ttl, ahead) == [val |-> v, ttl |-> ttl, ahead |-> ahead]

\* One record on the policy's TTL, one with its own, one with an old stamp
\* and a value that does not decode.
Lifetimes == {Payload(1, 0, 0), Payload(2, 1, 0), Payload(3, 2, -1)}
=============================================================================
