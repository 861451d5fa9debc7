----------------------------- MODULE Eviction -----------------------------
(***************************************************************************)
(* Why a put evicts what the abstract store would evict: what the proof    *)
(* that FileStore implements KVStore needs beside the invariant of         *)
(* Durability. The store ranks the entries of its index, KVStore says of   *)
(* the records themselves which may go; this invariant says that the index *)
(* holds what callers count on, so that the ranking evicts what may go,    *)
(* and that the answer of a call accounts for everything it has evicted.   *)
(***************************************************************************)
EXTENDS Durability

\* Between the steps the index is within the limit: only a put can exceed it,
\* and it evicts in the same step. So compact() and init() evict nothing.
LimitOK == MaxRecs > 0 => Cardinality(Indexed(index)) <= MaxRecs

\* Under a record limit nothing is forgotten by a reboot, so an entry leads to
\* the very record its key should hold, expired or not. Without a limit it may
\* lead to an expired record that stands for nothing.
ToldOK ==
    MaxRecs > 0 /\ RamTells =>
        \A k \in Keys : index[k] # None => Stored(segs, index[k]) = Due(k, InRam)

\* What the compacted file will bring into the index was in it before.
CarriedOK ==
    caller # "boot" /\ pc \in Copying \cup {"remove_all", "rename_tmp"} =>
        \A i \in DOMAIN compact_tmp :
            LET c == compact_tmp[i] IN
            c \in Cell /\ index[c.key] # None /\ c.data = Due(c.key, InRam)

\* Only a put evicts, once: a choice KVStore allows after the expired records
\* of some keys D, which the index no longer has, are gone.
RankOK ==
    /\ op.name # "put" \/ ~InRam => op.evicted = {}
    /\ op.name = "put" /\ InRam =>
          \E D \in SUBSET {j \in Keys : Seen(promised[j]) = None} :
             op.evicted \in KV!Victims([Without(promised, D) EXCEPT ![op.key] = op.data])

\* All of it: what put() answers accounts for every record that the limit, or
\* a compaction under the limit, has taken from other keys.
EInv == LimitOK /\ ToldOK /\ CarriedOK /\ RankOK

=============================================================================
