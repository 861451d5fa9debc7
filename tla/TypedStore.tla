---------------------------- MODULE TypedStore -----------------------------
(***************************************************************************)
(* microStore's TypedStore (src/include/microStore/TypedStore.h) over a    *)
(* HeapStore.  put, get, remove and exists encode, call the store and      *)
(* decode what it answers; the iterator runs along the store's iterator.   *)
(* The store is open to callers who do not use this wrapper, so it may     *)
(* hold values that the codec cannot decode.                               *)
(***************************************************************************)
EXTENDS HeapStore, Sequences

CONSTANTS
    Decodable,   \* the values that ValueCodec::decode() accepts
    NoIterator,  \* nobody iterates
    End          \* the iterator equals end()

ASSUME TypedParameters ==
    /\ NoIterator \notin Keys /\ End \notin Keys /\ NoIterator # End

VARIABLES
    pos,         \* where the store's iterator stands
    entry,       \* its copy of the entry there: [key, val]
    current,     \* TypedStore::iterator's decoded entry
    seen         \* history: the entries the caller has been given

iteration == <<pos, entry, current, seen>>
vars == <<clock, heap, iteration>>

Blank == [key |-> None, val |-> None]

\* What TypedStore::get() gives for k; None where it answers false.
TypedView(k) == IF View(k) \in Decodable THEN View(k) ELSE None

\* The store's iterator at k: load() copies the entry.
Load(k) == IF k = End THEN entry ELSE [key |-> k, val |-> data[k].val]

\* (bug) a map iterator that steps over a key
Following(k) == LET after == {j \in Held(data) : j > k + 1} IN
    IF after = {} THEN End ELSE Min(after)

\* ++ of the map's iterator
Next_pos(k) == LET after == {j \in Held(data) : j > k} IN
    IF after = {} THEN End ELSE Min(after)

\* TypedStore::iterator::load(): a value that cannot be decoded leaves the
\* one of the entry before.
TypedLoad(k, e) ==
    IF k = End THEN current
    ELSE [key |-> e.key, val |-> IF e.val \in Decodable THEN e.val ELSE current.val]

MoveTo(k) ==
    /\ pos' = k
    /\ entry' = Load(k)
    /\ current' = TypedLoad(k, entry')
    /\ seen' = IF k = End THEN seen ELSE Append(seen, current')

Begin ==
    /\ Calls("iterate") /\ pos = NoIterator
    /\ MoveTo(IF Held(data) = {} THEN End ELSE Min(Held(data)))
    /\ UNCHANGED <<clock, data, policy_ttl_secs, policy_max_recs, last>>

Advance ==
    /\ Calls("iterate") /\ pos \in Keys
    /\ MoveTo(Next_pos(pos))
    /\ UNCHANGED <<clock, data, policy_ttl_secs, policy_max_recs, last>>

\* The caller drops the iterator.
Finish ==
    /\ call' = "finish" /\ pos # NoIterator
    /\ pos' = NoIterator /\ entry' = Blank /\ current' = Blank /\ seen' = <<>>
    /\ UNCHANGED <<clock, data, policy_ttl_secs, policy_max_recs, last>>

Init ==
    /\ HeapInit
    /\ pos = NoIterator /\ entry = Blank /\ current = Blank /\ seen = <<>>

\* While an iterator is in use, callers leave the store as it is, but they
\* may read it; "reread" in Ops: also the entry under the iterator.
Mutate ==
    \/ \E k \in Keys, p \in Payloads : Put(k, p)
    \/ \E k \in Keys : Remove(k)
    \/ Clear
    \/ \E t \in TTLs : set_ttl_secs(t)
    \/ \E n \in Limits : set_max_recs(n)

Read ==
    \E k \in Keys :
        /\ k = pos => View(k) # None \/ "reread" \in Ops
        /\ Get(k)

Next ==
    \/ pos = NoIterator /\ Mutate /\ UNCHANGED iteration
    \/ Read /\ UNCHANGED iteration
    \/ Begin \/ Advance \/ Finish
    \/ (Tick \/ set_time_offset) /\ UNCHANGED <<heap, iteration>>

Spec == Init /\ [][Next]_vars

=============================================================================
