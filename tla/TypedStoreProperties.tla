----------------------- MODULE TypedStoreProperties ------------------------
(* What HeapStore and TypedStore promise, on the clock of Utility.h.       *)
EXTENDS TypedStore

\* The members of the store, of the iterator and of the clock have their
\* types (HeapStore.h, TypedStore.h, Utility.h).
TypeOK ==
    /\ ms \in 0..MaxMs /\ time_offset \in Offsets
    /\ low32 \in [Units -> 0..MsWrap - 1]
    /\ high32 \in [Units -> Nat] /\ called \in [Units -> 0..ms]
    /\ \A k \in Held(data) :
        /\ \E p \in Payloads : data[k].val = p.val /\ data[k].ttl = p.ttl
        /\ data[k].timestamp \in Nat
    /\ policy_ttl_secs \in TTLs /\ policy_max_recs \in Limits
    /\ pos \in Keys \cup {NoIterator, End}

\* What the calls so far let callers expect of k.
Expected(k) == IF last[k] = None \/ Lapsed(k) THEN None ELSE last[k].val

\* get() answers with the value last put, until its TTL has run out, it is
\* removed or evicted: across roll-overs of millis(), although the stamps
\* and the time they are compared with count roll-overs separately, and
\* across changes of the policies (HeapStore.h:87-93, 141).
ReadsBack == \A k \in Keys : View(k) = Expected(k)

\* The clocks of two translation units agree, and with the time since boot
\* (Utility.h:51-58).
ClocksAgree == \A u \in Units : Time(u) = TrueTime

\* A put makes room only for a new key, evicts no more than it must and
\* leaves the limit met; a record that can be read goes in no other way than
\* by a put, a removal or clear() (HeapStore.h:96-99).
EvictsOnlyWhenFull ==
    [][LET lost == {k \in Keys : View(k) # None /\ data'[k] = None}
           new == IF call' = "put" /\ data' # data
                  THEN Held(data') \ Held(Purged(Time("store"))) ELSE {}
           full == policy_max_recs > 0 /\ Cardinality(Held(data')) >= policy_max_recs
       IN  /\ new # {} /\ full => Cardinality(Held(data')) = policy_max_recs
           /\ lost # {} => (new # {} /\ full) \/ call' \in {"remove", "clear"}]_vars

\* A caller who iterates to the end, reading records on the way, has been
\* given each record that decodes once, under its key with its value
\* (HeapStore.h:304-333, TypedStore.h:97-131).
IterationComplete ==
    pos = End => \A k \in Keys : TypedView(k) # None =>
        \E i \in DOMAIN seen :
            /\ seen[i] = [key |-> k, val |-> TypedView(k)]
            /\ \A j \in DOMAIN seen : seen[j].key = k => j = i

\* An iterator in use stands on a record of the store, or at its end: get()
\* of an expired record erases it under the iterator (HeapStore.h:142).
IteratorValid == pos \in Keys => data[pos] # None

---------------------------------------------------------------------------
(* What the properties rest on                                             *)

\* What the caller has been given: the records up to the iterator that
\* decode, each once, and no other keys.
Given == [key : Keys \cup {None}, val : Values \cup {None}]
Passed(k) == pos = End \/ k <= pos

GivenSoFar ==
    /\ seen \in Seq(Given) /\ current \in Given
    /\ pos = NoIterator => seen = <<>>
    /\ pos # NoIterator =>
        /\ \A j \in DOMAIN seen : seen[j].key \in Keys /\ Passed(seen[j].key)
        /\ \A i, j \in DOMAIN seen : seen[i].key = seen[j].key => i = j
        /\ \A k \in Held(data) : (Passed(k) /\ data[k].val \in Decodable) =>
            \E i \in DOMAIN seen : seen[i] = [key |-> k, val |-> data[k].val]

\* Callers expect what the map holds.
Remembered ==
    /\ last = [k \in Keys |-> last[k]]
    /\ \A k \in Keys :
        IF data[k] = None THEN last[k] = None
        ELSE last[k] = [val |-> data[k].val, ttl |-> data[k].ttl,
                        born |-> data[k].timestamp]

\* No record is stamped with a time to come.
StampsPassed == \A k \in Held(data) : data[k].timestamp <= TrueTime

\* The map, what callers expect of it and what an iterator has given belong
\* together at every moment of an iteration, through reads that erase what
\* has expired (HeapStore.h:142, TypedStore.h:97-131).
HInv == GivenSoFar /\ Remembered /\ StampsPassed

=============================================================================
