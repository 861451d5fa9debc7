----------------------- MODULE TieredStoreProperties -----------------------
(* What TypedTieredStore must keep true.                                   *)
EXTENDS TieredStore

Slot == [key : Keys \cup {None}, val : Values \cup {None},
         expires_at : Nat, priority : Nat,
         prev : Slots \cup {Invalid}, next : Slots \cup {Invalid},
         hash_next : Slots \cup {Invalid},
         valid : BOOLEAN, dirty : BOOLEAN, in_l2 : BOOLEAN]

Stores == [Keys -> Records \cup {None}]
Memory == [Keys -> Memories \cup {None}]
Fallbacks == [Keys -> SUBSET (Values \cup {None})]

\* Every variable holds what its declaration in the class allows.
TypeOK ==
    /\ l1 \in [slots : [Slots -> Slot], buckets : [Buckets -> Slots \cup {Invalid}],
               head : Slots \cup {Invalid}, tail : Slots \cup {Invalid}]
    /\ store \in Stores /\ last \in Memory /\ safe \in Fallbacks
    /\ now \in 0..MaxTime
    /\ pc \in {"idle", "sync"} /\ todo \subseteq Slots /\ sync_ok \in BOOLEAN

Valid(c) == {i \in Slots : c.slots[i].valid}

\* The walk at comes by each slot of S once, by no other, and to an end.
Visits(at, S) ==
    /\ Range(at) = S \cup {Invalid}
    /\ \A m, n \in DOMAIN at : at[m] = at[n] => m = n \/ at[m] = Invalid

\* The list, read from either end, and the hash chains each hold exactly the
\* slots in use, once; every slot is on the chain of its key's bucket, and
\* no key is cached twice (link_*, unlink_*, find_l1_).
WellLinked ==
    LET used == Valid(l1) IN
    /\ Visits(Recent(l1), used) /\ Visits(Backwards(l1), used)
    /\ \A i, j \in used : l1.slots[i].next = j <=> l1.slots[j].prev = i
    /\ \A b \in Buckets :
        Visits(Chain(l1, b), {i \in used : Hash[l1.slots[i].key] = b})
    /\ \A i, j \in used : l1.slots[i].key = l1.slots[j].key => i = j

\* The list is in the order in which callers put or got the keys, so that
\* the slot evicted is the least recently used one (touch_l1_, allocate_l1_slot_).
EvictsLeastRecent ==
    LET at == Recent(l1)
        on == {n \in DOMAIN at : at[n] # Invalid}
    IN  \A m, n \in on :
            m < n <=> <<l1.slots[at[m]].key, l1.slots[at[n]].key>> \in recent

\* No key reads as anything but the last value put or nothing: no older
\* version in the second level, no expired one, none after remove().
NeverStale == \A k \in Keys : View(k) \in {None, Expected(k)}

\* Cache and second level together are one map: a value put is read back
\* through every eviction, promotion and sync().
Coherent == \A k \in Keys : View(k) = Expected(k)

\* Power may fail at any moment: the second level has, of every key, the
\* value it had when sync() last returned TRUE or one put since, and never
\* one removed (flush_l1_slot_, sync, remove).
CrashSafe == \A k \in Keys : Beneath(k) \in safe[k]

\* size() is the number of keys that can be read, and the iterator yields
\* each of them once: in_l2 tells the truth.
EachOnce ==
    LET cached == {l1.slots[i].key : i \in IteratedSlots}
        visible == {k \in Keys : View(k) # None}
    IN  /\ Size = Cardinality(visible)
        /\ IteratedKeys \cap cached = {}
        /\ IteratedKeys \cup cached = visible

---------------------------------------------------------------------------
(* Why callers read what they put: the slot of a key, its record in the    *)
(* second level and what callers remember of it, at every step of every    *)
(* call.                                                                   *)

\* No record ever expires.
Everlasting == PolicyTTL = 0 /\ \A p \in Payloads : p.ttl = 0

\* A promoted copy has no expiry: no harm is done where there is none to lose.
KeepsExpiry == "get" \in Ops => Everlasting

\* The second level loses nothing that has not expired, and sync() drops nothing.
Lossless ==
    /\ MaxRecs = 0 /\ PolicyTTL = 0
    /\ Everlasting \/ Ops \cap {"get", "sync"} = {}

\* The record d and the memory m agree, and expire together.
Tells(d, m) ==
    /\ d.val = m.val
    /\ IF m.expires_at = 0 THEN d.ttl = 0
       ELSE d.ttl > 0 /\ d.ts + d.ttl = m.expires_at

\* What the second level answers that has the record d
Answer(d) == LET e == L2!Visible(d, now) IN IF e = None THEN None ELSE e.val

\* Where no dirty slot covers it, a record d that can be read is what callers
\* put last; and it can be read if nothing gets lost.
Below(d, m) ==
    KeepsExpiry =>
        /\ L2!Visible(d, now) # None => m # None /\ Tells(d, m)
        /\ Lossless /\ m # None /\ ~IsExpired(m) => L2!Visible(d, now) # None

\* A slot holds what callers put last, and knows whether an older version lies
\* beneath it, unless that has been evicted.
SlotOK(s, d, m, f) ==
    /\ s.val # None
    /\ ~s.in_l2 => d = None
    /\ MaxRecs = 0 /\ s.in_l2 => d # None
    /\ KeepsExpiry => m # None /\ s.val = m.val /\ s.expires_at = m.expires_at
    /\ ~s.dirty => Below(d, m)
    /\ Lossless /\ Everlasting => s.val \in f

\* What can be read beneath the cache is a value that a power cut may leave.
RecordOK(d, m, f) ==
    /\ Everlasting => /\ d # None => d.ttl = 0
                      /\ m # None => m.expires_at = 0
    /\ Lossless /\ Everlasting => Answer(d) \in f

\* The cache c, the second level st, what callers remember and what they may
\* fall back to agree on every key.
Agree(c, st, m, f) ==
    /\ \A k \in Keys : RecordOK(st[k], m[k], f[k])
    /\ \A k \in Keys \ CachedKeys(c) : Below(st[k], m[k])
    /\ \A i \in Valid(c) :
          LET k == c.slots[i].key IN SlotOK(c.slots[i], st[k], m[k], f[k])

\* sync() has still to visit the slots that are dirty, unless one was refused;
\* none has expired.
SyncOK ==
    /\ pc = "idle" => todo = {}
    /\ pc = "sync" => /\ "sync" \in Ops /\ todo \subseteq Dirty(l1)
                      /\ sync_ok => Dirty(l1) \subseteq todo
                      /\ \A i \in Valid(l1) : ~IsExpired(l1.slots[i])

\* The levels of the store agree with each other and with what callers were
\* told, in the middle of sync() as well (put, get, remove, flush_l1_slot_).
TieredInv == Agree(l1, store, last, safe) /\ SyncOK

=============================================================================
