---------------------------- MODULE TieredStore ----------------------------
(***************************************************************************)
(* microStore's TypedTieredStore (src/include/microStore/                  *)
(* TypedTieredStore.h): a write-back cache of Capacity slots in front of a *)
(* store, which it calls the second level.  The slots are threaded on a    *)
(* doubly linked list, most recently used first, and on one singly linked  *)
(* chain per hash bucket; both are modelled pointer by pointer.            *)
(*                                                                         *)
(* The second level is the map that KVStore specifies and FileStore        *)
(* implements, except that expired records stay in it until they are read. *)
(* A call is one step, but sync() writes one record a step, so that power  *)
(* can fail between two of them.                                           *)
(***************************************************************************)
EXTENDS Integers, FiniteSets, FiniteSetsExt, Functions

CONSTANTS
    Keys,
    Payloads,    \* what a put may store: [val, ttl, prio]
    None,
    Capacity,    \* USTORE_L1_CACHE_SIZE
    Hash,        \* the bucket of every key
    MaxRecs,     \* the second level's set_max_recs()
    PolicyTTL,   \* the second level's set_ttl_secs()
    Ops,         \* what the caller does: "put", "get", ...
    Faults,      \* {"l2_put"}: the second level may refuse to write
    MaxTime      \* bound on the clock

ASSUME CacheParameters ==
    /\ IsFiniteSet(Keys) /\ None \notin Keys
    /\ \A p \in Payloads : p.ttl \in Nat /\ p.prio \in Nat /\ p.val # None
    /\ Capacity \in Nat \ {0}
    /\ Keys \subseteq DOMAIN Hash
    /\ MaxRecs \in Nat /\ PolicyTTL \in Nat /\ MaxTime \in Nat

Values == {p.val : p \in Payloads}

\* What the second level holds of a key, and what callers remember of it.
Records == [val : Values, ts : 0..MaxTime, ttl : Nat, prio : Nat]
Memories == [val : Values, expires_at : Nat]

ASSUME NoneIsNoRecord == None \notin Records \cup Memories

VARIABLES
    l1,          \* [slots, buckets, head, tail]: the cache
    store,       \* the second level: key -> [val, ts, ttl, prio] or None
    now,         \* microStore::time()
    pc,          \* "idle", or "sync" inside the loop of sync()
    todo,        \* the slots sync() has still to visit
    sync_ok,     \* its result so far
    last,        \* the value callers expect of each key, and its expiry
    safe,        \* the values a power cut may fall back to
    recent       \* <<j, k>>: the cached key j was used after the cached key k

history == <<last, safe, recent>>
vars == <<l1, store, now, pc, todo, sync_ok, history>>

L2 == INSTANCE KVStore WITH kv <- store, Payloads <- {}

Slots == 1..Capacity
Invalid == 0
Buckets == {Hash[k] : k \in Keys}

EmptySlot ==
    [key |-> None, val |-> None, expires_at |-> 0, priority |-> 0,
     prev |-> Invalid, next |-> Invalid, hash_next |-> Invalid,
     valid |-> FALSE, dirty |-> FALSE, in_l2 |-> FALSE]

EmptyCache ==
    [slots |-> [i \in Slots |-> EmptySlot],
     buckets |-> [b \in Buckets |-> Invalid],
     head |-> Invalid, tail |-> Invalid]

---------------------------------------------------------------------------
(* The linked structures.                                                  *)

\* The slots met from start along the pointers follow, and Invalid from the
\* end on; on a cycle there is no end.
Walk(start, follow) ==
    LET at[n \in 0..Capacity] ==
            IF n = 0 THEN start
            ELSE IF at[n - 1] = Invalid THEN Invalid ELSE follow[at[n - 1]]
    IN  at

Chain(c, b) == Walk(c.buckets[b], [i \in Slots |-> c.slots[i].hash_next])
Recent(c) == Walk(c.head, [i \in Slots |-> c.slots[i].next])
Backwards(c) == Walk(c.tail, [i \in Slots |-> c.slots[i].prev])

\* find_l1_
FindL1(c, k) ==
    LET at == Chain(c, Hash[k])
        hits == {n \in DOMAIN at : /\ at[n] # Invalid
                                   /\ c.slots[at[n]].valid /\ c.slots[at[n]].key = k}
    IN  IF hits = {} THEN Invalid ELSE at[Min(hits)]

\* link_l1_hash_
LinkHash(c, i) ==
    LET b == Hash[c.slots[i].key] IN
    [c EXCEPT !.slots[i].hash_next = c.buckets[b], !.buckets[b] = i]

\* unlink_l1_hash_
UnlinkHash(c, i) ==
    LET b == Hash[c.slots[i].key]
        chain == Range(Chain(c, b)) \ {Invalid}
        after == c.slots[i].hash_next
        slots == [j \in Slots |-> [c.slots[j] EXCEPT !.hash_next =
                    IF j = i THEN Invalid
                    ELSE IF j \in chain /\ @ = i THEN after ELSE @]]
    IN  IF i \notin chain THEN c
        ELSE [c EXCEPT !.slots = slots, !.buckets[b] = IF @ = i THEN after ELSE @]

\* link_lru_front_
LinkFront(c, i) ==
    LET slots == [j \in Slots |-> [c.slots[j] EXCEPT
                    !.prev = IF j = i THEN Invalid ELSE IF j = c.head THEN i ELSE @,
                    !.next = IF j = i THEN c.head ELSE @]]
    IN  [c EXCEPT !.slots = slots, !.head = i, !.tail = IF @ = Invalid THEN i ELSE @]

\* (bug) unlink_lru_ that forgets lru_tail_
UnlinkLRUButTail(c, i) ==
    LET p == c.slots[i].prev
        n == c.slots[i].next
        slots == [j \in Slots |-> [c.slots[j] EXCEPT
                    !.prev = IF j = i THEN Invalid ELSE IF j = n THEN p ELSE @,
                    !.next = IF j = i THEN Invalid ELSE IF j = p THEN n ELSE @]]
    IN  [c EXCEPT !.slots = slots, !.head = IF p = Invalid THEN n ELSE @]

\* unlink_lru_
UnlinkLRU(c, i) ==
    LET p == c.slots[i].prev
        n == c.slots[i].next
        slots == [j \in Slots |-> [c.slots[j] EXCEPT
                    !.prev = IF j = i THEN Invalid ELSE IF j = n THEN p ELSE @,
                    !.next = IF j = i THEN Invalid ELSE IF j = p THEN n ELSE @]]
    IN  [c EXCEPT !.slots = slots, !.head = IF p = Invalid THEN n ELSE @,
                  !.tail = IF n = Invalid THEN p ELSE @]

\* (bug) a slot that is read keeps its place
TouchNothing(c, i) == c

\* touch_l1_
Touch(c, i) == IF i = c.head THEN c ELSE LinkFront(UnlinkLRU(c, i), i)

\* remove_l1_slot_
RemoveSlot(c, i) ==
    IF ~c.slots[i].valid THEN c
    ELSE [UnlinkLRU(UnlinkHash(c, i), i) EXCEPT !.slots[i] = EmptySlot]

\* A slot that was allocated is assigned and linked.
Fill(c, i, s) ==
    LinkFront(LinkHash([c EXCEPT !.slots[i] = s], i), i)

---------------------------------------------------------------------------
(* Expiry, and the calls into the second level.                            *)

\* is_expired_
IsExpired(s) == s.expires_at # 0 /\ now >= s.expires_at

\* expires_at_
ExpiresAt(ttl) == IF ttl = 0 THEN 0 ELSE now + ttl

\* (bug) 0 is not treated as never
RemainingTTLAlways(s) == s.expires_at - now

\* remaining_ttl_
RemainingTTL(s) ==
    IF s.expires_at = 0 THEN 0
    ELSE IF s.expires_at > now THEN s.expires_at - now ELSE 1

\* store.exists() and store.get() drop the record they find expired.
Looked(st, k) == [st EXCEPT ![k] = L2!Visible(@, now)]

\* The second level after a put that succeeds: it may evict to its limit.
Stored(st, k, d) ==
    LET m == [st EXCEPT ![k] = d] IN {L2!Without(m, E) : E \in L2!Victims(m)}

\* (bug) a record that is in the second level is not written again
FlushedOnce(s, st) ==
    IF ~s.dirty \/ s.in_l2 THEN {st}
    ELSE Stored(st, s.key, [val |-> s.val, ts |-> now,
                            ttl |-> RemainingTTL(s), prio |-> s.priority])

\* flush_l1_slot_: what the second level may be after a slot is written
Flushed(s, st) ==
    IF ~s.dirty THEN {st}
    ELSE Stored(st, s.key, [val |-> s.val, ts |-> now,
                            ttl |-> RemainingTTL(s), prio |-> s.priority])

FlushRefused(s) == s.dirty /\ "l2_put" \in Faults

\* expire_l1_slot_ for every slot of S, in their order: the record goes from
\* both levels, with any older version of it in the second.
ExpireCache(c, S) ==
    LET left[n \in 0..Capacity] ==
            IF n = 0 THEN c
            ELSE IF n \in S THEN RemoveSlot(left[n - 1], n) ELSE left[n - 1]
    IN  left[Capacity]

\* (bug) the record goes from the cache alone
ExpireStoreKeeps(c, S, st) == st

ExpireStore(c, S, st) ==
    L2!Without(st, {c.slots[i].key : i \in {j \in S : c.slots[j].in_l2}})

\* prune_expired_l1_
ExpiredSlots(c) == {i \in Slots : c.slots[i].valid /\ IsExpired(c.slots[i])}
Pruned(c) == ExpireCache(c, ExpiredSlots(c))
PrunedStore(c, st) == ExpireStore(c, ExpiredSlots(c), st)

\* allocate_l1_slot_: a free slot, or else the least recently used one,
\* after it has been written to the second level.
Allocations(c, st) ==
    LET free == {i \in Slots : ~c.slots[i].valid}
        evict == c.tail
    IN  IF free # {} THEN {[slot |-> Min(free), l1 |-> c, store |-> st]}
        ELSE IF IsExpired(c.slots[evict])
        THEN {[slot |-> evict, l1 |-> ExpireCache(c, {evict}),
               store |-> ExpireStore(c, {evict}, st)]}
        ELSE {[slot |-> evict, l1 |-> RemoveSlot(c, evict), store |-> s] :
                s \in Flushed(c.slots[evict], st)}
             \cup IF FlushRefused(c.slots[evict])
                  THEN {[slot |-> Invalid, l1 |-> c, store |-> st]} ELSE {}

---------------------------------------------------------------------------
(* What callers see.                                                       *)

\* What the second level alone would answer.
Beneath(k) == LET d == L2!Visible(store[k], now) IN IF d = None THEN None ELSE d.val

\* What get() returns for k.
View(k) ==
    LET i == FindL1(l1, k) IN
    IF i = Invalid THEN Beneath(k)
    ELSE IF IsExpired(l1.slots[i]) THEN None ELSE l1.slots[i].val

\* What the answers so far let callers expect.
Expected(k) ==
    IF last[k] = None \/ IsExpired(last[k]) THEN None ELSE last[k].val

\* size()
Size == Cardinality(L2!Held(store))
        + Cardinality({i \in Slots : l1.slots[i].valid /\ ~l1.slots[i].in_l2})

\* The iterator: first the records of the second level, each with the
\* cached value if there is one, then the slots that are not in it.
IteratedKeys == L2!Held(store)
IteratedSlots == {i \in Slots : l1.slots[i].valid /\ ~l1.slots[i].in_l2}

---------------------------------------------------------------------------

CachedKeys(c) == {c.slots[i].key : i \in {j \in Slots : c.slots[j].valid}}

\* recent, after the cache has become c
Remaining(c) == recent \cap (CachedKeys(c) \X CachedKeys(c))
Used(c, k) ==
    LET others == CachedKeys(c) \ {k}
    IN  ({k} \X others) \cup (recent \cap (others \X others))

\* (bug) exists() is not asked
NewSlotAlone(k, p, there) ==
    [EmptySlot EXCEPT !.key = k, !.val = p.val, !.expires_at = ExpiresAt(p.ttl),
        !.priority = p.prio, !.valid = TRUE, !.dirty = TRUE]

\* The slot of a new key; there is what store.exists() says of it.
NewSlot(k, p, there) ==
    [EmptySlot EXCEPT !.key = k, !.val = p.val, !.expires_at = ExpiresAt(p.ttl),
        !.priority = p.prio, !.valid = TRUE, !.dirty = TRUE, !.in_l2 = there]

Idle(o) == pc = "idle" /\ o \in Ops /\ UNCHANGED <<now, pc, todo, sync_ok>>

Init ==
    /\ l1 = EmptyCache
    /\ store = [k \in Keys |-> None]
    /\ now = 0
    /\ pc = "idle" /\ todo = {} /\ sync_ok = TRUE
    /\ last = [k \in Keys |-> None]
    /\ safe = [k \in Keys |-> {None}]
    /\ recent = {}

\* put() answered TRUE.
Answered(k, p) ==
    /\ last' = [last EXCEPT ![k] = [val |-> p.val, expires_at |-> ExpiresAt(p.ttl)]]
    /\ safe' = [safe EXCEPT ![k] = @ \cup {p.val}]
    /\ recent' = Used(l1', k)

PutCached(k, p) ==
    LET c == Pruned(l1)
        i == FindL1(c, k)
    IN  /\ Idle("put")
        /\ i # Invalid
        /\ l1' = Touch([c EXCEPT !.slots[i].val = p.val,
                                 !.slots[i].expires_at = ExpiresAt(p.ttl),
                                 !.slots[i].priority = p.prio,
                                 !.slots[i].dirty = TRUE], i)
        /\ store' = PrunedStore(l1, store)
        /\ Answered(k, p)

PutNew(k, p) ==
    LET c == Pruned(l1) IN
    /\ Idle("put")
    /\ FindL1(c, k) = Invalid
    /\ \E a \in Allocations(c, PrunedStore(l1, store)) :
        IF a.slot = Invalid
        THEN /\ l1' = a.l1 /\ store' = a.store
             /\ recent' = Remaining(l1')
             /\ UNCHANGED <<last, safe>>
        ELSE /\ store' = Looked(a.store, k)
             /\ l1' = Fill(a.l1, a.slot, NewSlot(k, p, store'[k] # None))
             /\ Answered(k, p)

\* get() and exists() of a cached key
ReadCached(k) ==
    LET i == FindL1(l1, k)
        expired == IsExpired(l1.slots[i])
    IN  /\ pc = "idle" /\ i # Invalid
        /\ \/ /\ expired
              /\ Idle("get") \/ Idle("exists")
              /\ l1' = ExpireCache(l1, {i})
              /\ store' = ExpireStore(l1, {i}, store)
              /\ recent' = Remaining(l1')
           \/ /\ ~expired
              /\ Idle("get")
              /\ l1' = Touch(l1, i)
              /\ recent' = Used(l1, k)
              /\ UNCHANGED store
        /\ UNCHANGED <<last, safe>>

\* get() of a key that only the second level has copies it into the cache.
Promote(k) ==
    LET d == L2!Visible(store[k], now) IN
    /\ Idle("get")
    /\ FindL1(l1, k) = Invalid /\ d # None
    /\ \E a \in Allocations(l1, store) :
        /\ store' = a.store
        /\ l1' = IF a.slot = Invalid THEN a.l1
                 ELSE Fill(a.l1, a.slot,
                        [EmptySlot EXCEPT !.key = k, !.val = d.val,
                            !.valid = TRUE, !.in_l2 = TRUE])
        /\ recent' = IF a.slot = Invalid THEN recent ELSE Used(l1', k)
    /\ UNCHANGED <<last, safe>>

\* get() and exists() of a key that has expired in the second level
ReadBeneath(k) ==
    /\ Idle("get") \/ Idle("exists")
    /\ FindL1(l1, k) = Invalid /\ store[k] # None
    /\ L2!Visible(store[k], now) = None
    /\ store' = Looked(store, k)
    /\ UNCHANGED <<l1, history>>

\* remove(): the slot's in_l2, or exists(), says whether to go on to the
\* second level.
RemoveKey(k) ==
    LET i == FindL1(l1, k) IN
    /\ Idle("remove")
    /\ l1' = IF i = Invalid THEN l1 ELSE RemoveSlot(l1, i)
    /\ store' = IF i = Invalid \/ l1.slots[i].in_l2
                THEN L2!Without(store, {k}) ELSE store
    /\ last' = [last EXCEPT ![k] = None]
    /\ safe' = [safe EXCEPT ![k] = {None}]
    /\ recent' = Remaining(l1')

\* begin() of the iterator prunes.
Iterate ==
    /\ Idle("iterate")
    /\ l1' = Pruned(l1)
    /\ store' = PrunedStore(l1, store)
    /\ recent' = Remaining(l1')
    /\ UNCHANGED <<last, safe>>

Clear ==
    /\ Idle("clear")
    /\ l1' = EmptyCache
    /\ store' = [k \in Keys |-> None]
    /\ last' = [k \in Keys |-> None]
    /\ safe' = [k \in Keys |-> {None}]
    /\ recent' = {}

---------------------------------------------------------------------------
(* sync()                                                                  *)

\* (bug) only keys new to the second level are written
DirtyNew(c) ==
    {i \in Slots : c.slots[i].valid /\ c.slots[i].dirty /\ ~c.slots[i].in_l2}

Dirty(c) == {i \in Slots : c.slots[i].valid /\ c.slots[i].dirty}

StartSync ==
    /\ pc = "idle" /\ "sync" \in Ops
    /\ l1' = Pruned(l1)
    /\ store' = PrunedStore(l1, store)
    /\ pc' = "sync"
    /\ todo' = Dirty(l1')
    /\ sync_ok' = TRUE
    /\ recent' = Remaining(l1')
    /\ UNCHANGED <<now, last, safe>>

\* A dirty value goes with the record in the second level that it replaces.
SyncDrop(i) ==
    LET s == l1.slots[i]
        found == Looked(store, s.key)
    IN  /\ s.in_l2 /\ found[s.key] = None
        /\ l1' = RemoveSlot(l1, i)
        /\ store' = found
        /\ recent' = Remaining(l1')
        /\ UNCHANGED sync_ok

SyncFlush(i) ==
    LET s == l1.slots[i]
        found == IF s.in_l2 THEN Looked(store, s.key) ELSE store
    IN  /\ s.in_l2 => found[s.key] # None
        /\ \/ /\ store' \in Flushed(s, found)
              /\ l1' = [l1 EXCEPT !.slots[i].dirty = FALSE, !.slots[i].in_l2 = TRUE]
              /\ UNCHANGED sync_ok
           \/ /\ FlushRefused(s)
              /\ store' = found
              /\ sync_ok' = FALSE
              /\ UNCHANGED l1
        /\ UNCHANGED recent

SyncSlot ==
    LET i == Max(todo) IN
    /\ pc = "sync" /\ todo # {}
    /\ SyncDrop(i) \/ SyncFlush(i)
    /\ todo' = todo \ {i}
    /\ UNCHANGED <<now, pc, last, safe>>

SyncReturns ==
    /\ pc = "sync" /\ todo = {}
    /\ pc' = "idle"
    /\ safe' = IF sync_ok THEN [k \in Keys |-> {Expected(k)}] ELSE safe
    /\ UNCHANGED <<l1, store, now, todo, sync_ok, last, recent>>

---------------------------------------------------------------------------
(* The environment                                                         *)

\* Power fails: the cache is lost, and callers read what is left.
Reboot ==
    /\ "reboot" \in Ops
    /\ l1' = EmptyCache
    /\ pc' = "idle" /\ todo' = {} /\ sync_ok' = TRUE
    /\ last' = [k \in Keys |->
                IF Beneath(k) = None THEN None
                ELSE [val |-> store[k].val,
                      expires_at |-> IF store[k].ttl = 0 THEN 0
                                     ELSE store[k].ts + store[k].ttl]]
    /\ safe' = [k \in Keys |-> {Beneath(k)}]
    /\ recent' = {}
    /\ UNCHANGED <<store, now>>

Tick ==
    /\ pc = "idle" /\ now < MaxTime
    /\ now' = now + 1
    /\ UNCHANGED <<l1, store, pc, todo, sync_ok, history>>

Next ==
    \/ \E k \in Keys, p \in Payloads : PutCached(k, p) \/ PutNew(k, p)
    \/ \E k \in Keys : ReadCached(k) \/ Promote(k) \/ ReadBeneath(k) \/ RemoveKey(k)
    \/ Iterate \/ Clear
    \/ StartSync \/ SyncSlot \/ SyncReturns
    \/ Reboot
    \/ Tick

Spec == Init /\ [][Next]_vars

=============================================================================
