----------------------------- MODULE HeapStore -----------------------------
(***************************************************************************)
(* microStore's HeapStore (src/include/microStore/HeapStore.h): a store    *)
(* in RAM, an ordered map from keys to records, on the clock of Utility.h. *)
(* The time stamp of a record is read in the translation unit of the       *)
(* caller, where put()'s default argument is evaluated; everything else in *)
(* the unit whose copy of the template the linker has kept.                *)
(***************************************************************************)
EXTENDS Clock, FiniteSets, FiniteSetsExt

CONSTANTS
    Keys,        \* numbers, in the order std::less puts the keys in
    Payloads,    \* what a put may store: [val, ttl, ahead], ahead being
                 \* how far the stamp is from the caller's time()
    None,        \* the key has no value
    SecWrap,     \* 2^32, the modulus of differences of time stamps
    TTLs,        \* what set_ttl_secs() may be called with
    Limits,      \* what set_max_recs() may be called with
    Ops          \* what the caller does: "put", "get", ...

ASSUME HeapParameters ==
    /\ IsFiniteSet(Keys) /\ Keys \subseteq Int /\ None \notin Keys
    /\ \A p \in Payloads : p.ttl \in Nat /\ p.ahead \in Int
    /\ SecWrap \in Nat \ {0}
    /\ TTLs \subseteq Nat /\ 0 \in TTLs /\ Limits \subseteq Nat /\ 0 \in Limits
    /\ Units = {"caller", "store"}

\* What the map holds under a key.
Values == {p.val : p \in Payloads}
Records == [val : Values, timestamp : Nat, ttl : Nat]

\* history: a record with the time it was put at
Memories == [val : Values, ttl : Nat, born : Nat]

ASSUME NoneIsNoRecord == None \notin Records \cup Memories

VARIABLES
    data,             \* data_: key -> [val, timestamp, ttl] or None
    policy_ttl_secs,
    policy_max_recs,
    call,             \* history: the last call
    last              \* history: the record callers expect under each key

heap == <<data, policy_ttl_secs, policy_max_recs, call, last>>

Held(d) == {k \in Keys : d[k] # None}
EffectiveTTL(r) == IF r.ttl > 0 THEN r.ttl ELSE policy_ttl_secs

\* (bug) a record lives a second too long
ExpiredLate(r, t) ==
    /\ EffectiveTTL(r) > 0
    /\ (t - r.timestamp) % SecWrap > EffectiveTTL(r)

\* The test of put() and get(), in unsigned arithmetic.
Expired(r, t) ==
    /\ EffectiveTTL(r) > 0
    /\ (t - r.timestamp) % SecWrap >= EffectiveTTL(r)

\* put() drops all that has expired ...
Purged(t) == [k \in Keys |->
    IF data[k] # None /\ Expired(data[k], t) THEN None ELSE data[k]]

\* (bug) one record is left too many
EvictedShort(d, k) ==
    LET full == policy_max_recs > 0 /\ d[k] = None
        more == Cardinality(Held(d)) - policy_max_recs
    IN  IF ~full \/ more <= 0 THEN {}
        ELSE {j \in Held(d) : Cardinality({i \in Held(d) : i < j}) < more}

\* ... and to make room for a new key the smallest keys.
Evicted(d, k) ==
    LET full == policy_max_recs > 0 /\ d[k] = None
        more == Cardinality(Held(d)) - policy_max_recs + 1
    IN  IF ~full \/ more <= 0 THEN {}
        ELSE {j \in Held(d) : Cardinality({i \in Held(d) : i < j}) < more}

\* What get() would answer for k.
View(k) ==
    IF data[k] = None \/ Expired(data[k], Time("store")) THEN None
    ELSE data[k].val

\* The record put last under k has outlived its TTL.
Lapsed(k) ==
    /\ last[k] # None /\ EffectiveTTL(last[k]) > 0
    /\ TrueTime - last[k].born >= EffectiveTTL(last[k])

---------------------------------------------------------------------------

HeapInit ==
    /\ ClockInit
    /\ data = [k \in Keys |-> None]
    /\ policy_ttl_secs = 0 /\ policy_max_recs = 0
    /\ call = "init"
    /\ last = [k \in Keys |-> None]

Calls(o) == o \in Ops /\ call' = o

Put(k, p) ==
    LET purged == Purged(Time("store"))
        ts == Time("caller") + p.ahead
        evicted == Evicted(purged, k)
    IN  /\ Calls("put")
        /\ ts >= 0
        /\ TimeCalled({"caller", "store"})
        /\ data' = [j \in Keys |->
                IF j = k THEN [val |-> p.val, timestamp |-> ts, ttl |-> p.ttl]
                ELSE IF j \in evicted THEN None ELSE purged[j]]
        /\ last' = [j \in Keys |->
                IF j = k THEN [val |-> p.val, ttl |-> p.ttl,
                               born |-> TrueTime + p.ahead]
                ELSE IF j \in evicted \/ Lapsed(j) THEN None ELSE last[j]]
        /\ UNCHANGED <<policy_ttl_secs, policy_max_recs>>

\* (bug) get() sweeps the whole store
GetSweeps(k) ==
    /\ Calls("get")
    /\ data[k] # None
    /\ TimeCalled({"store"})
    /\ data' = Purged(Time("store"))
    /\ last' = [j \in Keys |-> IF Lapsed(j) THEN None ELSE last[j]]
    /\ UNCHANGED <<policy_ttl_secs, policy_max_recs>>

\* get() asks for the time only if the record may expire.
Get(k) ==
    /\ Calls("get")
    /\ data[k] # None
    /\ IF EffectiveTTL(data[k]) > 0 THEN TimeCalled({"store"}) ELSE UNCHANGED clock
    /\ data' = [data EXCEPT ![k] =
                    IF Expired(@, Time("store")) THEN None ELSE @]
    /\ last' = [last EXCEPT ![k] = IF Lapsed(k) THEN None ELSE @]
    /\ UNCHANGED <<policy_ttl_secs, policy_max_recs>>

Remove(k) ==
    /\ Calls("remove")
    /\ data' = [data EXCEPT ![k] = None]
    /\ last' = [last EXCEPT ![k] = None]
    /\ UNCHANGED <<policy_ttl_secs, policy_max_recs, clock>>

\* clear(), and init(clearOnInit)
Clear ==
    /\ Calls("clear")
    /\ data' = [k \in Keys |-> None]
    /\ last' = [k \in Keys |-> None]
    /\ UNCHANGED <<policy_ttl_secs, policy_max_recs, clock>>

set_ttl_secs(t) ==
    /\ Calls("set_ttl_secs")
    /\ policy_ttl_secs' = t
    /\ UNCHANGED <<data, policy_max_recs, last, clock>>

set_max_recs(n) ==
    /\ Calls("set_max_recs")
    /\ policy_max_recs' = n
    /\ UNCHANGED <<data, policy_ttl_secs, last, clock>>

=============================================================================
