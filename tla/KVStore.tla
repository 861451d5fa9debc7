------------------------------ MODULE KVStore ------------------------------
(***************************************************************************)
(* What a microStore store promises its caller: a map from keys to the     *)
(* last record put, from which a record disappears when it is removed,     *)
(* when the record limit evicts it, or when the store is cleared.  get()   *)
(* returns it until its TTL runs out.  Reboots are not visible at this     *)
(* level: a durable store steps over them without changing the map.        *)
(***************************************************************************)
EXTENDS Integers, FiniteSets

CONSTANTS
    Keys,        \* the keys callers use
    Payloads,    \* what a put may store: [val, ts, ttl, prio]
    None,        \* the key has no value
    MaxRecs,     \* set_max_recs(); 0 = no limit
    PolicyTTL    \* set_ttl_secs(); 0 = records do not expire

VARIABLES
    kv,          \* the record of every key, expired or not
    now          \* microStore::time()

vars == <<kv, now>>

\* The record's own TTL, or the store's when it has none.
EffectiveTTL(ttl) == IF ttl > 0 THEN ttl ELSE PolicyTTL

Expired(ts, ttl, t) ==
    /\ EffectiveTTL(ttl) > 0
    /\ t > ts
    /\ t - ts >= EffectiveTTL(ttl)

\* What get() returns of a stored record at time t.
Visible(d, t) == IF d # None /\ Expired(d.ts, d.ttl, t) THEN None ELSE d

\* The records of which callers know the older to go first: those whose priority
\* costs them nothing, and those of one priority and one lifetime. The user
\* guide promises it of any two records; no store keeps that promise.
Plain(d) == d.prio = 0 \/ EffectiveTTL(d.ttl) = 0
Alike(d, e) ==
    \/ Plain(d) /\ Plain(e)
    \/ d.prio = e.prio /\ EffectiveTTL(d.ttl) = EffectiveTTL(e.ttl)

Held(m) == {k \in Keys : m[k] # None}

\* The sets of keys that may be evicted from m: just enough to meet the limit,
\* and no key that is kept has an older record than a like one that goes.
Victims(m) ==
    LET excess == IF MaxRecs = 0 THEN 0 ELSE Cardinality(Held(m)) - MaxRecs IN
    {E \in SUBSET Held(m) :
        /\ Cardinality(E) = IF excess > 0 THEN excess ELSE 0
        /\ \A e \in E, r \in Held(m) \ E :
              Alike(m[e], m[r]) => m[e].ts <= m[r].ts}

Without(m, E) == [k \in Keys |-> IF k \in E THEN None ELSE m[k]]

---------------------------------------------------------------------------

Init == kv = [k \in Keys |-> None] /\ now = 0

\* A record that has expired counts for the limit until something drops it, of
\* which callers see nothing: any of them may be gone.
Put(k, d) ==
    /\ \E D \in SUBSET {j \in Keys : Visible(kv[j], now) = None} :
          \E E \in Victims([Without(kv, D) EXCEPT ![k] = d]) :
             kv' = Without([kv EXCEPT ![k] = d], E)
    /\ UNCHANGED now

Remove(k) == kv' = [kv EXCEPT ![k] = None] /\ UNCHANGED now

Clear == kv' = [k \in Keys |-> None] /\ UNCHANGED now

Tick == now' = now + 1 /\ UNCHANGED kv

Next ==
    \/ \E k \in Keys, d \in Payloads : Put(k, d)
    \/ \E k \in Keys : Remove(k)
    \/ Clear
    \/ Tick

Spec == Init /\ [][Next]_vars

=============================================================================
