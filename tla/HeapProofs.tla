----------------------------- MODULE HeapProofs -----------------------------
(***************************************************************************)
(* Theorems about HeapStore and TypedStore for every value of the          *)
(* constants: any number of keys, any records, lifetimes and limits, any   *)
(* policies in any order.                                                  *)
(***************************************************************************)
EXTENDS ClockProofs, FiniteSetTheorems, WellFoundedInduction

---------------------------------------------------------------------------
(* Sets of keys in their order                                             *)

Less == {ss \in Nat \X Nat : ss[1] < ss[2]}

Below(S, x) == {i \in S : i < x}

\* A key further up has more keys below it.
LEMMA BelowGrows ==
    ASSUME NEW S \in SUBSET Int, IsFiniteSet(S), NEW x \in S, NEW y \in S, y < x
    PROVE  Cardinality(Below(S, y)) < Cardinality(Below(S, x))
<1>1. Below(S, y) \in SUBSET Below(S, x) /\ y \in Below(S, x) \ Below(S, y)
  <2>1. x \in Int /\ y \in Int /\ ~ (y < y)
    OBVIOUS
  <2>2. ASSUME NEW i \in S, i < y PROVE i < x
    BY <2>1, <2>2
  <2> QED BY <2>1, <2>2 DEF Below
<1>2. Below(S, x) \in SUBSET S
  BY DEF Below
<1>3. IsFiniteSet(Below(S, x)) /\ IsFiniteSet(Below(S, y))
  BY <1>1, <1>2, FS_Subset
<1> QED BY <1>1, <1>3, FS_Subset, FS_CardinalityType

\* There are fewer keys below one of S than in S.
LEMMA BelowIsLess ==
    ASSUME NEW S \in SUBSET Int, IsFiniteSet(S), NEW x \in S
    PROVE  Cardinality(Below(S, x)) \in 0..Cardinality(S) - 1
<1>1. Below(S, x) \in SUBSET S /\ Below(S, x) # S
  BY DEF Below
<1>2. IsFiniteSet(Below(S, x))
  BY <1>1, FS_Subset
<1> QED BY <1>1, <1>2, FS_Subset, FS_CardinalityType

\* A finite set of numbers has a minimum, and Min picks it.
LEMMA MinOfKeys ==
    ASSUME NEW S \in SUBSET Int, IsFiniteSet(S), S # {}
    PROVE  Min(S) \in S /\ \A y \in S : Min(S) <= y
<1> DEFINE M == {Cardinality(Below(S, x)) : x \in S}
<1>1. M \subseteq Nat /\ M # {}
  <2>1. Cardinality(S) \in Nat
    BY FS_CardinalityType
  <2>2. \A x \in S : Cardinality(Below(S, x)) \in Nat
    BY <2>1, BelowIsLess
  <2> QED BY <2>2
<1>2. PICK m \in M : \A n \in M : ~ (<<n, m>> \in Less)
  <2>1. IsWellFoundedOn(Less, Nat)
    BY NatLessThanWellFounded DEF OpToRel, Less
  <2> HIDE DEF M
  <2> QED BY <1>1, <2>1, WFMin
<1>3. PICK x \in S : m = Cardinality(Below(S, x))
  BY <1>2
<1>4. ASSUME NEW y \in S, y < x PROVE FALSE
  <2>1. Cardinality(Below(S, y)) < m
    BY <1>3, <1>4, BelowGrows
  <2>2. Cardinality(Below(S, y)) \in M /\ m \in M
    BY <1>2
  <2> QED BY <1>1, <1>2, <2>1, <2>2 DEF Less
<1>5. \A y \in S : x <= y
  BY <1>4
<1> QED BY <1>5 DEF Min

\* There are n numbers before n.
LEMMA CountedFromZero ==
    ASSUME NEW n \in Nat
    PROVE  IsFiniteSet(0..n - 1) /\ Cardinality(0..n - 1) = n
<1>1. 0 \in Int /\ n - 1 \in Int
  OBVIOUS
<1>2. /\ IsFiniteSet(0..n - 1)
      /\ Cardinality(0..n - 1) = IF 0 > n - 1 THEN 0 ELSE (n - 1) - 0 + 1
  BY <1>1, FS_Interval
<1>3. (IF 0 > n - 1 THEN 0 ELSE (n - 1) - 0 + 1) = n
  OBVIOUS
<1> QED BY <1>2, <1>3

\* The n smallest of a set are n.
LEMMA SmallestCount ==
    ASSUME NEW S \in SUBSET Int, IsFiniteSet(S), NEW n \in 0..Cardinality(S)
    PROVE  Cardinality({j \in S : Cardinality({i \in S : i < j}) < n}) = n
<1> DEFINE N == Cardinality(S)
           r == [j \in S |-> Cardinality(Below(S, j))]
           E == {j \in S : r[j] < n}
           g == [j \in E |-> r[j]]
<1>0. N \in Nat /\ n \in Nat /\ n <= N
  BY FS_CardinalityType
<1>1. {j \in S : Cardinality({i \in S : i < j}) < n} = E
  BY DEF Below
<1>2. r \in [S -> 0..N - 1]
  BY BelowIsLess
<1>3. ASSUME NEW x \in S, NEW y \in S, r[x] = r[y] PROVE x = y
  <2>1. Cardinality(Below(S, x)) = Cardinality(Below(S, y))
    BY <1>3
  <2>2. Cardinality(Below(S, x)) \in Nat
    BY BelowIsLess, <1>0
  <2>3. ~ (x < y) /\ ~ (y < x)
    BY <2>1, <2>2, BelowGrows
  <2> QED BY <2>3
<1> HIDE DEF r
<1>4. r \in Injection(S, 0..N - 1)
  BY <1>2, <1>3 DEF Injection, IsInjective
<1>5. IsFiniteSet(0..N - 1) /\ Cardinality(0..N - 1) = N
  BY <1>0, CountedFromZero
<1>6. r \in Surjection(S, 0..N - 1)
  BY <1>4, <1>5, FS_Injection
<1>7. \A m \in 0..N - 1 : \E j \in S : r[j] = m
  BY <1>6 DEF Surjection
<1>8. g \in Injection(E, 0..n - 1)
  <2>1. \A j \in E : r[j] \in 0..n - 1
    BY <1>2, <1>0
  <2> QED BY <2>1, <1>3 DEF Injection, IsInjective
<1>9. g \in Surjection(E, 0..n - 1)
  <2>1. ASSUME NEW m \in 0..n - 1 PROVE \E j \in E : g[j] = m
    <3>1. PICK j \in S : r[j] = m
      BY <1>7, <1>0
    <3> QED BY <3>1, <1>0
  <2> QED BY <2>1, <1>8 DEF Surjection, Injection
<1>10. IsFiniteSet(0..n - 1) /\ Cardinality(0..n - 1) = n
  BY <1>0, CountedFromZero
<1> HIDE DEF g, E
<1> QED BY <1>1, <1>8, <1>9, <1>10, FS_Injection

---------------------------------------------------------------------------
(* The invariants                                                          *)

\* A record that was once put.
Put_record(r) == \E p \in Payloads, t \in Nat :
                     r = [val |-> p.val, timestamp |-> t, ttl |-> p.ttl]

HoldsRecords(d) ==
    d = [k \in Keys |-> d[k]] /\ \A k \in Held(d) : Put_record(d[k])

Typed ==
    /\ ClockInv
    /\ ms \in 0..MaxMs /\ time_offset \in Offsets
    /\ HoldsRecords(data)
    /\ policy_ttl_secs \in TTLs /\ policy_max_recs \in Limits
    /\ pos \in Keys \cup {NoIterator, End}

\* No caller stamps a record with a time to come or sets the clock back, and
\* the seconds fit into the bits of a stamp.
HonestStamps ==
    /\ ~SetBack
    /\ \A p \in Payloads : p.ahead <= 0
    /\ \A o \in Offsets : MaxMs \div MsPerSec + o < SecWrap

---------------------------------------------------------------------------
(* Lemmas about HeapStore's operators                                      *)

\* A record is not None.
LEMMA RecordNotNone ==
    ASSUME NEW p \in Payloads, NEW t \in Nat
    PROVE  /\ [val |-> p.val, timestamp |-> t, ttl |-> p.ttl] # None
           /\ [val |-> p.val, ttl |-> p.ttl, born |-> t] # None
<1>1. p.val \in Values /\ p.ttl \in Nat
  BY HeapParameters DEF Values
<1>2. /\ [val |-> p.val, timestamp |-> t, ttl |-> p.ttl] \in Records
      /\ [val |-> p.val, ttl |-> p.ttl, born |-> t] \in Memories
  BY <1>1 DEF Records, Memories
<1> QED BY <1>2, NoneIsNoRecord

\* The fields of a record.
LEMMA FieldsOf ==
    ASSUME NEW r, Put_record(r)
    PROVE  r.val \in Values /\ r.timestamp \in Nat /\ r.ttl \in Nat /\ r # None
<1>1. PICK p \in Payloads, t \in Nat :
        r = [val |-> p.val, timestamp |-> t, ttl |-> p.ttl]
  BY DEF Put_record
<1>2. p.val \in Values /\ p.ttl \in Nat
  BY HeapParameters DEF Values
<1> QED BY <1>1, <1>2, RecordNotNone

\* A set of keys is finite.
LEMMA KeysFinite ==
    ASSUME NEW d
    PROVE  Held(d) \in SUBSET Int /\ Held(d) \in SUBSET Keys /\ IsFiniteSet(Held(d))
<1>1. Held(d) \in SUBSET Keys
  BY DEF Held
<1> QED BY <1>1, HeapParameters, FS_Subset

\* Purging leaves records or nothing.
LEMMA PurgedHolds ==
    ASSUME HoldsRecords(data), NEW t
    PROVE  HoldsRecords(Purged(t))
BY DEF HoldsRecords, Held, Purged

\* The clock reads a number.
LEMMA TimeIsNat ==
    ASSUME Typed
    PROVE  TrueTime \in Nat /\ \A u \in Units : Time(u) = TrueTime
<1>1. ms \in Nat /\ time_offset \in Nat /\ MsPerSec \in Nat \ {0}
  BY ClockParameters DEF Typed
<1>2. ms \div MsPerSec \in Nat
  BY <1>1, Division
<1> QED BY <1>1, <1>2, ClocksAgreeNow DEF Typed, TrueTime, ClocksAgree

---------------------------------------------------------------------------
(* The types                                                               *)

\* A put stores a record.
LEMMA PutTyped ==
    ASSUME Typed, NEW k \in Keys, NEW p \in Payloads, Put(k, p), UNCHANGED iteration
    PROVE  Typed'
<1> DEFINE P == Purged(Time("store"))
           E == Evicted(P, k)
           ts == Time("caller") + p.ahead
<1>1. ts \in Nat
  <2>1. Time("caller") \in Nat /\ p.ahead \in Int /\ ts >= 0
    BY TimeIsNat, HeapParameters DEF Put
  <2> QED BY <2>1
<1>2. data' = [j \in Keys |->
                IF j = k THEN [val |-> p.val, timestamp |-> ts, ttl |-> p.ttl]
                ELSE IF j \in E THEN None ELSE P[j]]
  BY DEF Put
<1>3. HoldsRecords(P)
  BY PurgedHolds DEF Typed
<1> HIDE DEF P, E, ts
<1>4. HoldsRecords(data)'
  <2>1. ASSUME NEW j \in Keys, data'[j] # None PROVE Put_record(data'[j])
    <3>1. CASE j = k
      BY <3>1, <1>1, <1>2 DEF Put_record
    <3>2. CASE j # k
      BY <3>2, <2>1, <1>2, <1>3 DEF HoldsRecords, Held
    <3> QED BY <3>1, <3>2
  <2>2. data' = [j \in Keys |-> data'[j]]
    BY <1>2
  <2> QED BY <2>1, <2>2 DEF HoldsRecords, Held
<1>5. ClockInv'
  BY TimeCalledKeeps DEF Typed, Put
<1> QED BY <1>4, <1>5 DEF Typed, Put, TimeCalled, iteration

\* A get drops a record or leaves it.
LEMMA GetTyped ==
    ASSUME Typed, NEW k \in Keys, Get(k), UNCHANGED iteration
    PROVE  Typed'
<1>1. HoldsRecords(data)'
  BY DEF Typed, Get, HoldsRecords, Held
<1>2. ClockInv'
  <2>1. CASE UNCHANGED clock
    BY <2>1 DEF Typed, clock, ClockInv, Remembers
  <2>2. CASE TimeCalled({"store"})
    BY <2>2, TimeCalledKeeps DEF Typed
  <2> QED BY <2>1, <2>2 DEF Get
<1>3. UNCHANGED <<ms, time_offset>>
  BY DEF Get, TimeCalled, clock
<1> QED BY <1>1, <1>2, <1>3 DEF Typed, Get, iteration

\* An iterator stands on a key that is held, or at the end.
LEMMA IteratorMoves ==
    ASSUME Typed, Begin \/ Advance
    PROVE  /\ pos' \in Held(data) \cup {End}
           /\ pos = NoIterator => \A j \in Held(data) :
                  pos' # End => pos' <= j
           /\ pos = NoIterator /\ pos' = End => Held(data) = {}
           /\ pos # NoIterator =>
                  /\ pos \in Keys
                  /\ pos' # End => pos < pos'
                  /\ \A j \in Held(data) : j > pos => (pos' # End /\ pos' <= j)
<1>1. CASE Begin
  <2>1. pos = NoIterator /\ pos' = IF Held(data) = {} THEN End ELSE Min(Held(data))
    BY <1>1 DEF Begin, MoveTo
  <2>2. Held(data) # {} =>
          Min(Held(data)) \in Held(data) /\ \A y \in Held(data) : Min(Held(data)) <= y
    BY KeysFinite, MinOfKeys
  <2>3. \A y \in Held(data) : y # End
    BY TypedParameters, KeysFinite
  <2> QED BY <2>1, <2>2, <2>3
<1>2. CASE Advance
  <2> DEFINE A == {j \in Held(data) : j > pos}
  <2>1. pos \in Keys /\ pos # NoIterator /\ pos' = IF A = {} THEN End ELSE Min(A)
    BY <1>2, TypedParameters DEF Advance, MoveTo, Next_pos
  <2>2. A \in SUBSET Int /\ IsFiniteSet(A) /\ A \in SUBSET Held(data)
    BY KeysFinite, FS_Subset
  <2>3. A # {} => Min(A) \in A /\ \A y \in A : Min(A) <= y
    <3> HIDE DEF A
    <3> QED BY <2>2, MinOfKeys
  <2>4. \A y \in Held(data) : y # End
    BY TypedParameters, KeysFinite
  <2>5. pos \in Int
    BY <2>1, HeapParameters
  <2> QED BY <2>1, <2>2, <2>3, <2>4, <2>5
<1> QED BY <1>1, <1>2

\* The store is empty, and nobody iterates.
LEMMA TypedInit == Init => Typed
<1> SUFFICES ASSUME Init PROVE Typed
  OBVIOUS
<1>1. ClockInv
  BY ClockInitInvariant
<1>2. HoldsRecords(data)
  BY DEF Init, HeapInit, HoldsRecords, Held
<1> QED BY <1>1, <1>2, ClockParameters, HeapParameters
        DEF Init, HeapInit, ClockInit, Typed

\* Every step leaves records in the map, and the iterator at one of them.
LEMMA TypedNext == Typed /\ [Next]_vars => Typed'
<1> SUFFICES ASSUME Typed, [Next]_vars PROVE Typed'
  OBVIOUS
<1>0. ClockInv'
  BY ClockNextInvariant DEF Typed
<1>1. ASSUME NEW k \in Keys, NEW p \in Payloads, Put(k, p), UNCHANGED iteration
      PROVE  Typed'
  BY <1>1, PutTyped
<1>2. ASSUME NEW k \in Keys, Remove(k), UNCHANGED iteration PROVE Typed'
  <2>1. HoldsRecords(data)'
    BY <1>2 DEF Typed, Remove, HoldsRecords, Held
  <2> QED BY <1>0, <1>2, <2>1 DEF Typed, Remove, clock, iteration
<1>3. ASSUME Clear, UNCHANGED iteration PROVE Typed'
  <2>1. HoldsRecords(data)'
    BY <1>3 DEF Clear, HoldsRecords, Held
  <2> QED BY <1>0, <1>3, <2>1 DEF Typed, Clear, clock, iteration
<1>4. ASSUME NEW t \in TTLs, set_ttl_secs(t), UNCHANGED iteration PROVE Typed'
  BY <1>0, <1>4 DEF Typed, set_ttl_secs, clock, iteration, HoldsRecords, Held
<1>5. ASSUME NEW n \in Limits, set_max_recs(n), UNCHANGED iteration PROVE Typed'
  BY <1>0, <1>5 DEF Typed, set_max_recs, clock, iteration, HoldsRecords, Held
<1>6. ASSUME NEW k \in Keys, Get(k), UNCHANGED iteration PROVE Typed'
  BY <1>6, GetTyped
<1>7. CASE Begin \/ Advance
  <2>1. pos' \in Held(data) \cup {End}
    BY <1>7, IteratorMoves
  <2>2. UNCHANGED <<clock, data, policy_ttl_secs, policy_max_recs>>
    BY <1>7 DEF Begin, Advance
  <2> QED BY <1>0, <2>1, <2>2 DEF Typed, clock, HoldsRecords, Held
<1>8. CASE Finish
  BY <1>0, <1>8 DEF Typed, Finish, clock, HoldsRecords, Held
<1>9. CASE (Tick \/ set_time_offset) /\ UNCHANGED <<heap, iteration>>
  <2>1. ms' \in 0..MaxMs /\ time_offset' \in Offsets
    BY <1>9, ClockParameters DEF Typed, Tick, set_time_offset
  <2> QED BY <1>0, <1>9, <2>1 DEF Typed, heap, iteration, HoldsRecords, Held
<1>10. CASE UNCHANGED vars
  BY <1>0, <1>10 DEF Typed, vars, clock, heap, iteration, HoldsRecords, Held
<1> QED BY <1>1, <1>2, <1>3, <1>4, <1>5, <1>6, <1>7, <1>8, <1>9, <1>10
        DEF Next, Mutate, Read

\* The map holds records and nothing else, the iterator stands on a key or
\* at the end, and the clock counts right (HeapStore.h, TypedStore.h,
\* Utility.h).
THEOREM HeapTyped == Spec => []Typed
<1> QED BY TypedInit, TypedNext, PTL DEF Spec

\* The members of the store, of the iterator and of the clock have their
\* types (HeapStore.h, TypedStore.h, Utility.h).
THEOREM HeapTypeOK == Spec => []TypeOK
<1>1. Typed => TypeOK
  <2> SUFFICES ASSUME Typed PROVE TypeOK
    OBVIOUS
  <2>1. ms \in 0..MaxMs /\ ms \in Nat /\ MsWrap \in Nat \ {0}
    BY ClockParameters DEF Typed
  <2>2. ASSUME NEW u \in Units
        PROVE  /\ low32[u] \in 0..MsWrap - 1 /\ high32[u] \in Nat
               /\ called[u] \in 0..ms
    <3>1. Remembers(u)
      BY DEF Typed, ClockInv
    <3> QED BY <2>1, <3>1, Division DEF Remembers
  <2>3. /\ low32 \in [Units -> 0..MsWrap - 1]
        /\ high32 \in [Units -> Nat] /\ called \in [Units -> 0..ms]
    BY <2>2 DEF Typed, ClockInv
  <2>4. ASSUME NEW k \in Held(data)
        PROVE  /\ \E p \in Payloads : data[k].val = p.val /\ data[k].ttl = p.ttl
               /\ data[k].timestamp \in Nat
    <3>1. PICK p \in Payloads, t \in Nat :
            data[k] = [val |-> p.val, timestamp |-> t, ttl |-> p.ttl]
      BY DEF Typed, HoldsRecords, Put_record
    <3> QED BY <3>1
  <2> QED BY <2>1, <2>3, <2>4 DEF Typed, TypeOK
<1> QED BY <1>1, HeapTyped, PTL

---------------------------------------------------------------------------
(* Iteration                                                               *)

\* As long as nobody reads the record under the iterator after it has
\* expired, the iterator in use stands on a record, or at the end: no other
\* read erases it (HeapStore.h:142).
THEOREM IteratorStaysValid ==
    ASSUME "reread" \notin Ops
    PROVE  Spec => []IteratorValid
<1>1. Init => IteratorValid
  BY TypedParameters DEF Init, IteratorValid
<1>2. Typed /\ IteratorValid /\ [Next]_vars => IteratorValid'
  <2> SUFFICES ASSUME Typed, IteratorValid, [Next]_vars PROVE IteratorValid'
    OBVIOUS
  <2>1. CASE pos = NoIterator /\ UNCHANGED iteration
    BY <2>1, TypedParameters DEF IteratorValid, iteration
  <2>2. ASSUME Read, UNCHANGED iteration PROVE IteratorValid'
    <3>1. PICK k \in Keys : (k = pos => View(k) # None) /\ Get(k)
      BY <2>2 DEF Read
    <3>2. k = pos => ~ Expired(data[k], Time("store"))
      BY <3>1 DEF View
    <3> QED BY <2>2, <3>1, <3>2 DEF IteratorValid, Get, iteration, Typed, HoldsRecords
  <2>3. CASE Begin \/ Advance
    <3>1. data' = data /\ pos' \in Held(data) \cup {End}
      BY <2>3, IteratorMoves DEF Begin, Advance
    <3> QED BY <3>1, TypedParameters DEF IteratorValid, Held
  <2>4. CASE Finish
    BY <2>4, TypedParameters DEF Finish, IteratorValid
  <2>5. CASE (Tick \/ set_time_offset) /\ UNCHANGED <<heap, iteration>>
    BY <2>5 DEF IteratorValid, heap, iteration
  <2>6. CASE UNCHANGED vars
    BY <2>6 DEF IteratorValid, vars, heap, iteration
  <2> QED BY <2>1, <2>2, <2>3, <2>4, <2>5, <2>6 DEF Next
<1> QED BY <1>1, <1>2, HeapTyped, PTL DEF Spec

\* Moving to a key gives the caller its entry.
LEMMA MoveGives ==
    ASSUME Typed, GivenSoFar, NEW k \in Held(data), MoveTo(k)
    PROVE  /\ current' \in Given /\ current'.key = k
           /\ data[k].val \in Decodable => current' = [key |-> k, val |-> data[k].val]
           /\ seen' = Append(seen, current')
<1>1. k \in Keys /\ k # End
  BY KeysFinite, TypedParameters
<1>2. data[k].val \in Values
  BY FieldsOf DEF Typed, HoldsRecords
<1>3. entry' = [key |-> k, val |-> data[k].val]
  BY <1>1 DEF MoveTo, Load
<1>4. current' = [key |-> k, val |-> IF data[k].val \in Decodable
                                     THEN data[k].val ELSE current.val]
  BY <1>1, <1>3 DEF MoveTo, TypedLoad
<1>5. current.val \in Values \cup {None}
  BY DEF GivenSoFar, Given
<1>6. seen' = Append(seen, current')
  BY <1>1 DEF MoveTo
<1> QED BY <1>1, <1>2, <1>4, <1>5, <1>6 DEF Given

\* The iterator begins at the first record, and steps over none.
LEMMA MoveKeepsGiven ==
    ASSUME Typed, GivenSoFar, Begin \/ Advance
    PROVE  GivenSoFar'
<1>1. /\ UNCHANGED data /\ MoveTo(pos') /\ pos' \in Held(data) \cup {End}
      /\ pos = NoIterator \/ pos \in Keys
  BY IteratorMoves DEF Begin, Advance, MoveTo
<1>2. /\ NoIterator \notin Keys /\ End \notin Keys /\ NoIterator # End
      /\ Keys \subseteq Int
  BY TypedParameters, HeapParameters
<1>3. /\ seen \in Seq(Given) /\ pos' # NoIterator
      /\ \A k \in Held(data) : k \in Keys /\ k # End /\ k \in Int
  BY <1>1, <1>2, KeysFinite DEF GivenSoFar
\* what has been passed before: everything up to pos, and nothing at first
<1>4. /\ \A j \in DOMAIN seen : seen[j].key \in Keys /\ pos \in Keys /\ seen[j].key <= pos
      /\ \A i, j \in DOMAIN seen : seen[i].key = seen[j].key => i = j
  BY <1>1, <1>2 DEF GivenSoFar, Passed
<1>5. \A k \in Held(data) : (pos \in Keys /\ k <= pos /\ data[k].val \in Decodable) =>
            \E i \in DOMAIN seen : seen[i] = [key |-> k, val |-> data[k].val]
  BY <1>1, <1>2 DEF GivenSoFar, Passed
<1>6. \A k \in Held(data) : (pos' = End \/ k <= pos') =>
            (pos \in Keys /\ k <= pos) \/ k = pos'
  <2> SUFFICES ASSUME NEW k \in Held(data), pos' = End \/ k <= pos',
                      ~ (pos \in Keys /\ k <= pos)
               PROVE  k = pos'
    OBVIOUS
  <2>1. CASE pos = NoIterator
    <3>1. pos' # End /\ pos' <= k
      BY <2>1, <1>1, IteratorMoves
    <3> QED BY <3>1, <1>1, <1>3
  <2>2. CASE pos \in Keys
    <3>1. pos' # End /\ pos' <= k
      <4>1. k > pos
        BY <2>2, <1>2, <1>3
      <4> QED BY <4>1, <2>2, <1>2, IteratorMoves
    <3> QED BY <3>1, <1>1, <1>3
  <2> QED BY <1>1, <2>1, <2>2
<1>7. CASE pos' = End
  <2>1. seen' = seen /\ current' = current
    BY <1>7, <1>1 DEF MoveTo, TypedLoad
  <2> QED BY <2>1, <1>1, <1>3, <1>4, <1>5, <1>6, <1>7, <1>2 DEF GivenSoFar, Passed
<1>8. CASE pos' \in Held(data)
  <2>0. pos' \in Keys /\ pos' \in Int /\ pos' # End
    BY <1>8, <1>3
  <2>1. /\ current' \in Given /\ current'.key = pos'
        /\ data[pos'].val \in Decodable =>
               current' = [key |-> pos', val |-> data[pos'].val]
        /\ seen' = Append(seen, current')
    BY <1>1, <1>8, MoveGives
  <2>2. /\ seen' \in Seq(Given) /\ DOMAIN seen' = 1..Len(seen) + 1
        /\ DOMAIN seen = 1..Len(seen) /\ Len(seen) \in Nat
        /\ \A i \in DOMAIN seen : seen'[i] = seen[i]
        /\ seen'[Len(seen) + 1] = current'
    BY <2>1, <1>3
  <2>3. \A i \in DOMAIN seen' : i \in DOMAIN seen \/ i = Len(seen) + 1
    BY <2>2
  <2>4. pos \in Keys => pos < pos'
    BY <2>0, <1>2, IteratorMoves
  <2>5. ASSUME NEW j \in DOMAIN seen
        PROVE  seen[j].key \in Keys /\ seen[j].key \in Int /\ seen[j].key < pos'
    <3>1. seen[j].key \in Int /\ pos \in Int /\ seen[j].key <= pos /\ pos < pos'
      BY <1>4, <1>2, <2>4
    <3> QED BY <3>1, <2>0, <1>4
  <2>6. ASSUME NEW j \in DOMAIN seen'
        PROVE  seen'[j].key \in Keys /\ seen'[j].key <= pos'
    <3>1. CASE j \in DOMAIN seen
      <4>1. seen'[j] = seen[j]
        BY <3>1, <2>2
      <4> QED BY <4>1, <3>1, <2>0, <2>5
    <3>2. CASE j = Len(seen) + 1
      BY <3>2, <2>0, <2>1, <2>2
    <3> QED BY <3>1, <3>2, <2>3
  <2>7. ASSUME NEW i \in DOMAIN seen', NEW j \in DOMAIN seen',
               seen'[i].key = seen'[j].key
        PROVE  i = j
    <3>1. CASE i \in DOMAIN seen /\ j \in DOMAIN seen
      BY <3>1, <2>7, <2>2, <1>4
    <3>2. CASE i \in DOMAIN seen /\ j = Len(seen) + 1
      BY <3>2, <2>7, <2>1, <2>2, <2>5, <2>0
    <3>3. CASE j \in DOMAIN seen /\ i = Len(seen) + 1
      BY <3>3, <2>7, <2>1, <2>2, <2>5, <2>0
    <3> QED BY <3>1, <3>2, <3>3, <2>3
  <2>8. ASSUME NEW k \in Held(data), k <= pos', data[k].val \in Decodable
        PROVE  \E i \in DOMAIN seen' : seen'[i] = [key |-> k, val |-> data[k].val]
    <3>1. CASE k = pos'
      BY <3>1, <2>8, <2>1, <2>2
    <3>2. CASE pos \in Keys /\ k <= pos
      BY <3>2, <2>8, <1>5, <2>2
    <3> QED BY <3>1, <3>2, <2>8, <1>6
  <2> HIDE DEF Held
  <2>9. Held(data)' = Held(data)
    BY <1>1 DEF Held
  <2>10. \A k \in Held(data)' : (k <= pos' /\ data'[k].val \in Decodable) =>
            \E i \in DOMAIN seen' : seen'[i] = [key |-> k, val |-> data'[k].val]
    BY <2>8, <2>9, <1>1
  <2> QED BY <2>0, <2>1, <2>2, <2>6, <2>7, <2>10, <1>3 DEF GivenSoFar, Passed
<1> QED BY <1>1, <1>7, <1>8

\* While an iterator is in use records go, but none changes.
LEMMA GivenNext == Typed /\ GivenSoFar /\ [Next]_vars => GivenSoFar'
<1> SUFFICES ASSUME Typed, GivenSoFar, [Next]_vars PROVE GivenSoFar'
  OBVIOUS
<1>1. CASE pos = NoIterator /\ UNCHANGED iteration
  BY <1>1 DEF GivenSoFar, iteration
<1>2. ASSUME Held(data') \subseteq Held(data), UNCHANGED iteration,
             \A k \in Held(data') : data'[k] = data[k]
      PROVE  GivenSoFar'
  BY <1>2 DEF GivenSoFar, Passed, iteration
<1>3. CASE Read /\ UNCHANGED iteration
  BY <1>2, <1>3 DEF Read, Get, Held, Typed, HoldsRecords
<1>4. CASE Begin \/ Advance
  BY <1>4, MoveKeepsGiven
<1>5. CASE Finish
  BY <1>5 DEF Finish, GivenSoFar, Given, Blank
<1>6. CASE UNCHANGED <<heap, iteration>>
  BY <1>2, <1>6 DEF heap
<1>7. CASE UNCHANGED vars
  BY <1>6, <1>7 DEF vars
<1> QED BY <1>1, <1>3, <1>4, <1>5, <1>6, <1>7 DEF Next

\* A caller who iterates to the end, reading records on the way, has been
\* given each record that decodes once, under its key with its value
\* (HeapStore.h:304-333, TypedStore.h:97-131).
THEOREM IterationIsComplete == Spec => []IterationComplete
<1>1. Init => GivenSoFar
  BY TypedParameters DEF Init, GivenSoFar, Given, Blank
<1>2. Typed /\ GivenSoFar => IterationComplete
  <2> SUFFICES ASSUME Typed, GivenSoFar, pos = End,
                      NEW k \in Keys, TypedView(k) # None
               PROVE  \E i \in DOMAIN seen :
                        /\ seen[i] = [key |-> k, val |-> TypedView(k)]
                        /\ \A j \in DOMAIN seen : seen[j].key = k => j = i
    BY DEF IterationComplete
  <2>1. View(k) \in Decodable /\ View(k) # None /\ TypedView(k) = View(k)
    BY DEF TypedView
  <2>2. k \in Held(data) /\ View(k) = data[k].val
    BY <2>1 DEF View, Held
  <2>3. PICK i \in DOMAIN seen : seen[i] = [key |-> k, val |-> data[k].val]
    BY <2>1, <2>2, TypedParameters DEF GivenSoFar, Passed
  <2>4. seen[i].key = k
    BY <2>3
  <2>5. \A j \in DOMAIN seen : seen[j].key = k => j = i
    BY <2>4, TypedParameters DEF GivenSoFar
  <2> QED BY <2>1, <2>2, <2>3, <2>5
<1> QED BY <1>1, <1>2, GivenNext, HeapTyped, PTL DEF Spec

---------------------------------------------------------------------------
(* What callers read back                                                  *)

\* A number below the modulus is its own remainder.
LEMMA SmallRemainder ==
    ASSUME NEW m \in Nat \ {0}, NEW a \in 0..m - 1
    PROVE  a % m = a
<1> DEFINE q == a \div m
<1>1. q \in Nat /\ a = m * q + (a % m) /\ a % m \in Nat
  BY Division
<1> HIDE DEF q
<1>2. q = 0
  <2> SUFFICES ASSUME q >= 1 PROVE FALSE
    BY <1>1
  <2>1. m * q >= m
    BY <1>1
  <2> QED BY <2>1, <1>1
<1> QED BY <1>1, <1>2

\* A quotient grows with the dividend.
LEMMA DivisionMonotone ==
    ASSUME NEW a \in Nat, NEW b \in Nat, a <= b, NEW m \in Nat \ {0}
    PROVE  a \div m <= b \div m
<1> DEFINE q == a \div m
           u == b \div m
<1>1. /\ q \in Nat /\ u \in Nat /\ a % m \in Nat /\ b % m \in Nat /\ b % m < m
      /\ a = m * q + (a % m) /\ b = m * u + (b % m)
  BY Division
<1> HIDE DEF q, u
<1>2. ~ (q >= u + 1)
  <2> SUFFICES ASSUME q >= u + 1 PROVE FALSE
    OBVIOUS
  <2>1. m * q >= m * (u + 1)
    BY <1>1
  <2>2. m * (u + 1) = m * u + m
    BY <1>1
  <2>3. m * q \in Nat /\ m * u \in Nat
    BY <1>1
  <2> QED BY <1>1, <2>1, <2>2, <2>3
<1> QED BY <1>1, <1>2 DEF q, u

\* The store and its callers agree on what has expired.
LEMMA ExpiredIsLapsed ==
    ASSUME HonestStamps, Typed, Remembered, StampsPassed,
           NEW k \in Keys, data[k] # None
    PROVE  Expired(data[k], Time("store")) <=> Lapsed(k)
<1>1. /\ last[k] = [val |-> data[k].val, ttl |-> data[k].ttl,
                    born |-> data[k].timestamp]
  BY DEF Remembered
<1>2. /\ Put_record(data[k]) /\ data[k].timestamp \in Nat
      /\ data[k].timestamp <= TrueTime
  BY FieldsOf DEF Typed, HoldsRecords, StampsPassed, Held
<1>3. last[k] # None
  <2>1. PICK p \in Payloads, t \in Nat :
          data[k] = [val |-> p.val, timestamp |-> t, ttl |-> p.ttl]
    BY <1>2 DEF Put_record
  <2> QED BY <2>1, <1>1, RecordNotNone
<1>4. EffectiveTTL(last[k]) = EffectiveTTL(data[k])
  BY <1>1 DEF EffectiveTTL
<1>5. Time("store") = TrueTime /\ TrueTime \in Nat
  BY TimeIsNat, HeapParameters
<1>6. TrueTime - data[k].timestamp \in 0..SecWrap - 1
  <2>1. TrueTime < SecWrap
    <3>1. ms \in 0..MaxMs /\ time_offset \in Offsets /\ MsPerSec \in Nat \ {0}
          /\ MaxMs \in Nat /\ ms \in Nat /\ SecWrap \in Nat /\ time_offset \in Nat
      BY ClockParameters, HeapParameters DEF Typed
    <3>2. ms \div MsPerSec <= MaxMs \div MsPerSec
      BY <3>1, DivisionMonotone
    <3>3. MaxMs \div MsPerSec + time_offset < SecWrap
      BY <3>1 DEF HonestStamps
    <3>4. ms \div MsPerSec \in Nat /\ MaxMs \div MsPerSec \in Nat
      BY <3>1, Division
    <3> QED BY <3>1, <3>2, <3>3, <3>4 DEF TrueTime
  <2> QED BY <2>1, <1>2, <1>5, HeapParameters
<1>7. (TrueTime - data[k].timestamp) % SecWrap = TrueTime - data[k].timestamp
  BY <1>6, SmallRemainder, HeapParameters
<1>8. last[k].born = data[k].timestamp
  BY <1>1
<1> QED BY <1>3, <1>4, <1>5, <1>7, <1>8 DEF Expired, Lapsed

\* Time does not go back, unless somebody sets it back.
LEMMA TimeGoesOn ==
    ASSUME HonestStamps, Typed, [Next]_vars
    PROVE  TrueTime <= TrueTime'
<1>1. ms \in Nat /\ time_offset \in Nat /\ MsPerSec \in Nat \ {0}
  BY ClockParameters DEF Typed
<1>2. ms \div MsPerSec \in Nat
  BY <1>1, Division
<1>3. CASE UNCHANGED <<ms, time_offset>>
  BY <1>1, <1>2, <1>3 DEF TrueTime
<1>4. CASE Tick
  <2>1. ms' = ms + 1 /\ time_offset' = time_offset
    BY <1>4 DEF Tick
  <2>2. ms \div MsPerSec <= ms' \div MsPerSec /\ ms' \div MsPerSec \in Nat
    BY <1>1, <2>1, DivisionMonotone, Division
  <2> QED BY <1>1, <1>2, <2>1, <2>2 DEF TrueTime
<1>5. CASE set_time_offset
  <2>1. time_offset' \in Nat /\ time_offset < time_offset' /\ ms' = ms
    BY <1>5, ClockParameters DEF set_time_offset, HonestStamps
  <2>2. PICK q \in Nat : q = ms \div MsPerSec
    BY <1>2
  <2>3. TrueTime = q + time_offset /\ TrueTime' = q + time_offset'
    BY <2>1, <2>2 DEF TrueTime
  <2>4. \A a, b \in Nat : a < b => q + a <= q + b
    BY <2>2
  <2> QED BY <1>1, <2>1, <2>3, <2>4
<1>6. CASE Mutate
  BY <1>3, <1>6 DEF Mutate, Put, Remove, Clear, set_ttl_secs, set_max_recs,
                   TimeCalled, clock
<1>7. CASE Read
  BY <1>3, <1>7 DEF Read, Get, TimeCalled, clock
<1>8. CASE Begin \/ Advance \/ Finish \/ UNCHANGED vars
  BY <1>3, <1>8 DEF Begin, Advance, Finish, vars, clock
<1> QED BY <1>4, <1>5, <1>6, <1>7, <1>8 DEF Next

\* A put leaves callers expecting what the map holds: it drops from both
\* what has expired and what it evicts.
LEMMA PutRemembered ==
    ASSUME HonestStamps, Typed, Remembered, StampsPassed,
           NEW k \in Keys, NEW p \in Payloads, Put(k, p)
    PROVE  Remembered' /\ StampsPassed'
<1> DEFINE P == Purged(Time("store"))
           E == Evicted(P, k)
           ts == Time("caller") + p.ahead
<1>1. ts \in Nat /\ ts = TrueTime + p.ahead /\ ts <= TrueTime
  <2>1. Time("caller") = TrueTime /\ TrueTime \in Nat /\ p.ahead \in Int
        /\ p.ahead <= 0 /\ ts >= 0
    BY TimeIsNat, HeapParameters DEF Put, HonestStamps
  <2> QED BY <2>1
<1>2. /\ data' = [j \in Keys |->
                IF j = k THEN [val |-> p.val, timestamp |-> ts, ttl |-> p.ttl]
                ELSE IF j \in E THEN None ELSE P[j]]
      /\ last' = [j \in Keys |->
                IF j = k THEN [val |-> p.val, ttl |-> p.ttl, born |-> TrueTime + p.ahead]
                ELSE IF j \in E \/ Lapsed(j) THEN None ELSE last[j]]
  BY DEF Put
<1>3. \A j \in Keys : P[j] = IF data[j] # None /\ Lapsed(j) THEN None ELSE data[j]
  BY ExpiredIsLapsed DEF Purged
<1>4. TrueTime' = TrueTime
  BY DEF Put, TimeCalled, TrueTime
<1> HIDE DEF P, E, ts
<1>5. ASSUME NEW j \in Keys
      PROVE  /\ IF data'[j] = None THEN last'[j] = None
                ELSE last'[j] = [val |-> data'[j].val, ttl |-> data'[j].ttl,
                                 born |-> data'[j].timestamp]
             /\ data'[j] # None => data'[j].timestamp <= TrueTime
  <2>1. CASE j = k
    <3>1. data'[j] = [val |-> p.val, timestamp |-> ts, ttl |-> p.ttl]
          /\ last'[j] = [val |-> p.val, ttl |-> p.ttl, born |-> ts]
      BY <2>1, <1>1, <1>2
    <3> QED BY <3>1, <1>1, RecordNotNone
  <2>2. CASE j # k /\ j \in E
    BY <2>2, <1>2
  <2>3. CASE j # k /\ j \notin E
    <3>1. /\ data'[j] = IF data[j] # None /\ Lapsed(j) THEN None ELSE data[j]
          /\ last'[j] = IF Lapsed(j) THEN None ELSE last[j]
      BY <2>3, <1>2, <1>3
    <3>2. data[j] = None => last[j] = None
      BY DEF Remembered
    <3>3. data[j] # None => /\ last[j] = [val |-> data[j].val, ttl |-> data[j].ttl,
                                          born |-> data[j].timestamp]
                            /\ data[j].timestamp <= TrueTime
      BY DEF Remembered, StampsPassed, Held
    <3> QED BY <3>1, <3>2, <3>3
  <2> QED BY <2>1, <2>2, <2>3
<1>6. last' = [j \in Keys |-> last'[j]]
  BY <1>2
<1> QED BY <1>4, <1>5, <1>6 DEF Remembered, StampsPassed, Held

\* So does a get.
LEMMA GetRemembered ==
    ASSUME HonestStamps, Typed, Remembered, StampsPassed, NEW k \in Keys, Get(k)
    PROVE  Remembered' /\ StampsPassed'
<1>1. data[k] # None /\ (Expired(data[k], Time("store")) <=> Lapsed(k))
  BY ExpiredIsLapsed DEF Get
<1>2. /\ data' = [data EXCEPT ![k] = IF Lapsed(k) THEN None ELSE @]
      /\ last' = [last EXCEPT ![k] = IF Lapsed(k) THEN None ELSE @]
  BY <1>1 DEF Get
<1>3. TrueTime' = TrueTime
  BY DEF Get, TimeCalled, clock, TrueTime
<1>4. DOMAIN data = Keys /\ DOMAIN last = Keys
  BY DEF Typed, HoldsRecords, Remembered
<1>5. ASSUME NEW j \in Keys
      PROVE  \/ data'[j] = None /\ last'[j] = None
             \/ data'[j] = data[j] /\ last'[j] = last[j]
  BY <1>2, <1>4
<1>6. last' = [j \in Keys |-> last'[j]]
  BY <1>2, <1>4
<1> QED BY <1>3, <1>5, <1>6 DEF Remembered, StampsPassed, Held

\* No other step changes one without the other.
LEMMA RememberedNext ==
    ASSUME HonestStamps
    PROVE  Typed /\ Remembered /\ StampsPassed /\ [Next]_vars
               => Remembered' /\ StampsPassed'
<1> SUFFICES ASSUME Typed, Remembered, StampsPassed, [Next]_vars
             PROVE  Remembered' /\ StampsPassed'
  OBVIOUS
<1>1. ASSUME UNCHANGED <<data, last>> PROVE Remembered' /\ StampsPassed'
  <2>1. Remembered'
    BY <1>1 DEF Remembered
  <2>2. TrueTime \in Nat /\ TrueTime' \in Nat /\ TrueTime <= TrueTime'
    <3>1. Typed'
      BY TypedNext
    <3>2. TrueTime' \in Nat
      <4>1. ms' \in Nat /\ time_offset' \in Nat /\ MsPerSec \in Nat \ {0}
        BY <3>1, ClockParameters DEF Typed
      <4>2. PICK q \in Nat : q = ms' \div MsPerSec
        BY <4>1, Division
      <4>3. TrueTime' = q + time_offset'
        BY <4>2 DEF TrueTime
      <4>4. \A a, b \in Nat : a + b \in Nat
        OBVIOUS
      <4> QED BY <4>1, <4>2, <4>3, <4>4
    <3> QED BY <3>2, TimeIsNat, TimeGoesOn
  <2>3. ASSUME NEW k \in Held(data) PROVE data[k].timestamp <= TrueTime'
    <3>1. data[k].timestamp \in Nat /\ data[k].timestamp <= TrueTime
      BY FieldsOf DEF Typed, HoldsRecords, StampsPassed
    <3> QED BY <3>1, <2>2
  <2> QED BY <1>1, <2>1, <2>3 DEF StampsPassed, Held
<1>2. CASE \E k \in Keys, p \in Payloads : Put(k, p)
  BY <1>2, PutRemembered
<1>3. ASSUME NEW k \in Keys, Remove(k) PROVE Remembered' /\ StampsPassed'
  <2>1. /\ data' = [data EXCEPT ![k] = None] /\ last' = [last EXCEPT ![k] = None]
        /\ TrueTime' = TrueTime
    BY <1>3 DEF Remove, clock, TrueTime
  <2>2. DOMAIN data = Keys /\ DOMAIN last = Keys
    BY DEF Typed, HoldsRecords, Remembered
  <2>3. ASSUME NEW j \in Keys
        PROVE  \/ data'[j] = None /\ last'[j] = None
               \/ data'[j] = data[j] /\ last'[j] = last[j]
    BY <2>1, <2>2
  <2>4. last' = [j \in Keys |-> last'[j]]
    BY <2>1, <2>2
  <2> QED BY <2>1, <2>3, <2>4 DEF Remembered, StampsPassed, Held
<1>4. CASE Clear
  BY <1>4 DEF Clear, Remembered, StampsPassed, Held
<1>5. CASE (\E t \in TTLs : set_ttl_secs(t)) \/ (\E n \in Limits : set_max_recs(n))
  BY <1>1, <1>5 DEF set_ttl_secs, set_max_recs
<1>6. CASE Read
  BY <1>6, GetRemembered DEF Read
<1>7. CASE Begin \/ Advance \/ Finish
  BY <1>1, <1>7 DEF Begin, Advance, Finish
<1>8. CASE UNCHANGED heap
  BY <1>1, <1>8 DEF heap
<1>9. CASE UNCHANGED vars
  BY <1>8, <1>9 DEF vars
<1> QED BY <1>2, <1>3, <1>4, <1>5, <1>6, <1>7, <1>8, <1>9 DEF Next, Mutate

\* While stamps are honest, get() answers with the value last put until its
\* TTL has run out, it is removed or evicted: over any number of roll-overs
\* of millis(), and whatever the policies change to (HeapStore.h:87-93, 141).
THEOREM HeapReadsBack == HonestStamps => (Spec => []ReadsBack)
<1> SUFFICES ASSUME HonestStamps PROVE Spec => []ReadsBack
  OBVIOUS
<1>1. Init => Remembered /\ StampsPassed
  BY DEF Init, HeapInit, Remembered, StampsPassed, Held
<1>2. Typed /\ Remembered /\ StampsPassed => ReadsBack
  <2> SUFFICES ASSUME Typed, Remembered, StampsPassed, NEW k \in Keys
               PROVE  View(k) = Expected(k)
    BY DEF ReadsBack
  <2>1. CASE data[k] = None
    BY <2>1 DEF View, Expected, Remembered
  <2>2. CASE data[k] # None
    <3>1. last[k] = [val |-> data[k].val, ttl |-> data[k].ttl,
                     born |-> data[k].timestamp]
      BY <2>2 DEF Remembered
    <3>2. last[k] # None
      <4>1. PICK p \in Payloads, t \in Nat :
              data[k] = [val |-> p.val, timestamp |-> t, ttl |-> p.ttl]
        BY <2>2 DEF Typed, HoldsRecords, Held, Put_record
      <4> QED BY <4>1, <3>1, RecordNotNone
    <3>3. Expired(data[k], Time("store")) <=> Lapsed(k)
      BY <2>2, ExpiredIsLapsed
    <3>4. last[k].val = data[k].val
      BY <3>1
    <3> QED BY <2>2, <3>2, <3>3, <3>4 DEF View, Expected
  <2> QED BY <2>1, <2>2
<1> QED BY <1>1, <1>2, RememberedNext, HeapTyped, PTL DEF Spec

---------------------------------------------------------------------------
(* The record limit                                                        *)

\* What a put evicts: nothing for a key that is held, and for a new one as
\* much as leaves the limit met.
LEMMA EvictedCount ==
    ASSUME Typed, NEW d, NEW k \in Keys
    PROVE  /\ Evicted(d, k) \in SUBSET Held(d)
           /\ d[k] # None \/ policy_max_recs = 0 => Evicted(d, k) = {}
           /\ Evicted(d, k) # {} =>
                Cardinality((Held(d) \ Evicted(d, k)) \cup {k}) = policy_max_recs
           /\ (d[k] = None /\ policy_max_recs > 0) =>
                Cardinality((Held(d) \ Evicted(d, k)) \cup {k}) <= policy_max_recs
<1> DEFINE H == Held(d)
           more == Cardinality(H) - policy_max_recs + 1
           E == {j \in H : Cardinality({i \in H : i < j}) < more}
<1>1. /\ policy_max_recs \in Nat /\ H \in SUBSET Int /\ IsFiniteSet(H)
      /\ Cardinality(H) \in Nat
  BY KeysFinite, HeapParameters, FS_CardinalityType DEF Typed
<1>2. Evicted(d, k) = IF ~ (policy_max_recs > 0 /\ d[k] = None) \/ more <= 0
                      THEN {} ELSE E
  BY DEF Evicted
<1>3. E \in SUBSET H
  OBVIOUS
<1>4. more \in Int
  BY <1>1
<1> HIDE DEF E
<1>5. CASE policy_max_recs > 0 /\ d[k] = None
  <2>1. k \notin H
    BY <1>5 DEF Held
  <2>2. CASE more <= 0
    <3>1. Evicted(d, k) = {} /\ H \ Evicted(d, k) = H
      BY <2>2, <1>2
    <3>2. Cardinality(H \cup {k}) = Cardinality(H) + 1
      BY <1>1, <2>1, FS_AddElement
    <3> QED BY <1>1, <2>2, <3>1, <3>2
  <2>3. CASE more > 0
    <3>1. Evicted(d, k) = E
      BY <1>2, <1>4, <1>5, <2>3
    <3>2. more \in 0..Cardinality(H)
      BY <1>1, <1>5, <2>3
    <3>3. Cardinality(E) = more
      <4> HIDE DEF H, more
      <4> QED BY <1>1, <3>2, SmallestCount DEF E
    <3>4. IsFiniteSet(E) /\ H \cap E = E
      BY <1>1, <1>3, FS_Subset
    <3>5. IsFiniteSet(H \ E) /\ Cardinality(H \ E) = Cardinality(H) - more
      <4> HIDE DEF H, more
      <4>1. IsFiniteSet(H \ E) /\ Cardinality(H \ E) = Cardinality(H) - Cardinality(H \cap E)
        BY <1>1, FS_Difference
      <4> QED BY <4>1, <3>3, <3>4
    <3>6. Cardinality((H \ E) \cup {k}) = Cardinality(H \ E) + 1
      BY <3>5, <2>1, FS_AddElement
    <3>7. Cardinality((H \ E) \cup {k}) = policy_max_recs
      BY <1>1, <3>5, <3>6
    <3> QED BY <1>1, <1>3, <1>5, <3>1, <3>7
  <2> QED BY <1>4, <2>2, <2>3
<1>6. CASE ~ (policy_max_recs > 0 /\ d[k] = None)
  BY <1>1, <1>2, <1>6
<1> QED BY <1>5, <1>6

\* What is held after a put.
LEMMA PutHeld ==
    ASSUME Typed, NEW k \in Keys, NEW p \in Payloads, Put(k, p)
    PROVE  LET P == Purged(Time("store"))
           IN  /\ Held(data') = (Held(P) \ Evicted(P, k)) \cup {k}
               /\ \A j \in Keys : (View(j) # None /\ data'[j] = None) =>
                      j \in Evicted(P, k)
<1> DEFINE P == Purged(Time("store"))
           E == Evicted(P, k)
           ts == Time("caller") + p.ahead
<1>1. ts \in Nat
  <2>1. Time("caller") \in Nat /\ p.ahead \in Int /\ ts >= 0
    BY TimeIsNat, HeapParameters DEF Put
  <2> QED BY <2>1
<1>2. data' = [j \in Keys |->
                IF j = k THEN [val |-> p.val, timestamp |-> ts, ttl |-> p.ttl]
                ELSE IF j \in E THEN None ELSE P[j]]
  BY DEF Put
<1>3. ASSUME NEW j \in Keys, View(j) # None PROVE P[j] # None
  BY <1>3 DEF View, Purged
<1> HIDE DEF P, E, ts
<1>4. data'[k] # None
  BY <1>1, <1>2, RecordNotNone
<1>5. \A j \in Keys \ {k} : data'[j] = IF j \in E THEN None ELSE P[j]
  BY <1>2
<1>6. Held(data') = (Held(P) \ E) \cup {k}
  BY <1>4, <1>5 DEF Held
<1>7. \A j \in Keys : (View(j) # None /\ data'[j] = None) => j \in E
  BY <1>3, <1>4, <1>5
<1> QED BY <1>6, <1>7 DEF P, E

\* A put makes room only for a new key, evicts no more than it must and
\* leaves the limit met; a record that can be read goes in no other way than
\* by a put, a removal or clear() (HeapStore.h:96-99).
THEOREM HeapEvictsOnlyWhenFull == Spec => EvictsOnlyWhenFull
<1> DEFINE lost == {k \in Keys : View(k) # None /\ data'[k] = None}
           new == IF call' = "put" /\ data' # data
                  THEN Held(data') \ Held(Purged(Time("store"))) ELSE {}
           full == policy_max_recs > 0 /\ Cardinality(Held(data')) >= policy_max_recs
           A == /\ new # {} /\ full => Cardinality(Held(data')) = policy_max_recs
                /\ lost # {} => (new # {} /\ full) \/ call' \in {"remove", "clear"}
<1>1. Typed /\ [Next]_vars => [A]_vars
  <2> SUFFICES ASSUME Typed, [Next]_vars PROVE A
    OBVIOUS
  <2>1. ASSUME new = {}, lost = {} PROVE A
    BY <2>1
  <2>2. ASSUME data' = data PROVE A
    <3>1. new = {} /\ lost = {}
      BY <2>2 DEF View
    <3> QED BY <3>1
  <2>3. ASSUME NEW k \in Keys, NEW p \in Payloads, Put(k, p), data' # data PROVE A
    <3> DEFINE P == Purged(Time("store"))
               E == Evicted(P, k)
    <3>1. Held(data') = (Held(P) \ E) \cup {k} /\ lost \subseteq E
      BY <2>3, PutHeld
    <3>2. call' = "put" /\ new = Held(data') \ Held(P)
      BY <2>3 DEF Put, Calls
    <3>3. /\ P[k] # None \/ policy_max_recs = 0 => E = {}
          /\ E # {} => Cardinality((Held(P) \ E) \cup {k}) = policy_max_recs
          /\ (P[k] = None /\ policy_max_recs > 0) =>
                Cardinality((Held(P) \ E) \cup {k}) <= policy_max_recs
          /\ policy_max_recs \in Nat
      BY EvictedCount, HeapParameters DEF Typed
    <3>4. new = IF P[k] = None THEN {k} ELSE {}
      BY <3>1, <3>2 DEF Held
    <3>5. IsFiniteSet(Held(data')) /\ Cardinality(Held(data')) \in Nat
      BY KeysFinite, FS_CardinalityType
    <3> HIDE DEF P, E, lost, new
    <3>6. ASSUME new # {}, full PROVE Cardinality(Held(data')) = policy_max_recs
      BY <3>1, <3>3, <3>4, <3>5, <3>6
    <3>7. ASSUME lost # {} PROVE new # {} /\ full
      BY <3>1, <3>3, <3>4, <3>5, <3>7
    <3> QED BY <3>6, <3>7
  <2>4. ASSUME NEW k \in Keys, Get(k) PROVE A
    <3>1. /\ new = {}
          /\ data' = [data EXCEPT ![k] = IF Expired(@, Time("store")) THEN None ELSE @]
      BY <2>4 DEF Get, Calls
    <3>2. lost = {}
      BY <3>1 DEF View, Typed, HoldsRecords
    <3> QED BY <2>1, <3>1, <3>2
  <2>5. ASSUME NEW k \in Keys, Remove(k) PROVE A
    BY <2>5 DEF Remove, Calls
  <2>6. CASE Clear
    BY <2>6 DEF Clear, Calls
  <2>7. CASE (\E t \in TTLs : set_ttl_secs(t)) \/ (\E n \in Limits : set_max_recs(n))
    BY <2>2, <2>7 DEF set_ttl_secs, set_max_recs
  <2>8. CASE Begin \/ Advance \/ Finish
    BY <2>2, <2>8 DEF Begin, Advance, Finish
  <2>9. CASE UNCHANGED heap \/ UNCHANGED vars
    BY <2>2, <2>9 DEF heap, vars
  <2> HIDE DEF A
  <2> QED BY <2>2, <2>3, <2>4, <2>5, <2>6, <2>7, <2>8, <2>9 DEF Next, Mutate, Read
<1> QED BY <1>1, HeapTyped, PTL DEF Spec, EvictsOnlyWhenFull

---------------------------------------------------------------------------
(* All of it together                                                      *)

\* While stamps are honest, the map, what callers expect of it and what an
\* iterator has given belong together, through reads in the middle of an
\* iteration that erase what has expired (HeapStore.h:142, TypedStore.h:97-131).
THEOREM HeapInvariant == HonestStamps => (Spec => []HInv)
<1> SUFFICES ASSUME HonestStamps PROVE Spec => []HInv
  OBVIOUS
<1>1. Init => HInv
  BY TypedParameters DEF Init, HeapInit, HInv, GivenSoFar, Given, Blank, Remembered,
                         StampsPassed, Held
<1>2. Typed /\ HInv /\ [Next]_vars => HInv'
  BY GivenNext, RememberedNext DEF HInv
<1> QED BY <1>1, <1>2, HeapTyped, PTL DEF Spec

=============================================================================
