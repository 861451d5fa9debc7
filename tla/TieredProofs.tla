---------------------------- MODULE TieredProofs ----------------------------
(***************************************************************************)
(* Theorems about TypedTieredStore for every value of the constants: any   *)
(* keys, payloads and hash function, any number of slots, any limits of    *)
(* the second level.                                                       *)
(***************************************************************************)
EXTENDS TieredStoreProperties, FiniteSetTheorems, WellFoundedInduction, TLAPS

---------------------------------------------------------------------------
(* Recursion over numbers                                                  *)

Less == {ss \in Nat \X Nat : ss[1] < ss[2]}

\* A set of numbers that has 0 and every successor has them all.
LEMMA AllNumbers ==
    ASSUME NEW S, 0 \in S, \A n \in Nat : n \in S => n + 1 \in S
    PROVE  Nat \subseteq S
<1> SUFFICES ASSUME Nat \ S # {} PROVE FALSE
  OBVIOUS
<1>1. PICK m \in Nat \ S : \A n \in Nat \ S : ~ (<<n, m>> \in Less)
  <2>1. IsWellFoundedOn(Less, Nat)
    BY NatLessThanWellFounded DEF OpToRel, Less
  <2> QED BY <2>1, WFMin
<1>2. m - 1 \in Nat /\ m - 1 < m
  OBVIOUS
<1>3. m - 1 \in S
  BY <1>1, <1>2 DEF Less
<1> QED BY <1>2, <1>3

\* f starts at x and applies G at each step.
Iterated(f, X, x, G, N) ==
    f \in [0..N -> X] /\ f[0] = x /\ \A n \in 1..N : f[n] = G[<<f[n - 1], n>>]

\* Such a function exists.
LEMMA Iterates ==
    ASSUME NEW X, NEW x \in X, NEW G \in [X \X Nat -> X], NEW N \in Nat
    PROVE  \E f : Iterated(f, X, x, G, N)
<1> DEFINE Upto(n) == \E f \in [0..n -> X] :
               f[0] = x /\ \A m \in 1..n : f[m] = G[<<f[m - 1], m>>]
           S == {n \in Nat : Upto(n)}
<1>1. 0 \in S
  <2> DEFINE f == [m \in 0..0 |-> x]
  <2>1. f \in [0..0 -> X] /\ f[0] = x /\ 1..0 = {}
    OBVIOUS
  <2> QED BY <2>1
<1>2. ASSUME NEW n \in Nat, n \in S PROVE n + 1 \in S
  <2>1. PICK f \in [0..n -> X] :
            f[0] = x /\ \A m \in 1..n : f[m] = G[<<f[m - 1], m>>]
    BY <1>2
  <2> DEFINE g == [m \in 0..n + 1 |-> IF m = n + 1 THEN G[<<f[n], m>>] ELSE f[m]]
  <2>2. g \in [0..n + 1 -> X]
    BY <2>1
  <2>3. g[0] = x /\ \A m \in 1..n + 1 : g[m] = G[<<g[m - 1], m>>]
    <3>1. g[0] = x
      BY <2>1
    <3>2. ASSUME NEW m \in 1..n + 1 PROVE g[m] = G[<<g[m - 1], m>>]
      <4>1. m - 1 \in 0..n /\ m - 1 # n + 1 /\ g[m - 1] = f[m - 1]
        OBVIOUS
      <4>2. CASE m = n + 1
        BY <4>1, <4>2
      <4>3. CASE m # n + 1
        BY <4>1, <4>3, <2>1
      <4> QED BY <4>2, <4>3
    <3> QED BY <3>1, <3>2
  <2> HIDE DEF g
  <2>4. Upto(n + 1)
    BY <2>2, <2>3
  <2> QED BY <2>4
<1>3. N \in S
  <2> HIDE DEF S
  <2> QED BY <1>1, <1>2, AllNumbers
<1> QED BY <1>3 DEF Iterated

---------------------------------------------------------------------------
(* Walking along pointers                                                  *)

Link == Slots \cup {Invalid}

\* A walk follows a pointer at every step.
LEMMA WalkSteps ==
    ASSUME NEW start \in Link, NEW follow \in [Slots -> Link]
    PROVE  LET at == Walk(start, follow)
           IN  /\ at \in [0..Capacity -> Link]
               /\ at[0] = start
               /\ \A n \in 1..Capacity :
                    at[n] = IF at[n - 1] = Invalid THEN Invalid ELSE follow[at[n - 1]]
<1> DEFINE G == [q \in Link \X Nat |-> IF q[1] = Invalid THEN Invalid ELSE follow[q[1]]]
           Body(at) == [n \in 0..Capacity |->
                          IF n = 0 THEN start
                          ELSE IF at[n - 1] = Invalid THEN Invalid ELSE follow[at[n - 1]]]
<1>1. Capacity \in Nat /\ Invalid \in Link
  BY CacheParameters DEF Link
<1>2. G \in [Link \X Nat -> Link]
  BY DEF Link
<1>3. PICK f \in [0..Capacity -> Link] :
          f[0] = start /\ \A n \in 1..Capacity : f[n] = G[<<f[n - 1], n>>]
  <2> HIDE DEF G
  <2>1. \E f : Iterated(f, Link, start, G, Capacity)
    BY <1>1, <1>2, Iterates
  <2> QED BY <2>1 DEF Iterated
<1>4. f = Body(f)
  <2>1. ASSUME NEW n \in 0..Capacity PROVE f[n] = Body(f)[n]
    <3>1. CASE n = 0
      BY <1>3, <3>1
    <3>2. CASE n # 0
      <4>1. n \in 1..Capacity /\ n - 1 \in 0..Capacity /\ n \in Nat
        BY <1>1, <3>2
      <4>2. f[n - 1] \in Link
        BY <4>1
      <4> QED BY <1>3, <4>1, <4>2, <3>2
    <3> QED BY <3>1, <3>2
  <2> QED BY <2>1
<1>5. Walk(start, follow) = Body(Walk(start, follow))
  <2> HIDE DEF Body
  <2>1. Walk(start, follow) = CHOOSE at : at = Body(at)
    BY DEF Walk, Body
  <2> QED BY <1>4, <2>1
<1> DEFINE at == Walk(start, follow)
<1>6. at = Body(at)
  BY <1>5
<1> HIDE DEF at
<1>7. DOMAIN at = 0..Capacity /\ at[0] = start
  BY <1>6, <1>1
<1>8. \A n \in 1..Capacity :
          at[n] = IF at[n - 1] = Invalid THEN Invalid ELSE follow[at[n - 1]]
  BY <1>6, <1>1
<1>9. \A n \in 0..Capacity : at[n] = f[n]
  <2> DEFINE S == {n \in Nat : n \in 0..Capacity => at[n] = f[n]}
  <2>1. 0 \in S
    BY <1>7, <1>3
  <2>2. ASSUME NEW n \in Nat, n \in S PROVE n + 1 \in S
    <3> SUFFICES ASSUME n + 1 \in 0..Capacity PROVE at[n + 1] = f[n + 1]
      OBVIOUS
    <3>1. n \in 0..Capacity /\ n + 1 \in 1..Capacity /\ (n + 1) - 1 = n
      BY <1>1
    <3>2. f[n] \in Link /\ at[n] = f[n]
      BY <3>1, <2>2
    <3>3. f[n + 1] = IF f[n] = Invalid THEN Invalid ELSE follow[f[n]]
      <4>1. f[n + 1] = G[<<f[n], n + 1>>]
        <5> HIDE DEF G
        <5> QED BY <1>3, <3>1
      <4>2. <<f[n], n + 1>> \in Link \X Nat
        BY <3>2
      <4> QED BY <4>1, <4>2
    <3> QED BY <1>8, <3>1, <3>2, <3>3
  <2>3. Nat \subseteq S
    <3> HIDE DEF S
    <3> QED BY <2>1, <2>2, AllNumbers
  <2> QED BY <2>3
<1>10. at \in [0..Capacity -> Link]
  BY <1>7, <1>9, <1>6
<1> QED BY <1>7, <1>8, <1>10 DEF at

---------------------------------------------------------------------------
(* A list threaded through the slots of M: each of them has a rank, and    *)
(* its pointer leads to the next lower one                                 *)

Highest(M, h, i) ==
    IF i = Invalid THEN M = {} ELSE i \in M /\ \A j \in M : h[j] <= h[i]

Under(M, h, i) == {j \in M : h[j] < h[i]}

Ranks == [Slots -> Int]

Threaded(first, follow, M, h) ==
    /\ h \in Ranks /\ \A i, j \in M : h[i] = h[j] => i = j
    /\ Highest(M, h, first)
    /\ \A i \in M : Highest(Under(M, h, i), h, follow[i])

\* Slots are numbers, and Invalid is none of them.
LEMMA SlotNumbers == Slots \in SUBSET Nat /\ Invalid \notin Slots /\ Capacity \in Nat
BY CacheParameters DEF Slots, Invalid

\* Only the pointers and the ranks of M matter.
LEMMA ThreadSame ==
    ASSUME NEW M, NEW first, NEW follow, NEW f, NEW h, NEW g \in Ranks,
           Threaded(first, follow, M, h),
           \A i \in M : f[i] = follow[i] /\ g[i] = h[i]
    PROVE  Threaded(first, f, M, g)
<1>1. \A i \in M : Under(M, g, i) = Under(M, h, i)
  BY DEF Under
<1> QED BY <1>1 DEF Threaded, Highest, Under

\* A new first slot, of a higher rank.
LEMMA ThreadFront ==
    ASSUME NEW M \in SUBSET Slots, NEW first, NEW follow, NEW f, NEW h, NEW g \in Ranks,
           NEW i \in Slots, i \notin M, Threaded(first, follow, M, h),
           \A j \in M : f[j] = follow[j] /\ g[j] = h[j] /\ h[j] < g[i],
           f[i] = first
    PROVE  Threaded(i, f, M \cup {i}, g)
<1> USE DEF Threaded, Highest, Ranks
<1>1. \A j, k \in M \cup {i} : g[j] = g[k] => j = k
  OBVIOUS
<1>2. Highest(M \cup {i}, g, i)
  BY SlotNumbers
<1>3. Under(M \cup {i}, g, i) = M /\ \A j \in M : Under(M \cup {i}, g, j) = Under(M, h, j)
  BY DEF Under
<1>4. Highest(M, g, first)
  OBVIOUS
<1>5. ASSUME NEW j \in M PROVE Highest(Under(M, h, j), g, follow[j])
  BY DEF Under
<1> QED BY <1>1, <1>2, <1>3, <1>4, <1>5

\* A new last slot, of a lower rank; l was the last.
LEMMA ThreadBack ==
    ASSUME NEW M \in SUBSET Slots, NEW first, NEW follow, NEW f, NEW h, NEW g \in Ranks,
           NEW i \in Slots, i \notin M, Threaded(first, follow, M, h),
           \A j \in M : g[j] = h[j] /\ g[i] < h[j],
           NEW l, IF l = Invalid THEN M = {} ELSE l \in M /\ \A j \in M : h[l] <= h[j],
           \A j \in M : f[j] = IF j = l THEN i ELSE follow[j],
           f[i] = Invalid
    PROVE  Threaded(IF first = Invalid THEN i ELSE first, f, M \cup {i}, g)
<1> USE DEF Threaded, Highest, Ranks
<1>1. \A j, k \in M \cup {i} : g[j] = g[k] => j = k
  OBVIOUS
<1>2. Highest(M \cup {i}, g, IF first = Invalid THEN i ELSE first)
  <2>1. CASE first = Invalid
    BY <2>1, SlotNumbers
  <2>2. CASE first # Invalid
    <3>1. first \in M /\ \A j \in M : g[j] <= g[first]
      BY <2>2
    <3>2. g[i] < g[first] /\ g[i] \in Int /\ g[first] \in Int
      BY <3>1
    <3> QED BY <2>2, <3>1, <3>2
  <2> QED BY <2>1, <2>2
<1>3. Under(M \cup {i}, g, i) = {}
  BY DEF Under
<1>4. ASSUME NEW j \in M PROVE Highest(Under(M \cup {i}, g, j), g, f[j])
  <2>1. Under(M \cup {i}, g, j) = Under(M, h, j) \cup {i}
    BY DEF Under
  <2>2. CASE j = l
    <3>1. Under(M, h, j) = {}
      BY <2>2 DEF Under
    <3> QED BY <2>1, <2>2, <3>1, SlotNumbers
  <2>3. CASE j # l
    <3>1. l \in M /\ l \in Under(M, h, j)
      BY <2>3 DEF Under
    <3>2. follow[j] # Invalid /\ follow[j] \in Under(M, h, j)
      BY <3>1
    <3>3. \A k \in Under(M, h, j) \cup {i} : g[k] <= g[follow[j]]
      BY <3>2 DEF Under
    <3> QED BY <2>1, <2>3, <3>2, <3>3
  <2> QED BY <2>2, <2>3
<1> QED BY <1>1, <1>2, <1>3, <1>4

\* Slot i is taken out: what pointed to it points to the next one.
LEMMA ThreadOut ==
    ASSUME NEW M \in SUBSET Slots, NEW first, NEW follow, NEW f, NEW h, NEW i \in M,
           Threaded(first, follow, M, h),
           \A j \in M \ {i} : f[j] = IF follow[j] = i THEN follow[i] ELSE follow[j]
    PROVE  Threaded(IF first = i THEN follow[i] ELSE first, f, M \ {i}, h)
<1> USE DEF Threaded, Highest, Ranks
<1>1. i \in Slots /\ i # Invalid
  BY SlotNumbers
<1>2. Highest(Under(M, h, i), h, follow[i])
  OBVIOUS
<1>3. Highest(M \ {i}, h, IF first = i THEN follow[i] ELSE first)
  <2>1. CASE first = i
    <3>1. M \ {i} = Under(M, h, i)
      BY <1>1, <2>1 DEF Under
    <3> QED BY <1>2, <2>1, <3>1
  <2>2. CASE first # i
    BY <1>1, <2>2
  <2> QED BY <2>1, <2>2
<1>4. ASSUME NEW j \in M \ {i} PROVE Highest(Under(M \ {i}, h, j), h, f[j])
  <2>1. Highest(Under(M, h, j), h, follow[j]) /\ Under(M \ {i}, h, j) = Under(M, h, j) \ {i}
    BY DEF Under
  <2>2. CASE follow[j] = i
    <3>1. i \in Under(M, h, j) /\ \A k \in Under(M, h, j) : h[k] <= h[i]
      BY <1>1, <2>1, <2>2
    <3>2. Under(M, h, j) \ {i} = Under(M, h, i)
      BY <3>1 DEF Under
    <3> QED BY <1>2, <2>1, <2>2, <3>2
  <2>3. CASE follow[j] # i
    BY <2>1, <2>3
  <2> QED BY <2>2, <2>3
<1> QED BY <1>3, <1>4

\* The walk along such a list visits M, from the highest rank down.
LEMMA ThreadWalk ==
    ASSUME NEW M \in SUBSET Slots, NEW first \in Link, NEW follow \in [Slots -> Link], NEW h,
           Threaded(first, follow, M, h)
    PROVE  /\ Visits(Walk(first, follow), M)
           /\ DOMAIN Walk(first, follow) = 0..Capacity
           /\ \A m, n \in 0..Capacity :
                  LET at == Walk(first, follow)
                  IN  at[m] \in M /\ at[n] \in M => (m < n <=> h[at[m]] > h[at[n]])
<1> DEFINE at == Walk(first, follow)
<1>0. /\ at \in [0..Capacity -> Link] /\ at[0] = first
      /\ \A n \in 1..Capacity :
            at[n] = IF at[n - 1] = Invalid THEN Invalid ELSE follow[at[n - 1]]
  BY WalkSteps
<1> HIDE DEF at
<1>t. /\ h \in Ranks /\ \A i, j \in M : h[i] = h[j] => i = j
      /\ Highest(M, h, first)
      /\ \A i \in M : Highest(Under(M, h, i), h, follow[i])
  BY DEF Threaded
<1>n. Capacity \in Nat /\ Invalid \notin M /\ \A i \in M : h[i] \in Int
  BY SlotNumbers, <1>t DEF Ranks
\* Each stop is a slot of M, below the stops before it.
<1> DEFINE Down(n) == /\ at[n] \in M \cup {Invalid}
                      /\ \A m \in 0..n - 1 :
                            at[n] # Invalid => at[m] \in M /\ h[at[m]] > h[at[n]]
<1>1. \A n \in 0..Capacity : Down(n)
  <2> DEFINE S == {n \in Nat : n \in 0..Capacity => Down(n)}
  <2>1. 0 \in S
    BY <1>0, <1>t DEF Highest
  <2>2. ASSUME NEW n \in Nat, n \in S PROVE n + 1 \in S
    <3> SUFFICES ASSUME n + 1 \in 0..Capacity PROVE Down(n + 1)
      OBVIOUS
    <3>1. n \in 0..Capacity /\ n + 1 \in 1..Capacity /\ (n + 1) - 1 = n
      BY <1>n
    <3>2. Down(n)
      BY <3>1, <2>2
    <3>3. at[n + 1] = IF at[n] = Invalid THEN Invalid ELSE follow[at[n]]
      BY <3>1, <1>0
    <3>4. CASE at[n] = Invalid
      BY <3>1, <3>3, <3>4
    <3>5. CASE at[n] # Invalid
      <4>1. at[n] \in M /\ Highest(Under(M, h, at[n]), h, follow[at[n]])
        BY <3>2, <3>5, <1>t
      <4>2. at[n + 1] = follow[at[n]]
        BY <3>3, <3>5
      <4>3. at[n + 1] # Invalid => at[n + 1] \in M /\ h[at[n + 1]] < h[at[n]]
        BY <4>1, <4>2 DEF Highest, Under
      <4>4. ASSUME NEW m \in 0..n, at[n + 1] # Invalid
            PROVE  at[m] \in M /\ h[at[m]] > h[at[n + 1]]
        <5>1. CASE m = n
          BY <5>1, <4>1, <4>3, <4>4, <1>n
        <5>2. CASE m # n
          <6>1. m \in 0..n - 1 /\ at[n] # Invalid
            BY <3>1, <5>2, <3>5
          <6>2. at[m] \in M /\ h[at[m]] > h[at[n]]
            BY <6>1, <3>2
          <6> QED BY <6>2, <4>1, <4>3, <4>4, <1>n
        <5> QED BY <5>1, <5>2
      <4> QED BY <4>3, <4>4, <3>1
    <3> QED BY <3>4, <3>5
  <2>3. Nat \subseteq S
    <3> HIDE DEF S
    <3> QED BY <2>1, <2>2, AllNumbers
  <2> QED BY <2>3
<1>2. \A m, n \in 0..Capacity :
          at[m] \in M /\ at[n] \in M => (m < n <=> h[at[m]] > h[at[n]])
  <2> SUFFICES ASSUME NEW m \in 0..Capacity, NEW n \in 0..Capacity, at[m] \in M, at[n] \in M
               PROVE  m < n <=> h[at[m]] > h[at[n]]
    OBVIOUS
  <2>1. Down(m) /\ Down(n) /\ at[m] # Invalid /\ at[n] # Invalid
    BY <1>1, <1>n
  <2>2. h[at[m]] \in Int /\ h[at[n]] \in Int
    BY <1>n
  <2>3. m < n => h[at[m]] > h[at[n]]
    BY <2>1, <1>n
  <2>4. n < m => h[at[n]] > h[at[m]]
    BY <2>1, <1>n
  <2>5. m = n => h[at[n]] = h[at[m]]
    OBVIOUS
  <2>6. m < n \/ n < m \/ m = n
    BY <1>n
  <2> QED BY <2>2, <2>3, <2>4, <2>5, <2>6
<1>3. \A m, n \in 0..Capacity : at[m] = at[n] /\ at[m] \in M => m = n
  BY <1>2, <1>n
\* It comes to an end, for there are more steps than slots.
<1>4. \E n \in 0..Capacity : at[n] = Invalid
  <2> SUFFICES ASSUME \A n \in 0..Capacity : at[n] # Invalid PROVE FALSE
    OBVIOUS
  <2>1. \A n \in 0..Capacity : at[n] \in M
    BY <1>1
  <2>2. at \in [0..Capacity -> Slots]
    BY <1>0, <2>1
  <2>3. IsFiniteSet(Slots) /\ Cardinality(Slots) = Capacity
    BY <1>n, FS_Interval DEF Slots
  <2>4. IsFiniteSet(0..Capacity) /\ Cardinality(0..Capacity) = Capacity + 1
    BY <1>n, FS_Interval
  <2>5. Cardinality(Slots) < Cardinality(0..Capacity)
    BY <2>3, <2>4, <1>n
  <2>6. \E x, y \in 0..Capacity : x # y /\ at[x] = at[y]
    BY <2>2, <2>3, <2>4, <2>5, FS_PigeonHole
  <2> QED BY <2>1, <2>6, <1>3
\* And not before it has been everywhere: a slot left out stays below it.
<1>5. ASSUME NEW i \in M PROVE \E n \in 0..Capacity : at[n] = i
  <2> SUFFICES ASSUME \A n \in 0..Capacity : at[n] # i PROVE FALSE
    OBVIOUS
  <2> DEFINE S == {n \in Nat : n \in 0..Capacity => at[n] \in M /\ h[i] < h[at[n]]}
  <2>1. 0 \in S
    <3>1. at[0] \in M /\ h[i] <= h[at[0]]
      BY <1>0, <1>t DEF Highest
    <3> QED BY <3>1, <1>n, <1>t
  <2>2. ASSUME NEW n \in Nat, n \in S PROVE n + 1 \in S
    <3> SUFFICES ASSUME n + 1 \in 0..Capacity PROVE at[n + 1] \in M /\ h[i] < h[at[n + 1]]
      OBVIOUS
    <3>1. n \in 0..Capacity /\ n + 1 \in 1..Capacity /\ (n + 1) - 1 = n
      BY <1>n
    <3>2. at[n] \in M /\ h[i] < h[at[n]] /\ at[n] # Invalid
      BY <3>1, <2>2, <1>n
    <3>3. at[n + 1] = follow[at[n]]
      BY <3>1, <3>2, <1>0
    <3>4. i \in Under(M, h, at[n]) /\ Highest(Under(M, h, at[n]), h, follow[at[n]])
      BY <3>2, <1>t DEF Under
    <3>5. at[n + 1] \in M /\ h[i] <= h[at[n + 1]]
      BY <3>3, <3>4 DEF Highest, Under
    <3> QED BY <3>5, <1>n, <1>t
  <2>3. Nat \subseteq S
    <3> HIDE DEF S
    <3> QED BY <2>1, <2>2, AllNumbers
  <2>4. \A n \in 0..Capacity : at[n] \in M
    BY <2>3
  <2> QED BY <2>4, <1>4, <1>n
<1>6. DOMAIN at = 0..Capacity /\ Range(at) = M \cup {Invalid}
  <2>1. DOMAIN at = 0..Capacity
    BY <1>0
  <2>2. \A n \in 0..Capacity : at[n] \in M \cup {Invalid}
    BY <1>1
  <2> QED BY <2>1, <2>2, <1>4, <1>5 DEF Range
<1>7. \A m, n \in DOMAIN at : at[m] = at[n] => m = n \/ at[m] = Invalid
  BY <1>1, <1>3, <1>6
<1>8. Visits(at, M)
  BY <1>6, <1>7 DEF Visits
<1> QED BY <1>2, <1>6, <1>8 DEF at

---------------------------------------------------------------------------
(* The list and the chains of a cache                                      *)

Cache == [slots : [Slots -> Slot], buckets : [Buckets -> Link], head : Link, tail : Link]

Nexts(c) == [i \in Slots |-> c.slots[i].next]
Prevs(c) == [i \in Slots |-> c.slots[i].prev]
HashNexts(c) == [i \in Slots |-> c.slots[i].hash_next]

Reversed(h) == [i \in Slots |-> 0 - h[i]]

InBucket(c, M, b) == {i \in M : Hash[c.slots[i].key] = b}

\* The slots of M, and no others, are on the list in the order of h, ...
ListOf(c, M, h) ==
    /\ Threaded(c.head, Nexts(c), M, h)
    /\ Threaded(c.tail, Prevs(c), M, Reversed(h))

\* ... and on the chains of their buckets in the order of g.
ChainsOf(c, M, g) ==
    \A b \in Buckets : Threaded(c.buckets[b], HashNexts(c), InBucket(c, M, b), g)

\* What a slot holds, but for the pointers.
SameData(s, t) ==
    /\ s.key = t.key /\ s.val = t.val
    /\ s.expires_at = t.expires_at /\ s.priority = t.priority
    /\ s.valid = t.valid /\ s.dirty = t.dirty /\ s.in_l2 = t.in_l2

\* What the pointers of a cache may be.
LEMMA CacheTypes ==
    ASSUME NEW c \in Cache
    PROVE  /\ c.head \in Link /\ c.tail \in Link
           /\ Nexts(c) \in [Slots -> Link] /\ Prevs(c) \in [Slots -> Link]
           /\ HashNexts(c) \in [Slots -> Link]
           /\ \A b \in Buckets : c.buckets[b] \in Link
BY DEF Cache, Slot, Link, Nexts, Prevs, HashNexts

\* Reversed turns the order of the ranks around.
LEMMA ReversedRanks ==
    ASSUME NEW h \in Ranks
    PROVE  /\ Reversed(h) \in Ranks
           /\ \A i, j \in Slots : Reversed(h)[i] < Reversed(h)[j] <=> h[j] < h[i]
           /\ \A i, j \in Slots : Reversed(h)[i] <= Reversed(h)[j] <=> h[j] <= h[i]
BY DEF Reversed, Ranks

\* prev is the inverse of next.
LEMMA PrevInverse ==
    ASSUME NEW c, NEW M \in SUBSET Slots, NEW h, ListOf(c, M, h), NEW i \in M, NEW j \in M
    PROVE  c.slots[i].next = j <=> c.slots[j].prev = i
<1>1. h \in Ranks /\ i \in Slots /\ j \in Slots /\ Invalid \notin M
  BY SlotNumbers DEF ListOf, Threaded
<1>2. /\ Highest(Under(M, h, i), h, c.slots[i].next)
      /\ Highest(Under(M, Reversed(h), j), Reversed(h), c.slots[j].prev)
      /\ \A k, l \in M : h[k] = h[l] => k = l
  BY <1>1 DEF ListOf, Threaded, Nexts, Prevs
<1>3. Under(M, Reversed(h), j) = {k \in M : h[j] < h[k]}
  BY <1>1, ReversedRanks DEF Under
<1>4. \A k \in M : h[k] \in Int
  BY <1>1 DEF Ranks
<1>5. ASSUME c.slots[i].next = j PROVE c.slots[j].prev = i
  <2>1. h[j] < h[i] /\ \A k \in M : h[k] < h[i] => h[k] <= h[j]
    BY <1>1, <1>2, <1>5 DEF Highest, Under
  <2>2. c.slots[j].prev \in M /\ h[j] < h[c.slots[j].prev]
    BY <1>1, <1>2, <1>3, <2>1 DEF Highest
  <2>3. Reversed(h)[i] <= Reversed(h)[c.slots[j].prev]
    BY <1>1, <1>2, <1>3, <2>1 DEF Highest
  <2>4. h[c.slots[j].prev] <= h[i]
    BY <1>1, <2>2, <2>3, ReversedRanks
  <2>5. ~ (h[c.slots[j].prev] < h[i])
    BY <1>4, <2>1, <2>2
  <2> QED BY <1>2, <1>4, <2>2, <2>4, <2>5
<1>6. ASSUME c.slots[j].prev = i PROVE c.slots[i].next = j
  <2>1. h[j] < h[i]
    BY <1>1, <1>2, <1>3, <1>6 DEF Highest
  <2>2. \A k \in M : h[j] < h[k] => Reversed(h)[k] <= Reversed(h)[i]
    BY <1>1, <1>2, <1>3, <1>6 DEF Highest
  <2>3. \A k \in M : h[j] < h[k] => h[i] <= h[k]
    BY <1>1, <2>2, ReversedRanks
  <2>4. c.slots[i].next \in M /\ h[c.slots[i].next] < h[i] /\ h[j] <= h[c.slots[i].next]
    BY <1>1, <1>2, <2>1 DEF Highest, Under
  <2>5. ~ (h[j] < h[c.slots[i].next])
    BY <1>4, <2>3, <2>4
  <2> QED BY <1>2, <1>4, <2>4, <2>5
<1> QED BY <1>5, <1>6

\* d is c after link_lru_front_ has made slot i the first of the list.
AtFront(c, d, i) ==
    /\ d \in Cache /\ d.buckets = c.buckets
    /\ \A j \in Slots : /\ SameData(d.slots[j], c.slots[j])
                        /\ d.slots[j].hash_next = c.slots[j].hash_next
    /\ d.head = i
    /\ d.tail = IF c.tail = Invalid THEN i ELSE c.tail
    /\ \A j \in Slots : d.slots[j].next = IF j = i THEN c.head ELSE c.slots[j].next
    /\ \A j \in Slots : d.slots[j].prev = IF j = i THEN Invalid
                           ELSE IF j = c.head THEN i ELSE c.slots[j].prev

\* link_lru_front_ does this.
LEMMA FrontEffect ==
    ASSUME NEW c \in Cache, NEW i \in Slots
    PROVE  AtFront(c, LinkFront(c, i), i)
<1> DEFINE new(j) == [c.slots[j] EXCEPT
                        !.prev = IF j = i THEN Invalid ELSE IF j = c.head THEN i ELSE @,
                        !.next = IF j = i THEN c.head ELSE @]
           d == LinkFront(c, i)
<1>1. c.head \in Link /\ c.tail \in Link /\ i \in Link /\ Invalid \in Link
  BY CacheTypes DEF Link
<1>2. ASSUME NEW j \in Slots
      PROVE  /\ new(j) \in Slot /\ SameData(new(j), c.slots[j])
             /\ new(j).hash_next = c.slots[j].hash_next
             /\ new(j).next = IF j = i THEN c.head ELSE c.slots[j].next
             /\ new(j).prev = IF j = i THEN Invalid
                              ELSE IF j = c.head THEN i ELSE c.slots[j].prev
  <2>1. c.slots[j] \in Slot
    BY DEF Cache
  <2> QED BY <1>1, <2>1 DEF Slot, Link, SameData
<1> DEFINE slots == [j \in Slots |-> new(j)]
           tail == IF c.tail = Invalid THEN i ELSE c.tail
<1>3. d = [c EXCEPT !.slots = slots, !.head = i, !.tail = tail]
  BY DEF LinkFront
<1>4. slots \in [Slots -> Slot] /\ tail \in Link
  BY <1>1, <1>2
<1> HIDE DEF slots, tail, d
<1>5. d \in Cache
  BY <1>1, <1>3, <1>4 DEF Cache
<1>6. d.slots = slots /\ d.buckets = c.buckets /\ d.head = i /\ d.tail = tail
  BY <1>3 DEF Cache
<1>7. \A j \in Slots : d.slots[j] = new(j)
  BY <1>6 DEF slots
<1> HIDE DEF new
<1> QED BY <1>2, <1>5, <1>6, <1>7 DEF AtFront, d, tail

\* link_lru_front_ puts slot i before all that are on the list.
LEMMA FrontListed ==
    ASSUME NEW c \in Cache, NEW M \in SUBSET Slots, NEW i \in Slots, i \notin M,
           NEW h, ListOf(c, M, h), NEW n \in Int, \A j \in M : h[j] < n
    PROVE  ListOf(LinkFront(c, i), M \cup {i}, [h EXCEPT ![i] = n])
<1> DEFINE d == LinkFront(c, i)
           g == [h EXCEPT ![i] = n]
<1>1. h \in Ranks /\ g \in Ranks /\ g[i] = n /\ \A j \in M : g[j] = h[j]
  BY DEF ListOf, Threaded, Ranks
<1>2. Threaded(d.head, Nexts(d), M \cup {i}, g)
  <2>1. d.head = i /\ Nexts(d)[i] = c.head /\ \A j \in M : Nexts(d)[j] = Nexts(c)[j]
    BY FrontEffect DEF Nexts, AtFront
  <2>2. Threaded(c.head, Nexts(c), M, h)
    BY DEF ListOf
  <2> HIDE DEF d, g
  <2>3. Threaded(i, Nexts(d), M \cup {i}, g)
    BY <1>1, <2>1, <2>2, ThreadFront
  <2> QED BY <2>1, <2>3
<1>3. Threaded(d.tail, Prevs(d), M \cup {i}, Reversed(g))
  <2> DEFINE rg == Reversed(g)
             rh == Reversed(h)
             f == Prevs(d)
             l == c.head
             first == c.tail
  <2>1. d.tail = (IF first = Invalid THEN i ELSE first) /\ f[i] = Invalid
    BY FrontEffect DEF Prevs, AtFront
  <2>2. \A j \in M : f[j] = IF j = l THEN i ELSE Prevs(c)[j]
    BY FrontEffect DEF Prevs, AtFront
  <2>3. Threaded(first, Prevs(c), M, rh)
    BY DEF ListOf
  <2>4. rg \in Ranks /\ \A j \in M : rg[j] = rh[j] /\ rg[i] < rh[j]
    BY <1>1 DEF Reversed, Ranks
  <2>5. IF l = Invalid THEN M = {} ELSE l \in M /\ \A j \in M : rh[l] <= rh[j]
    BY <1>1, ReversedRanks DEF ListOf, Threaded, Highest
  <2> HIDE DEF d, g, rg, rh, f, l, first
  <2>6. Threaded(IF first = Invalid THEN i ELSE first, f, M \cup {i}, rg)
    BY <2>2, <2>1, <2>3, <2>4, <2>5, ThreadBack
  <2> QED BY <2>1, <2>6 DEF rg, f
<1> QED BY <1>2, <1>3 DEF ListOf

\* d is c after unlink_lru_ has taken slot i out of the list.
Out(c, d, i) ==
    LET p == c.slots[i].prev
        n == c.slots[i].next
    IN  /\ d \in Cache /\ d.buckets = c.buckets
        /\ \A j \in Slots : /\ SameData(d.slots[j], c.slots[j])
                            /\ d.slots[j].hash_next = c.slots[j].hash_next
        /\ d.head = IF p = Invalid THEN n ELSE c.head
        /\ d.tail = IF n = Invalid THEN p ELSE c.tail
        /\ \A j \in Slots : d.slots[j].next = IF j = i THEN Invalid
                               ELSE IF j = p THEN n ELSE c.slots[j].next
        /\ \A j \in Slots : d.slots[j].prev = IF j = i THEN Invalid
                               ELSE IF j = n THEN p ELSE c.slots[j].prev

\* unlink_lru_ does this.
LEMMA OutEffect ==
    ASSUME NEW c \in Cache, NEW i \in Slots
    PROVE  Out(c, UnlinkLRU(c, i), i)
<1> DEFINE p == c.slots[i].prev
           n == c.slots[i].next
           new(j) == [c.slots[j] EXCEPT
                        !.prev = IF j = i THEN Invalid ELSE IF j = n THEN p ELSE @,
                        !.next = IF j = i THEN Invalid ELSE IF j = p THEN n ELSE @]
           slots == [j \in Slots |-> new(j)]
           head == IF p = Invalid THEN n ELSE c.head
           tail == IF n = Invalid THEN p ELSE c.tail
           d == UnlinkLRU(c, i)
<1>1. /\ c.head \in Link /\ c.tail \in Link /\ i \in Link /\ Invalid \in Link
      /\ p \in Link /\ n \in Link
  BY CacheTypes DEF Link, Cache, Slot
<1>2. ASSUME NEW j \in Slots
      PROVE  /\ new(j) \in Slot /\ SameData(new(j), c.slots[j])
             /\ new(j).hash_next = c.slots[j].hash_next
             /\ new(j).next = IF j = i THEN Invalid
                              ELSE IF j = p THEN n ELSE c.slots[j].next
             /\ new(j).prev = IF j = i THEN Invalid
                              ELSE IF j = n THEN p ELSE c.slots[j].prev
  <2> DEFINE before == IF j = i THEN Invalid ELSE IF j = n THEN p ELSE c.slots[j].prev
             after == IF j = i THEN Invalid ELSE IF j = p THEN n ELSE c.slots[j].next
  <2>1. c.slots[j] \in Slot
    BY DEF Cache
  <2>2. before \in Link /\ after \in Link
    BY <1>1, <2>1 DEF Slot, Link
  <2>3. new(j) = [c.slots[j] EXCEPT !.prev = before, !.next = after]
    BY <2>1 DEF Slot
  <2> HIDE DEF before, after, new
  <2>4. /\ new(j).prev = before /\ new(j).next = after
        /\ new(j).hash_next = c.slots[j].hash_next /\ SameData(new(j), c.slots[j])
    BY <2>1, <2>3 DEF Slot, SameData
  <2>5. new(j) \in Slot
    BY <2>1, <2>2, <2>3 DEF Slot, Link
  <2> QED BY <2>4, <2>5 DEF before, after
<1>3. d = [c EXCEPT !.slots = slots, !.head = head, !.tail = tail]
  BY DEF UnlinkLRU
<1>4. slots \in [Slots -> Slot] /\ head \in Link /\ tail \in Link
  BY <1>1, <1>2
<1> HIDE DEF slots, head, tail, d
<1>5. d \in Cache
  BY <1>1, <1>3, <1>4 DEF Cache
<1>6. d.slots = slots /\ d.buckets = c.buckets /\ d.head = head /\ d.tail = tail
  BY <1>3 DEF Cache
<1>7. \A j \in Slots : d.slots[j] = new(j)
  BY <1>6 DEF slots
<1> HIDE DEF new
<1> QED BY <1>2, <1>5, <1>6, <1>7 DEF Out, d, head, tail

\* unlink_lru_ leaves the others on the list.
LEMMA OutListed ==
    ASSUME NEW c \in Cache, NEW M \in SUBSET Slots, NEW i \in M, NEW h, ListOf(c, M, h)
    PROVE  ListOf(UnlinkLRU(c, i), M \ {i}, h)
<1> DEFINE d == UnlinkLRU(c, i)
           p == c.slots[i].prev
           n == c.slots[i].next
<1>1. i \in Slots /\ i # Invalid /\ Invalid \notin M
  BY SlotNumbers
<1>2. /\ Threaded(c.head, Nexts(c), M, h) /\ Threaded(c.tail, Prevs(c), M, Reversed(h))
      /\ Nexts(c)[i] = n /\ Prevs(c)[i] = p
  BY <1>1 DEF ListOf, Nexts, Prevs
<1>3. p \in M \cup {Invalid} /\ n \in M \cup {Invalid}
  BY <1>2 DEF Threaded, Highest, Under
\* The slot before i points to it, or else the head does; likewise behind it.
<1>4. \A j \in M : (c.slots[j].next = i <=> j = p) /\ (c.slots[j].prev = i <=> j = n)
  <2> SUFFICES ASSUME NEW j \in M
               PROVE  (c.slots[j].next = i <=> j = p) /\ (c.slots[j].prev = i <=> j = n)
    OBVIOUS
  <2>1. c.slots[j].next = i <=> c.slots[i].prev = j
    BY PrevInverse
  <2>2. c.slots[i].next = j <=> c.slots[j].prev = i
    BY PrevInverse
  <2> QED BY <2>1, <2>2
<1>5. (c.head = i <=> p = Invalid) /\ (c.tail = i <=> n = Invalid)
  <2>1. h \in Ranks /\ \A j, k \in M : h[j] = h[k] => j = k
    BY <1>2 DEF Threaded
  <2>2. /\ Highest(M, h, c.head) /\ Highest(M, Reversed(h), c.tail)
        /\ Highest(Under(M, h, i), h, n) /\ Highest(Under(M, Reversed(h), i), Reversed(h), p)
    BY <1>2 DEF Threaded
  <2>3. c.head \in M /\ c.tail \in M /\ \A j \in M : h[j] <= h[c.head] /\ h[c.tail] <= h[j]
    BY <1>1, <2>1, <2>2, ReversedRanks DEF Highest
  <2>4. p = Invalid <=> \A j \in M : ~ (h[i] < h[j])
    BY <1>1, <2>1, <2>2, ReversedRanks DEF Highest, Under
  <2>5. n = Invalid <=> \A j \in M : ~ (h[j] < h[i])
    BY <1>1, <2>1, <2>2 DEF Highest, Under
  <2>6. \A j \in M : h[j] \in Int
    BY <2>1 DEF Ranks
  <2> HIDE DEF p, n
  <2>7. c.head = i <=> p = Invalid
    BY <2>1, <2>3, <2>4, <2>6
  <2>8. c.tail = i <=> n = Invalid
    BY <2>1, <2>3, <2>5, <2>6
  <2> QED BY <2>7, <2>8
<1>6. Threaded(d.head, Nexts(d), M \ {i}, h)
  <2>1. d.head = IF c.head = i THEN Nexts(c)[i] ELSE c.head
    BY <1>1, <1>2, <1>5, OutEffect DEF Out
  <2>2. \A j \in M \ {i} :
            Nexts(d)[j] = IF Nexts(c)[j] = i THEN Nexts(c)[i] ELSE Nexts(c)[j]
    BY <1>1, <1>2, <1>4, OutEffect DEF Nexts, Out
  <2> DEFINE f == Nexts(d)
             g == Nexts(c)
  <2> HIDE DEF f, g
  <2>3. Threaded(IF c.head = i THEN g[i] ELSE c.head, f, M \ {i}, h)
    <3>1. Threaded(c.head, g, M, h) /\ \A j \in M \ {i} : f[j] = IF g[j] = i THEN g[i] ELSE g[j]
      BY <1>2, <2>2 DEF f, g
    <3> QED BY <3>1, ThreadOut
  <2> QED BY <2>1, <2>3 DEF f, g
<1>7. Threaded(d.tail, Prevs(d), M \ {i}, Reversed(h))
  <2>1. d.tail = IF c.tail = i THEN Prevs(c)[i] ELSE c.tail
    BY <1>1, <1>2, <1>5, OutEffect DEF Out
  <2>2. \A j \in M \ {i} :
            Prevs(d)[j] = IF Prevs(c)[j] = i THEN Prevs(c)[i] ELSE Prevs(c)[j]
    BY <1>1, <1>2, <1>4, OutEffect DEF Prevs, Out
  <2> DEFINE f == Prevs(d)
             g == Prevs(c)
             r == Reversed(h)
  <2> HIDE DEF f, g, r
  <2>3. Threaded(IF c.tail = i THEN g[i] ELSE c.tail, f, M \ {i}, r)
    <3>1. Threaded(c.tail, g, M, r) /\ \A j \in M \ {i} : f[j] = IF g[j] = i THEN g[i] ELSE g[j]
      BY <1>2, <2>2 DEF f, g, r
    <3> QED BY <3>1, ThreadOut
  <2> QED BY <2>1, <2>3 DEF f, g, r
<1> QED BY <1>6, <1>7 DEF ListOf

\* Neither list nor chains change while their pointers stay.
LEMMA ListSame ==
    ASSUME NEW c, NEW d, NEW M, NEW h, ListOf(c, M, h),
           d.head = c.head, d.tail = c.tail,
           \A j \in Slots : d.slots[j].next = c.slots[j].next /\ d.slots[j].prev = c.slots[j].prev
    PROVE  ListOf(d, M, h)
<1>1. Nexts(d) = Nexts(c) /\ Prevs(d) = Prevs(c)
  BY DEF Nexts, Prevs
<1> QED BY <1>1 DEF ListOf

\* The chains do not change while keys and hash_next stay.
LEMMA ChainsSame ==
    ASSUME NEW c, NEW d, NEW M \in SUBSET Slots, NEW g, ChainsOf(c, M, g),
           d.buckets = c.buckets,
           \A j \in Slots : d.slots[j].hash_next = c.slots[j].hash_next,
           \A j \in M : d.slots[j].key = c.slots[j].key
    PROVE  ChainsOf(d, M, g)
<1>1. HashNexts(d) = HashNexts(c)
  BY DEF HashNexts
<1>2. \A b \in Buckets : InBucket(d, M, b) = InBucket(c, M, b)
  BY DEF InBucket
<1> QED BY <1>1, <1>2 DEF ChainsOf

\* Every key has a bucket.
LEMMA BucketOf ==
    ASSUME NEW k \in Keys
    PROVE  Hash[k] \in Buckets
BY DEF Buckets

\* d is c after link_l1_hash_ has put slot i at the front of its chain.
HashIn(c, d, i) ==
    LET b == Hash[c.slots[i].key]
    IN  /\ d \in Cache /\ d.head = c.head /\ d.tail = c.tail
        /\ \A j \in Slots : /\ SameData(d.slots[j], c.slots[j])
                            /\ d.slots[j].next = c.slots[j].next
                            /\ d.slots[j].prev = c.slots[j].prev
                            /\ d.slots[j].hash_next = IF j = i THEN c.buckets[b]
                                                      ELSE c.slots[j].hash_next
        /\ d.buckets = [c.buckets EXCEPT ![b] = i]

\* link_l1_hash_ does this.
LEMMA HashInEffect ==
    ASSUME NEW c \in Cache, NEW i \in Slots, c.slots[i].key \in Keys
    PROVE  HashIn(c, LinkHash(c, i), i)
<1> DEFINE b == Hash[c.slots[i].key]
           d == LinkHash(c, i)
           slots == [c.slots EXCEPT ![i].hash_next = c.buckets[b]]
           buckets == [c.buckets EXCEPT ![b] = i]
<1>1. b \in Buckets /\ c.buckets[b] \in Link /\ i \in Link /\ c.slots \in [Slots -> Slot]
      /\ c.buckets \in [Buckets -> Link]
  BY BucketOf, CacheTypes DEF Link, Cache
<1>2. slots \in [Slots -> Slot] /\ buckets \in [Buckets -> Link]
  BY <1>1 DEF Slot, Link
<1>3. d = [c EXCEPT !.slots = slots, !.buckets = buckets]
  BY DEF LinkHash
<1>4. \A j \in Slots : /\ SameData(slots[j], c.slots[j])
                       /\ slots[j].next = c.slots[j].next
                       /\ slots[j].prev = c.slots[j].prev
                       /\ slots[j].hash_next = IF j = i THEN c.buckets[b]
                                               ELSE c.slots[j].hash_next
  BY <1>1 DEF Slot, SameData
<1> HIDE DEF slots, buckets, d
<1>5. d \in Cache /\ d.head = c.head /\ d.tail = c.tail /\ d.slots = slots /\ d.buckets = buckets
  BY <1>2, <1>3 DEF Cache
<1> QED BY <1>4, <1>5 DEF HashIn, d, buckets

\* link_l1_hash_ adds slot i to the chain of its bucket, and to no other.
LEMMA ChainLinked ==
    ASSUME NEW c \in Cache, NEW M \in SUBSET Slots, NEW i \in Slots, i \notin M,
           c.slots[i].key \in Keys,
           NEW g \in Ranks, ChainsOf(c, M, g), NEW n \in Int, \A j \in M : g[j] < n
    PROVE  ChainsOf(LinkHash(c, i), M \cup {i}, [g EXCEPT ![i] = n])
<1> DEFINE d == LinkHash(c, i)
           e == [g EXCEPT ![i] = n]
           k == Hash[c.slots[i].key]
<1>1. e \in Ranks /\ e[i] = n /\ \A j \in M : e[j] = g[j]
  BY DEF Ranks
<1>2. /\ d.buckets = [c.buckets EXCEPT ![k] = i]
      /\ \A j \in Slots : d.slots[j].key = c.slots[j].key
      /\ HashNexts(d)[i] = c.buckets[k]
      /\ \A j \in Slots \ {i} : HashNexts(d)[j] = HashNexts(c)[j]
  BY HashInEffect DEF SameData, HashNexts, HashIn
<1>3. k \in Buckets /\ c.buckets \in [Buckets -> Link]
  BY BucketOf DEF Cache
<1> SUFFICES ASSUME NEW b \in Buckets
             PROVE  Threaded(d.buckets[b], HashNexts(d), InBucket(d, M \cup {i}, b), e)
  BY DEF ChainsOf
<1> DEFINE B == InBucket(c, M, b)
           follow == HashNexts(c)
           f == HashNexts(d)
           first == c.buckets[b]
<1>4. Threaded(first, follow, B, g) /\ B \in SUBSET M
  BY DEF ChainsOf, InBucket
<1>5. \A j \in B : f[j] = follow[j] /\ e[j] = g[j] /\ g[j] < e[i]
  BY <1>1, <1>2, <1>4
<1>6. CASE b = k
  <2>1. InBucket(d, M \cup {i}, b) = B \cup {i} /\ d.buckets[b] = i /\ f[i] = first
    BY <1>2, <1>3, <1>6 DEF InBucket
  <2>2. B \in SUBSET Slots /\ i \notin B
    BY <1>4
  <2> HIDE DEF B, follow, f, first, e, d
  <2>3. Threaded(i, f, B \cup {i}, e)
    BY <1>1, <1>4, <1>5, <2>1, <2>2, ThreadFront
  <2> QED BY <2>1, <2>3 DEF f
<1>7. CASE b # k
  <2>1. InBucket(d, M \cup {i}, b) = B /\ d.buckets[b] = first
    BY <1>2, <1>3, <1>7 DEF InBucket
  <2> HIDE DEF B, follow, f, first, e, d
  <2>2. Threaded(first, f, B, e)
    BY <1>1, <1>4, <1>5, ThreadSame
  <2> QED BY <2>1, <2>2 DEF f
<1> QED BY <1>6, <1>7

\* What the walk along a chain meets.
LEMMA ChainVisits ==
    ASSUME NEW c \in Cache, NEW M \in SUBSET Slots, NEW g, ChainsOf(c, M, g), NEW b \in Buckets
    PROVE  /\ Visits(Chain(c, b), InBucket(c, M, b))
           /\ DOMAIN Chain(c, b) = 0..Capacity
           /\ Range(Chain(c, b)) \ {Invalid} = InBucket(c, M, b)
<1> DEFINE B == InBucket(c, M, b)
           first == c.buckets[b]
           follow == HashNexts(c)
<1>1. /\ B \in SUBSET Slots /\ first \in Link /\ follow \in [Slots -> Link]
      /\ Threaded(first, follow, B, g)
  BY CacheTypes DEF ChainsOf, InBucket
<1>2. Chain(c, b) = Walk(first, follow)
  BY DEF Chain, HashNexts
<1> HIDE DEF B, first, follow
<1>3. Visits(Chain(c, b), B) /\ DOMAIN Chain(c, b) = 0..Capacity
  BY <1>1, <1>2, ThreadWalk
<1>4. Range(Chain(c, b)) \ {Invalid} = B
  BY <1>1, <1>3, SlotNumbers DEF Visits
<1> QED BY <1>3, <1>4 DEF B

\* d is c after unlink_l1_hash_ has taken slot i, one of M, out of its chain.
HashOut(c, d, M, i) ==
    LET b == Hash[c.slots[i].key]
        after == c.slots[i].hash_next
    IN  /\ d \in Cache /\ d.head = c.head /\ d.tail = c.tail
        /\ \A j \in Slots : /\ SameData(d.slots[j], c.slots[j])
                            /\ d.slots[j].next = c.slots[j].next
                            /\ d.slots[j].prev = c.slots[j].prev
        /\ \A j \in Slots : d.slots[j].hash_next =
               IF j = i THEN Invalid
               ELSE IF j \in M /\ Hash[c.slots[j].key] = b /\ c.slots[j].hash_next = i
                    THEN after ELSE c.slots[j].hash_next
        /\ d.buckets = [c.buckets EXCEPT ![b] = IF @ = i THEN after ELSE @]

\* unlink_l1_hash_ does this.
LEMMA HashOutEffect ==
    ASSUME NEW c \in Cache, NEW M \in SUBSET Slots, NEW g, ChainsOf(c, M, g),
           NEW i \in M, c.slots[i].key \in Keys
    PROVE  HashOut(c, UnlinkHash(c, i), M, i)
<1> DEFINE b == Hash[c.slots[i].key]
           d == UnlinkHash(c, i)
           chain == InBucket(c, M, b)
           after == c.slots[i].hash_next
           new(j) == [c.slots[j] EXCEPT !.hash_next =
                        IF j = i THEN Invalid
                        ELSE IF j \in chain /\ @ = i THEN after ELSE @]
           slots == [j \in Slots |-> new(j)]
           buckets == [c.buckets EXCEPT ![b] = IF @ = i THEN after ELSE @]
<1>1. /\ b \in Buckets /\ i \in Slots /\ after \in Link /\ Invalid \in Link
      /\ c.buckets \in [Buckets -> Link]
  BY BucketOf DEF Link, Cache, Slot
<1>2. Range(Chain(c, b)) \ {Invalid} = chain /\ i \in chain
  <2>1. i \in chain
    BY DEF InBucket
  <2>2. Range(Chain(c, b)) \ {Invalid} = chain
    <3> HIDE DEF b
    <3> QED BY <1>1, ChainVisits
  <2> QED BY <2>1, <2>2
<1>3. d = [c EXCEPT !.slots = slots, !.buckets = buckets]
  <2>1. d = [c EXCEPT !.slots = slots, !.buckets[b] = IF @ = i THEN after ELSE @]
    <3> HIDE DEF chain
    <3> QED BY <1>2 DEF UnlinkHash
  <2> QED BY <2>1
<1>4. ASSUME NEW j \in Slots
      PROVE  /\ new(j) \in Slot /\ SameData(new(j), c.slots[j])
             /\ new(j).next = c.slots[j].next /\ new(j).prev = c.slots[j].prev
             /\ new(j).hash_next = IF j = i THEN Invalid
                                   ELSE IF j \in chain /\ c.slots[j].hash_next = i THEN after
                                   ELSE c.slots[j].hash_next
  <2>1. c.slots[j] \in Slot
    BY DEF Cache
  <2> HIDE DEF chain, after
  <2> QED BY <1>1, <2>1 DEF Slot, Link, SameData
<1>5. slots \in [Slots -> Slot] /\ buckets \in [Buckets -> Link]
  BY <1>1, <1>4
<1> HIDE DEF slots, buckets, d
<1>6. d \in Cache
  BY <1>3, <1>5 DEF Cache
<1>7. d.head = c.head /\ d.tail = c.tail /\ d.slots = slots /\ d.buckets = buckets
  BY <1>3 DEF Cache
<1>8. \A j \in Slots : d.slots[j] = new(j)
  BY <1>7 DEF slots
<1>9. \A j : j \in chain <=> j \in M /\ Hash[c.slots[j].key] = b
  BY DEF InBucket
<1> HIDE DEF new, chain, after
<1> QED BY <1>4, <1>6, <1>7, <1>8, <1>9 DEF HashOut, d, buckets, after

\* unlink_l1_hash_ leaves the others on their chains.
LEMMA ChainUnlinked ==
    ASSUME NEW c \in Cache, NEW M \in SUBSET Slots, NEW g, ChainsOf(c, M, g),
           NEW i \in M, c.slots[i].key \in Keys
    PROVE  ChainsOf(UnlinkHash(c, i), M \ {i}, g)
<1> DEFINE d == UnlinkHash(c, i)
           k == Hash[c.slots[i].key]
           follow == HashNexts(c)
           f == HashNexts(d)
<1>1. k \in Buckets /\ c.buckets \in [Buckets -> Link] /\ i \in Slots
  BY BucketOf DEF Cache
<1>2. /\ \A j \in Slots : d.slots[j].key = c.slots[j].key
      /\ \A j \in M \ {i} : f[j] = IF j \in InBucket(c, M, k) /\ follow[j] = i
                                   THEN follow[i] ELSE follow[j]
      /\ d.buckets = [c.buckets EXCEPT ![k] = IF @ = i THEN follow[i] ELSE @]
  <2>1. /\ \A j \in Slots : SameData(d.slots[j], c.slots[j])
        /\ \A j \in Slots : d.slots[j].hash_next =
              IF j = i THEN Invalid
              ELSE IF j \in M /\ Hash[c.slots[j].key] = k /\ c.slots[j].hash_next = i
                   THEN c.slots[i].hash_next ELSE c.slots[j].hash_next
        /\ d.buckets = [c.buckets EXCEPT ![k] = IF @ = i THEN c.slots[i].hash_next ELSE @]
    <3>1. HashOut(c, d, M, i)
      BY HashOutEffect
    <3> HIDE DEF d, f, follow
    <3> QED BY <3>1 DEF HashOut
  <2> HIDE DEF d, k
  <2>2. follow[i] = c.slots[i].hash_next
    BY <1>1 DEF HashNexts
  <2>3. \A j \in M \ {i} : f[j] = IF j \in InBucket(c, M, k) /\ follow[j] = i
                                   THEN follow[i] ELSE follow[j]
    BY <2>1, <2>2 DEF HashNexts, InBucket
  <2>4. \A j \in Slots : d.slots[j].key = c.slots[j].key
    BY <2>1 DEF SameData
  <2> HIDE DEF f, follow
  <2> QED BY <2>1, <2>2, <2>3, <2>4
<1> SUFFICES ASSUME NEW b \in Buckets
             PROVE  Threaded(d.buckets[b], f, InBucket(d, M \ {i}, b), g)
  BY DEF ChainsOf
<1> DEFINE B == InBucket(c, M, b)
           first == c.buckets[b]
<1>3. Threaded(first, follow, B, g) /\ g \in Ranks /\ B \in SUBSET Slots
  BY DEF ChainsOf, InBucket, Threaded
<1>4. CASE b = k
  <2>1. /\ InBucket(d, M \ {i}, b) = B \ {i} /\ i \in B
        /\ d.buckets[b] = IF first = i THEN follow[i] ELSE first
    BY <1>1, <1>2, <1>4 DEF InBucket
  <2>2. \A j \in B \ {i} : f[j] = IF follow[j] = i THEN follow[i] ELSE follow[j]
    BY <1>2, <1>4 DEF InBucket
  <2> HIDE DEF B, follow, f, first, d
  <2>3. Threaded(IF first = i THEN follow[i] ELSE first, f, B \ {i}, g)
    BY <1>3, <2>1, <2>2, ThreadOut
  <2> QED BY <2>1, <2>3
<1>5. CASE b # k
  <2>1. InBucket(d, M \ {i}, b) = B /\ d.buckets[b] = first
    BY <1>1, <1>2, <1>5 DEF InBucket
  <2>2. \A j \in B : f[j] = follow[j]
    BY <1>2, <1>5 DEF InBucket
  <2> HIDE DEF B, follow, f, first, d
  <2>3. Threaded(first, f, B, g)
    BY <1>3, <2>2, ThreadSame
  <2> QED BY <2>1, <2>3
<1> QED BY <1>4, <1>5

---------------------------------------------------------------------------
(* A cache as a whole                                                      *)

\* r is the order of use, of at least the keys in the cache.
Ordered(c, h, r) ==
    \A i, j \in Valid(c) : h[j] < h[i] <=> <<c.slots[i].key, c.slots[j].key>> \in r

Linked(c, r, h, g, n) ==
    /\ h \in Ranks /\ g \in Ranks /\ n \in Int
    /\ \A i \in Valid(c) : h[i] < n /\ g[i] < n
    /\ ListOf(c, Valid(c), h) /\ ChainsOf(c, Valid(c), g)
    /\ Ordered(c, h, r)

KeysOnce(c) ==
    /\ \A i \in Valid(c) : c.slots[i].key \in Keys
    /\ \A i, j \in Valid(c) : c.slots[i].key = c.slots[j].key => i = j

CacheOK(c, r) == c \in Cache /\ KeysOnce(c) /\ \E h, g, n : Linked(c, r, h, g, n)

\* d is c without the slots of S.
Removed(c, d, S) ==
    Valid(d) = Valid(c) \ S /\ \A i \in Valid(d) : SameData(d.slots[i], c.slots[i])

\* What Remaining(c) and Used(c, k) make of an order r.
Cut(r, c) == r \cap (CachedKeys(c) \X CachedKeys(c))
Front(r, c, k) ==
    LET others == CachedKeys(c) \ {k}
    IN  ({k} \X others) \cup (r \cap (others \X others))

\* Remaining and Used, as operators on orders.
LEMMA HistoryOrders ==
    /\ \A c : Remaining(c) = Cut(recent, c)
    /\ \A c, k : Used(c, k) = Front(recent, c, k)
BY DEF Remaining, Used, Cut, Front

\* The keys of the cache are those of the slots in use.
LEMMA CachedIsValid == \A c : CachedKeys(c) = {c.slots[i].key : i \in Valid(c)}
BY DEF CachedKeys, Valid

\* Pairs of keys that are not cached do not matter.
LEMMA CutOK ==
    ASSUME NEW c, NEW r, CacheOK(c, r)
    PROVE  CacheOK(c, Cut(r, c))
<1>1. PICK h, g, n : Linked(c, r, h, g, n)
  BY DEF CacheOK
<1>2. \A i \in Valid(c) : c.slots[i].key \in CachedKeys(c)
  BY CachedIsValid
<1>3. Ordered(c, h, Cut(r, c))
  BY <1>1, <1>2 DEF Linked, Ordered, Cut
<1>4. Linked(c, Cut(r, c), h, g, n)
  BY <1>1, <1>3 DEF Linked
<1> QED BY <1>4 DEF CacheOK

\* A slot after reset() is a slot, and free.
LEMMA EmptySlotType == EmptySlot \in Slot /\ EmptySlot.valid = FALSE
BY DEF EmptySlot, Slot, Invalid

\* reset_l1_ leaves a linked cache without slots in use.
LEMMA EmptyOK == CacheOK(EmptyCache, {}) /\ Valid(EmptyCache) = {}
<1> DEFINE h == [i \in Slots |-> 0]
<1>1. EmptyCache \in Cache /\ Valid(EmptyCache) = {}
  BY EmptySlotType DEF EmptyCache, Cache, Link, Valid
<1>2. h \in Ranks /\ Reversed(h) \in Ranks
  BY DEF Ranks, Reversed
<1>3. \A f, g : g \in Ranks => Threaded(Invalid, f, {}, g)
  BY DEF Threaded, Highest
<1>4. ListOf(EmptyCache, {}, h)
  BY <1>2, <1>3 DEF ListOf, EmptyCache
<1>5. \A b \in Buckets : InBucket(EmptyCache, {}, b) = {} /\ EmptyCache.buckets[b] = Invalid
  BY DEF InBucket, EmptyCache
<1>6. ChainsOf(EmptyCache, {}, h)
  BY <1>2, <1>3, <1>5 DEF ChainsOf
<1> HIDE DEF h
<1>7. Linked(EmptyCache, {}, h, h, 0)
  BY <1>1, <1>2, <1>4, <1>6 DEF Linked, Ordered
<1>8. KeysOnce(EmptyCache)
  BY <1>1 DEF KeysOnce
<1> QED BY <1>1, <1>7, <1>8 DEF CacheOK

\* Slot i becomes s, which has the same pointers.
LEMMA SlotAssigned ==
    ASSUME NEW c \in Cache, NEW i \in Slots, NEW s \in Slot
    PROVE  LET d == [c EXCEPT !.slots[i] = s]
           IN  /\ d \in Cache /\ d.head = c.head /\ d.tail = c.tail /\ d.buckets = c.buckets
               /\ d.slots = [c.slots EXCEPT ![i] = s]
BY DEF Cache

\* A slot outside M may become anything.
LEMMA SlotAway ==
    ASSUME NEW c \in Cache, NEW M \in SUBSET Slots, NEW i \in Slots, i \notin M, NEW s \in Slot,
           NEW h, NEW g, ListOf(c, M, h), ChainsOf(c, M, g), h \in Ranks, g \in Ranks,
           NEW d, d = [c EXCEPT !.slots[i] = s]
    PROVE  ListOf(d, M, h) /\ ChainsOf(d, M, g)
<1>1. /\ d \in Cache /\ d.head = c.head /\ d.tail = c.tail /\ d.buckets = c.buckets
      /\ d.slots = [c.slots EXCEPT ![i] = s]
  BY SlotAssigned
<1>2. \A j \in M : d.slots[j] = c.slots[j]
  BY <1>1 DEF Cache
<1>3. Threaded(c.head, Nexts(d), M, h)
  <2>1. \A j \in M : Nexts(d)[j] = Nexts(c)[j] /\ h[j] = h[j]
    BY <1>2 DEF Nexts
  <2>2. Threaded(c.head, Nexts(c), M, h)
    BY DEF ListOf
  <2> QED BY <2>1, <2>2, ThreadSame
<1>4. Threaded(c.tail, Prevs(d), M, Reversed(h))
  <2>1. \A j \in M : Prevs(d)[j] = Prevs(c)[j]
    BY <1>2 DEF Prevs
  <2>2. Threaded(c.tail, Prevs(c), M, Reversed(h)) /\ Reversed(h) \in Ranks
    BY ReversedRanks DEF ListOf
  <2> QED BY <2>1, <2>2, ThreadSame
<1>5. ChainsOf(d, M, g)
  <2> SUFFICES ASSUME NEW b \in Buckets
               PROVE  Threaded(d.buckets[b], HashNexts(d), InBucket(d, M, b), g)
    BY DEF ChainsOf
  <2> DEFINE B == InBucket(c, M, b)
  <2>1. Threaded(c.buckets[b], HashNexts(c), B, g)
    BY DEF ChainsOf
  <2>2. InBucket(d, M, b) = B /\ B \in SUBSET M
    BY <1>2 DEF InBucket
  <2>3. \A j \in B : HashNexts(d)[j] = HashNexts(c)[j]
    BY <1>2, <2>2 DEF HashNexts
  <2> HIDE DEF B
  <2>4. Threaded(c.buckets[b], HashNexts(d), B, g)
    BY <2>1, <2>3, ThreadSame
  <2> QED BY <1>1, <2>2, <2>4
<1> QED BY <1>1, <1>3, <1>4, <1>5 DEF ListOf

\* remove_l1_slot_ leaves list, chains and order of the other slots.
LEMMA RemoveOK ==
    ASSUME NEW c, NEW r, CacheOK(c, r), NEW i \in Valid(c)
    PROVE  CacheOK(RemoveSlot(c, i), r) /\ Removed(c, RemoveSlot(c, i), {i})
<1> DEFINE u == UnlinkHash(c, i)
           v == UnlinkLRU(u, i)
           d == [v EXCEPT !.slots[i] = EmptySlot]
           M == Valid(c)
<1>1. PICK h, g, n : Linked(c, r, h, g, n)
  BY DEF CacheOK
<1>2. c \in Cache /\ i \in Slots /\ c.slots[i].key \in Keys /\ M \in SUBSET Slots
      /\ RemoveSlot(c, i) = d
  BY DEF CacheOK, KeysOnce, Valid, RemoveSlot
<1>3. ListOf(c, M, h) /\ ChainsOf(c, M, g)
  BY <1>1 DEF Linked
<1> HIDE DEF M, d
<1>4. HashOut(c, u, M, i) /\ ChainsOf(u, M \ {i}, g)
  BY <1>2, <1>3, HashOutEffect, ChainUnlinked DEF M
<1>5. ListOf(u, M, h)
  BY <1>3, <1>4, ListSame DEF HashOut
<1> HIDE DEF u
<1>6. /\ v \in Cache /\ v.buckets = u.buckets
      /\ \A j \in Slots : SameData(v.slots[j], u.slots[j])
                          /\ v.slots[j].hash_next = u.slots[j].hash_next
      /\ ListOf(v, M \ {i}, h)
  BY <1>2, <1>4, <1>5, OutEffect, OutListed DEF HashOut, M, Out
<1>7. ChainsOf(v, M \ {i}, g)
  <2>1. \A j \in M \ {i} : v.slots[j].key = u.slots[j].key
    BY <1>2, <1>6 DEF SameData
  <2> HIDE DEF v
  <2> QED BY <1>2, <1>4, <1>6, <2>1, ChainsSame
<1> HIDE DEF v
<1>8. /\ d \in Cache /\ d.head = v.head /\ d.tail = v.tail /\ d.buckets = v.buckets
      /\ d.slots = [v.slots EXCEPT ![i] = EmptySlot]
  BY <1>2, <1>6, EmptySlotType, SlotAssigned DEF d
<1>9. \A j \in Slots \ {i} : d.slots[j] = v.slots[j]
  BY <1>8
<1>10. \A j \in M \ {i} : SameData(d.slots[j], c.slots[j])
  BY <1>2, <1>4, <1>6, <1>9 DEF HashOut, SameData
<1>11. Valid(d) = M \ {i}
  <2>1. ~ d.slots[i].valid
    BY <1>2, <1>6, <1>8, EmptySlotType DEF Cache
  <2>2. \A j \in Slots \ {i} : d.slots[j].valid = c.slots[j].valid
    BY <1>4, <1>6, <1>9 DEF HashOut, SameData
  <2> QED BY <2>1, <2>2 DEF Valid, M
<1>12. ListOf(d, M \ {i}, h) /\ ChainsOf(d, M \ {i}, g)
  <2>1. h \in Ranks /\ g \in Ranks
    BY <1>1 DEF Linked
  <2> QED BY <1>2, <1>6, <1>7, <2>1, EmptySlotType, SlotAway DEF d
<1>13. Linked(d, r, h, g, n)
  BY <1>1, <1>10, <1>11, <1>12 DEF Linked, Ordered, SameData, M
<1>14. KeysOnce(d)
  BY <1>10, <1>11 DEF KeysOnce, CacheOK, SameData, M
<1> QED BY <1>2, <1>8, <1>10, <1>11, <1>13, <1>14 DEF CacheOK, Removed, M

\* The least of a set of numbers is one of them; so free_l1_slot_ finds a free slot.
LEMMA LeastNumber ==
    ASSUME NEW S \in SUBSET Nat, S # {}
    PROVE  Min(S) \in S
<1>1. PICK m \in S : \A n \in S : ~ (<<n, m>> \in Less)
  <2>1. IsWellFoundedOn(Less, Nat)
    BY NatLessThanWellFounded DEF OpToRel, Less
  <2> QED BY <2>1, WFMin
<1>2. ASSUME NEW n \in S PROVE m <= n
  <2>1. m \in Nat /\ n \in Nat /\ ~ (n < m)
    BY <1>1 DEF Less
  <2> QED BY <2>1
<1> QED BY <1>2 DEF Min

\* The greatest of a set of slots is one of them; sync() visits it next.
LEMMA GreatestSlot ==
    ASSUME NEW S \in SUBSET Slots, S # {}
    PROVE  Max(S) \in S
<1> DEFINE T == {Capacity - s : s \in S}
<1>1. Capacity \in Nat /\ \A s \in S : s \in Nat /\ s <= Capacity
  BY SlotNumbers DEF Slots
<1>2. T \in SUBSET Nat /\ T # {}
  BY <1>1
<1>3. PICK m \in T : \A n \in T : ~ (<<n, m>> \in Less)
  <2>1. IsWellFoundedOn(Less, Nat)
    BY NatLessThanWellFounded DEF OpToRel, Less
  <2> HIDE DEF T
  <2> QED BY <1>2, <2>1, WFMin
<1>4. PICK s \in S : m = Capacity - s
  OBVIOUS
<1>5. \A t \in S : s >= t
  <2> SUFFICES ASSUME NEW t \in S, t > s PROVE FALSE
    BY <1>1
  <2>1. Capacity - t \in T /\ Capacity - t \in Nat /\ m \in Nat /\ Capacity - t < m
    BY <1>1, <1>4
  <2> QED BY <1>3, <2>1 DEF Less
<1> QED BY <1>5 DEF Max

\* find_l1_ finds the slot of a key if there is one.
Finds(c, k, i) ==
    IF i = Invalid THEN \A j \in Valid(c) : c.slots[j].key # k
    ELSE i \in Valid(c) /\ c.slots[i].key = k

\* find_l1_ comes by every slot of the bucket.
LEMMA FindOK ==
    ASSUME NEW c, NEW r, CacheOK(c, r), NEW k \in Keys
    PROVE  Finds(c, k, FindL1(c, k))
<1>1. PICK h, g, n : Linked(c, r, h, g, n)
  BY DEF CacheOK
<1> DEFINE b == Hash[k]
           at == Chain(c, b)
           B == InBucket(c, Valid(c), b)
           hits == {m \in DOMAIN at : /\ at[m] # Invalid
                                      /\ c.slots[at[m]].valid /\ c.slots[at[m]].key = k}
<1>2. c \in Cache /\ b \in Buckets /\ Valid(c) \in SUBSET Slots
  BY BucketOf DEF CacheOK, Valid
<1>3. DOMAIN at = 0..Capacity /\ Range(at) \ {Invalid} = B
  <2>1. ChainsOf(c, Valid(c), g)
    BY <1>1 DEF Linked
  <2> HIDE DEF b
  <2> QED BY <1>2, <2>1, ChainVisits
<1>4. FindL1(c, k) = IF hits = {} THEN Invalid ELSE at[Min(hits)]
  BY DEF FindL1
<1>5. hits \in SUBSET Nat
  BY <1>3, SlotNumbers
<1>6. CASE hits = {}
  <2>1. ASSUME NEW j \in Valid(c), c.slots[j].key = k PROVE FALSE
    <3>1. j \in B /\ j # Invalid
      BY <1>2, <2>1, SlotNumbers DEF InBucket
    <3>2. PICK m \in DOMAIN at : at[m] = j
      BY <1>3, <3>1 DEF Range
    <3>3. m \in hits
      BY <2>1, <3>1, <3>2 DEF Valid
    <3> QED BY <1>6, <3>3
  <2> QED BY <1>4, <1>6, <2>1 DEF Finds
<1>7. CASE hits # {}
  <2> DEFINE m == Min(hits)
  <2>1. m \in hits
    <3> HIDE DEF hits
    <3> QED BY <1>5, <1>7, LeastNumber
  <2>2. at[m] \in B
    BY <1>3, <2>1 DEF Range
  <2>3. at[m] \in Valid(c) /\ at[m] # Invalid /\ c.slots[at[m]].key = k
    BY <2>1, <2>2 DEF InBucket
  <2> HIDE DEF m, hits, at
  <2> QED BY <1>4, <1>7, <2>3 DEF Finds, m
<1> QED BY <1>6, <1>7

\* A slot that keeps its key and its pointers may change otherwise.
SamePlace(s, t) ==
    /\ s.key = t.key /\ s.valid
    /\ s.prev = t.prev /\ s.next = t.next /\ s.hash_next = t.hash_next

Assigned(c, r, d, i, s) ==
    /\ CacheOK(d, r) /\ Valid(d) = Valid(c) /\ d.slots[i] = s
    /\ \A j \in Valid(c) \ {i} : d.slots[j] = c.slots[j]

\* put() into the slot of a cached key, and sync() marking one clean, leave the links.
LEMMA AssignOK ==
    ASSUME NEW c, NEW r, CacheOK(c, r), NEW i \in Valid(c), NEW s \in Slot,
           SamePlace(s, c.slots[i])
    PROVE  Assigned(c, r, [c EXCEPT !.slots[i] = s], i, s)
<1> DEFINE d == [c EXCEPT !.slots[i] = s]
<1>1. c \in Cache /\ i \in Slots
  BY DEF CacheOK, Valid
<1>2. /\ d \in Cache /\ d.head = c.head /\ d.tail = c.tail /\ d.buckets = c.buckets
      /\ d.slots = [c.slots EXCEPT ![i] = s]
  BY <1>1, SlotAssigned
<1> HIDE DEF d
<1>3. d.slots[i] = s /\ \A j \in Slots \ {i} : d.slots[j] = c.slots[j]
  BY <1>1, <1>2 DEF Cache
<1>4. Valid(d) = Valid(c)
  BY <1>3 DEF Valid, SamePlace
<1>5. PICK h, g, n : Linked(c, r, h, g, n)
  BY DEF CacheOK
<1>6. \A j \in Slots : /\ d.slots[j].next = c.slots[j].next /\ d.slots[j].prev = c.slots[j].prev
                       /\ d.slots[j].hash_next = c.slots[j].hash_next
                       /\ d.slots[j].key = c.slots[j].key
  BY <1>3 DEF SamePlace
<1>7. ListOf(d, Valid(c), h)
  BY <1>2, <1>5, <1>6, ListSame DEF Linked
<1>8. ChainsOf(d, Valid(c), g)
  <2>1. Valid(c) \in SUBSET Slots /\ ChainsOf(c, Valid(c), g)
    BY <1>5 DEF Linked, Valid
  <2> QED BY <1>2, <1>6, <2>1, ChainsSame
<1>9. Linked(d, r, h, g, n)
  BY <1>4, <1>5, <1>6, <1>7, <1>8 DEF Linked, Ordered, Valid
<1>10. KeysOnce(d)
  BY <1>4, <1>6 DEF KeysOnce, CacheOK, Valid
<1> QED BY <1>2, <1>3, <1>4, <1>9, <1>10 DEF CacheOK, Valid, Assigned, d

\* A slot that was allocated is filled: the first on its chain and on the list.
LEMMA FillOK ==
    ASSUME NEW c, NEW r, CacheOK(c, r), NEW i \in Slots, i \notin Valid(c), NEW s \in Slot,
           s.valid, s.key \in Keys, \A j \in Valid(c) : c.slots[j].key # s.key,
           NEW d, d = Fill(c, i, s)
    PROVE  /\ CacheOK(d, Front(r, d, s.key)) /\ Valid(d) = Valid(c) \cup {i}
           /\ SameData(d.slots[i], s)
           /\ \A j \in Valid(c) : SameData(d.slots[j], c.slots[j])
<1> DEFINE M == Valid(c)
           e == [c EXCEPT !.slots[i] = s]
           f == LinkHash(e, i)
<1>1. PICK h, g, n : Linked(c, r, h, g, n)
  BY DEF CacheOK
<1>2. /\ c \in Cache /\ M \in SUBSET Slots /\ h \in Ranks /\ g \in Ranks /\ n \in Int
      /\ \A j \in M : h[j] < n /\ g[j] < n
      /\ ListOf(c, M, h) /\ ChainsOf(c, M, g) /\ i \notin M /\ d = LinkFront(f, i)
  BY <1>1 DEF CacheOK, Linked, Valid, Fill
<1>3. /\ e \in Cache /\ e.head = c.head /\ e.tail = c.tail /\ e.buckets = c.buckets
      /\ e.slots = [c.slots EXCEPT ![i] = s]
  BY <1>2, SlotAssigned
<1>4. e.slots[i] = s /\ \A j \in Slots \ {i} : e.slots[j] = c.slots[j]
  BY <1>2, <1>3 DEF Cache
<1> DEFINE hh == [h EXCEPT ![i] = n]
           gg == [g EXCEPT ![i] = n]
<1>5. hh \in Ranks /\ gg \in Ranks /\ hh[i] = n /\ gg[i] = n
      /\ \A j \in M : hh[j] = h[j] /\ gg[j] = g[j]
  BY <1>2 DEF Ranks
<1> HIDE DEF M
<1>6. ListOf(e, M, h) /\ ChainsOf(e, M, g)
  BY <1>2, SlotAway
<1> HIDE DEF e
<1>7. /\ f \in Cache /\ f.head = e.head /\ f.tail = e.tail
      /\ \A j \in Slots : /\ SameData(f.slots[j], e.slots[j])
                          /\ f.slots[j].next = e.slots[j].next
                          /\ f.slots[j].prev = e.slots[j].prev
      /\ ChainsOf(f, M \cup {i}, gg)
  <2>1. e.slots[i].key \in Keys
    BY <1>4
  <2>2. ChainsOf(f, M \cup {i}, gg)
    BY <1>2, <1>3, <1>6, <2>1, ChainLinked
  <2>3. HashIn(e, f, i)
    BY <1>3, <2>1, HashInEffect
  <2> HIDE DEF gg, f
  <2> QED BY <2>2, <2>3 DEF HashIn
<1>8. ListOf(f, M, h)
  BY <1>6, <1>7, ListSame
<1> HIDE DEF f
<1>9. /\ d \in Cache /\ d.buckets = f.buckets
      /\ \A j \in Slots : SameData(d.slots[j], f.slots[j])
                          /\ d.slots[j].hash_next = f.slots[j].hash_next
      /\ ListOf(d, M \cup {i}, hh)
  BY <1>2, <1>7, <1>8, FrontEffect, FrontListed DEF AtFront
<1>10. ChainsOf(d, M \cup {i}, gg)
  <2>1. M \cup {i} \in SUBSET Slots /\ \A j \in M \cup {i} : d.slots[j].key = f.slots[j].key
    BY <1>2, <1>9 DEF SameData
  <2> HIDE DEF gg
  <2> QED BY <1>7, <1>9, <2>1, ChainsSame
<1>11. SameData(d.slots[i], s) /\ \A j \in Slots \ {i} : SameData(d.slots[j], c.slots[j])
  <2>1. \A j \in Slots : SameData(d.slots[j], e.slots[j])
    BY <1>7, <1>9 DEF SameData
  <2> QED BY <1>2, <1>4, <2>1
<1>12. Valid(d) = M \cup {i}
  BY <1>11 DEF Valid, M, SameData
<1>13. KeysOnce(d)
  BY <1>2, <1>11, <1>12 DEF KeysOnce, CacheOK, SameData, M
<1>14. Ordered(d, hh, Front(r, d, s.key))
  <2>1. Ordered(c, h, r)
    BY <1>1 DEF Linked
  <2>2. /\ \A j \in M : d.slots[j].key = c.slots[j].key /\ d.slots[j].key # s.key
        /\ d.slots[i].key = s.key
    BY <1>2, <1>11 DEF SameData, M
  <2>3. \A j \in M : d.slots[j].key \in CachedKeys(d) \ {s.key}
    BY <1>12, <2>2, CachedIsValid
  <2>4. \A j \in M : hh[j] \in Int /\ hh[j] < hh[i]
    BY <1>2, <1>5 DEF Ranks
  <2> HIDE DEF hh
  <2> SUFFICES ASSUME NEW j \in M \cup {i}, NEW k \in M \cup {i}
               PROVE  hh[k] < hh[j]
                      <=> <<d.slots[j].key, d.slots[k].key>> \in Front(r, d, s.key)
    BY <1>12 DEF Ordered
  <2>5. CASE j = i /\ k = i
    BY <1>2, <1>5, <2>2, <2>5 DEF Front
  <2>6. CASE j = i /\ k \in M
    BY <2>2, <2>3, <2>4, <2>6 DEF Front
  <2>7. CASE j \in M /\ k = i
    <3>1. ~ (hh[i] < hh[j])
      BY <1>2, <1>5, <2>4, <2>7
    <3> QED BY <2>2, <2>7, <3>1 DEF Front
  <2>8. CASE j \in M /\ k \in M
    <3>1. hh[k] < hh[j] <=> <<c.slots[j].key, c.slots[k].key>> \in r
      BY <1>5, <2>1, <2>8 DEF Ordered, M
    <3> QED BY <2>2, <2>3, <2>8, <3>1 DEF Front
  <2> QED BY <2>5, <2>6, <2>7, <2>8
<1>15. Linked(d, Front(r, d, s.key), hh, gg, n + 1)
  <2>1. \A j \in Valid(d) : hh[j] < n + 1 /\ gg[j] < n + 1
    BY <1>2, <1>5, <1>12 DEF Ranks
  <2> HIDE DEF hh, gg
  <2> QED BY <1>2, <1>5, <1>9, <1>10, <1>12, <1>14, <2>1 DEF Linked
<1> HIDE DEF hh, gg
<1> QED BY <1>2, <1>9, <1>11, <1>12, <1>13, <1>15 DEF CacheOK, M

\* touch_l1_ makes a slot the first of the list.
LEMMA TouchOK ==
    ASSUME NEW c, NEW r, CacheOK(c, r), NEW i \in Valid(c), NEW d, d = Touch(c, i)
    PROVE  CacheOK(d, Front(r, d, c.slots[i].key)) /\ Removed(c, d, {})
<1> DEFINE M == Valid(c)
           u == UnlinkLRU(c, i)
           k == c.slots[i].key
<1>1. PICK h, g, n : Linked(c, r, h, g, n)
  BY DEF CacheOK
<1>2. /\ c \in Cache /\ M \in SUBSET Slots /\ h \in Ranks /\ g \in Ranks /\ n \in Int
      /\ \A j \in M : h[j] < n /\ g[j] < n
      /\ ListOf(c, M, h) /\ ChainsOf(c, M, g) /\ i \in M
      /\ \A j \in M : h[j] \in Int
  BY <1>1 DEF CacheOK, Linked, Valid, Ranks
<1>3. \A j \in M \ {i} : c.slots[j].key \in CachedKeys(c) /\ c.slots[j].key # k
  BY CachedIsValid DEF CacheOK, KeysOnce
<1>4. Ordered(c, h, r)
  BY <1>1 DEF Linked
<1>5. CASE i = c.head
  <2>1. d = c
    BY <1>5 DEF Touch
  <2>2. \A j \in M \ {i} : h[j] < h[i]
    <3>1. i # Invalid /\ Threaded(i, Nexts(c), M, h)
      BY <1>2, <1>5, SlotNumbers DEF ListOf
    <3>2. \A j \in M : h[j] <= h[i] /\ (h[j] = h[i] => j = i)
      BY <1>2, <3>1 DEF Threaded, Highest
    <3> QED BY <1>2, <3>2
  <2>3. Ordered(c, h, Front(r, c, k))
    <3> SUFFICES ASSUME NEW j \in M, NEW l \in M
                 PROVE  h[l] < h[j] <=> <<c.slots[j].key, c.slots[l].key>> \in Front(r, c, k)
      BY DEF Ordered
    <3>1. CASE j = i /\ l = i
      BY <1>2, <3>1 DEF Front
    <3>2. CASE j = i /\ l # i
      BY <1>3, <2>2, <3>2 DEF Front
    <3>3. CASE j # i /\ l = i
      BY <1>2, <1>3, <2>2, <3>3 DEF Front
    <3>4. CASE j # i /\ l # i
      BY <1>3, <1>4, <3>4 DEF Front, Ordered
    <3> QED BY <3>1, <3>2, <3>3, <3>4
  <2>4. Linked(c, Front(r, c, k), h, g, n)
    BY <1>1, <2>3 DEF Linked
  <2> QED BY <2>1, <2>4 DEF CacheOK, Removed, SameData
<1>6. CASE i # c.head
  <2> DEFINE hh == [h EXCEPT ![i] = n]
  <2>1. d = LinkFront(u, i) /\ i \in Slots /\ i \notin M \ {i} /\ (M \ {i}) \cup {i} = M
    BY <1>2, <1>6 DEF Touch
  <2>2. hh \in Ranks /\ hh[i] = n /\ \A j \in M \ {i} : hh[j] = h[j] /\ h[j] < n
    BY <1>2 DEF Ranks
  <2> HIDE DEF M
  <2>3. /\ u \in Cache /\ u.buckets = c.buckets
        /\ \A j \in Slots : SameData(u.slots[j], c.slots[j])
                            /\ u.slots[j].hash_next = c.slots[j].hash_next
        /\ ListOf(u, M \ {i}, h)
    BY <1>2, <2>1, OutEffect, OutListed DEF Out
  <2> HIDE DEF u
  <2>4. /\ d \in Cache /\ d.buckets = u.buckets
        /\ \A j \in Slots : SameData(d.slots[j], u.slots[j])
                            /\ d.slots[j].hash_next = u.slots[j].hash_next
        /\ ListOf(d, M, hh)
    <3>1. ListOf(d, (M \ {i}) \cup {i}, hh)
      <4> DEFINE N == M \ {i}
      <4>1. N \in SUBSET Slots /\ i \notin N /\ ListOf(u, N, h) /\ \A j \in N : h[j] < n
        BY <1>2, <2>1, <2>3
      <4> HIDE DEF N
      <4>2. ListOf(d, N \cup {i}, hh)
        BY <1>2, <2>1, <2>3, <4>1, FrontListed
      <4> QED BY <4>2 DEF N
    <3>2. AtFront(u, d, i)
      BY <2>1, <2>3, FrontEffect
    <3> HIDE DEF hh
    <3> QED BY <2>1, <3>1, <3>2 DEF AtFront
  <2>5. /\ \A j \in Slots : SameData(d.slots[j], c.slots[j])
                            /\ d.slots[j].hash_next = c.slots[j].hash_next
        /\ d.buckets = c.buckets
    BY <2>3, <2>4 DEF SameData
  <2>6. ChainsOf(d, M, g)
    <3>1. \A j \in M : d.slots[j].key = c.slots[j].key
      BY <1>2, <2>5 DEF SameData
    <3> QED BY <1>2, <2>5, <3>1, ChainsSame
  <2>7. Valid(d) = M
    BY <2>5 DEF Valid, M, SameData
  <2>8. KeysOnce(d) /\ CachedKeys(d) = CachedKeys(c)
    <3>1. \A j \in M : d.slots[j].key = c.slots[j].key
      BY <1>2, <2>5 DEF SameData
    <3>2. CachedKeys(d) = {d.slots[j].key : j \in M} /\ CachedKeys(c) = {c.slots[j].key : j \in M}
      BY <2>7, CachedIsValid DEF M
    <3> QED BY <2>7, <3>1, <3>2 DEF KeysOnce, CacheOK, M
  <2>9. Ordered(d, hh, Front(r, d, k))
    <3>0. \A j \in M : d.slots[j].key = c.slots[j].key
      BY <1>2, <2>5 DEF SameData
    <3> SUFFICES ASSUME NEW j \in M, NEW l \in M
                 PROVE  hh[l] < hh[j] <=> <<c.slots[j].key, c.slots[l].key>> \in Front(r, d, k)
      BY <2>7, <3>0 DEF Ordered
    <3> HIDE DEF hh
    <3>1. CASE j = i /\ l = i
      BY <1>2, <2>2, <3>1 DEF Front
    <3>2. CASE j = i /\ l # i
      BY <1>2, <1>3, <2>2, <2>8, <3>2 DEF Front, M
    <3>3. CASE j # i /\ l = i
      BY <1>2, <1>3, <2>2, <2>8, <3>3 DEF Front, M
    <3>4. CASE j # i /\ l # i
      BY <1>2, <1>3, <1>4, <2>2, <2>8, <3>4 DEF Front, Ordered, M
    <3> QED BY <3>1, <3>2, <3>3, <3>4
  <2>10. Linked(d, Front(r, d, k), hh, g, n + 1)
    <3>1. \A j \in M : hh[j] < n + 1 /\ g[j] < n + 1
      BY <1>2, <2>2 DEF Ranks
    <3> HIDE DEF hh
    <3> QED BY <1>2, <2>2, <2>4, <2>6, <2>7, <2>9, <3>1 DEF Linked
  <2> HIDE DEF hh
  <2> QED BY <1>2, <2>4, <2>5, <2>7, <2>8, <2>10 DEF CacheOK, Removed, M, Valid
<1> QED BY <1>5, <1>6

\* Two copies of a slot, one after the other.
LEMMA SameDataTransitive ==
    \A s, t, u : SameData(s, t) /\ SameData(t, u) => SameData(s, u)
BY DEF SameData

\* expire_l1_slot_ for the slots of S, one after the other.
LEMMA ExpireOK ==
    ASSUME NEW c, NEW r, CacheOK(c, r), NEW S \in SUBSET Slots
    PROVE  CacheOK(ExpireCache(c, S), r) /\ Removed(c, ExpireCache(c, S), S)
<1> DEFINE X == {d \in Cache : CacheOK(d, r)}
           Step(d, n) == IF n \in S THEN RemoveSlot(d, n) ELSE d
           G == [q \in X \X Nat |-> Step(q[1], q[2])]
           Body(left) == [n \in 0..Capacity |->
                            IF n = 0 THEN c ELSE Step(left[n - 1], n)]
<1>1. Capacity \in Nat /\ c \in X
  BY SlotNumbers DEF CacheOK
<1>2. ASSUME NEW d \in X, NEW n \in Nat
      PROVE  Step(d, n) \in X /\ Removed(d, Step(d, n), S \cap {n})
  <2>1. CASE n \in S /\ n \in Valid(d)
    <3>1. Step(d, n) = RemoveSlot(d, n) /\ S \cap {n} = {n}
      BY <2>1
    <3>2. CacheOK(Step(d, n), r) /\ Removed(d, Step(d, n), S \cap {n})
      BY <2>1, <3>1, RemoveOK
    <3> QED BY <3>2 DEF CacheOK
  <2>2. CASE ~ (n \in S /\ n \in Valid(d))
    <3>1. Step(d, n) = d
      BY <2>2 DEF RemoveSlot, Valid
    <3>2. Removed(d, d, S \cap {n})
      BY <2>2 DEF Removed, SameData
    <3> QED BY <3>1, <3>2
  <2> QED BY <2>1, <2>2
<1> HIDE DEF X, Step
<1>3. G \in [X \X Nat -> X]
  BY <1>2
<1>4. PICK f \in [0..Capacity -> X] :
          f[0] = c /\ \A n \in 1..Capacity : f[n] = Step(f[n - 1], n)
  <2>1. \E f : Iterated(f, X, c, G, Capacity)
    <3> HIDE DEF G
    <3> QED BY <1>1, <1>3, Iterates
  <2>2. PICK f : Iterated(f, X, c, G, Capacity)
    BY <2>1
  <2>3. f \in [0..Capacity -> X] /\ f[0] = c
    BY <2>2 DEF Iterated
  <2>4. ASSUME NEW n \in 1..Capacity PROVE f[n] = Step(f[n - 1], n)
    <3>1. f[n] = G[<<f[n - 1], n>>]
      <4> HIDE DEF G
      <4> QED BY <2>2 DEF Iterated
    <3>2. n \in Nat /\ f[n - 1] \in X
      BY <1>1, <2>3
    <3> QED BY <3>1, <3>2
  <2> QED BY <2>3, <2>4
<1>5. f = Body(f)
  <2>1. ASSUME NEW n \in 0..Capacity PROVE f[n] = Body(f)[n]
    <3>1. CASE n = 0
      BY <1>4, <3>1
    <3>2. CASE n # 0
      <4>1. n \in 1..Capacity
        BY <1>1, <3>2
      <4> QED BY <1>4, <3>2, <4>1
    <3> QED BY <3>1, <3>2
  <2> QED BY <2>1
<1> DEFINE left == CHOOSE left : left = Body(left)
<1>6. ExpireCache(c, S) = left[Capacity]
  BY DEF ExpireCache, Step
<1>7. left = Body(left)
  <2> HIDE DEF Body
  <2> QED BY <1>5
<1> HIDE DEF left
<1>8. /\ left[0] = c
      /\ \A n \in 1..Capacity : left[n] = Step(left[n - 1], n)
  BY <1>1, <1>7
\* After n steps the slots of S up to n are gone.
<1> DEFINE Gone(n) == left[n] \in X /\ Removed(c, left[n], S \cap 1..n)
           T == {n \in Nat : n \in 0..Capacity => Gone(n)}
<1>9. 0 \in T
  BY <1>1, <1>8 DEF Removed, SameData
<1>10. ASSUME NEW n \in Nat, n \in T PROVE n + 1 \in T
  <2> SUFFICES ASSUME n + 1 \in 0..Capacity PROVE Gone(n + 1)
    OBVIOUS
  <2>1. n \in 0..Capacity /\ n + 1 \in 1..Capacity /\ (n + 1) - 1 = n
    BY <1>1
  <2>2. left[n + 1] = Step(left[n], n + 1) /\ Gone(n)
    BY <1>8, <1>10, <2>1
  <2>3. left[n + 1] \in X /\ Removed(left[n], left[n + 1], S \cap {n + 1})
    BY <1>2, <2>2
  <2>4. S \cap 1..n + 1 = (S \cap 1..n) \cup (S \cap {n + 1})
    OBVIOUS
  <2>5. Valid(left[n + 1]) = Valid(c) \ (S \cap 1..n + 1)
    BY <2>2, <2>3, <2>4 DEF Removed
  <2>6. \A i \in Valid(left[n + 1]) :
            SameData(left[n + 1].slots[i], left[n].slots[i]) /\ SameData(left[n].slots[i], c.slots[i])
    BY <2>2, <2>3 DEF Removed
  <2>7. \A i \in Valid(left[n + 1]) : SameData(left[n + 1].slots[i], c.slots[i])
    BY <2>6, SameDataTransitive
  <2> QED BY <2>3, <2>5, <2>7 DEF Removed
<1>11. Capacity \in T
  <2> HIDE DEF T
  <2> QED BY <1>1, <1>9, <1>10, AllNumbers
<1>12. CacheOK(left[Capacity], r) /\ Removed(c, left[Capacity], S \cap 1..Capacity)
  BY <1>1, <1>11 DEF X
<1>13. S \cap 1..Capacity = S
  BY DEF Slots
<1> QED BY <1>6, <1>12, <1>13

---------------------------------------------------------------------------
(* What the slots and the records hold                                     *)

\* Nothing can be read of a record that is gone.
LEMMA NothingThere == L2!Visible(None, now) = None
BY DEF L2!Visible

\* SlotOK is about the contents of a slot.
LEMMA SlotOKSame ==
    \A s, t, d, m, f : SameData(s, t) /\ SlotOK(s, d, m, f) => SlotOK(t, d, m, f)
BY DEF SameData, SlotOK

\* A second level with a limit may lose any record.
LEMMA LostOK ==
    ASSUME MaxRecs # 0
    PROVE  /\ \A m : Below(None, m)
           /\ \A d, m, f : RecordOK(d, m, f) => RecordOK(None, m, f)
           /\ \A s, d, m, f : SlotOK(s, d, m, f) => SlotOK(s, None, m, f)
<1>1. ~ Lossless
  BY DEF Lossless
<1>2. \A m : Below(None, m)
  BY <1>1, NothingThere DEF Below
<1> QED BY <1>1, <1>2 DEF RecordOK, SlotOK

\* Of the records of S, some were lost to the limit and no other changed.
Kept(st, e, S) ==
    \A k \in S : e[k] = st[k] \/ (MaxRecs # 0 /\ e[k] = None)

\* A call for the key k leaves all others as they are.
LEMMA AgreeElsewhere ==
    ASSUME NEW c, NEW d, KeysOnce(c), KeysOnce(d),
           NEW st, NEW e, NEW m, NEW mm, NEW f, NEW ff, Agree(c, st, m, f),
           NEW k \in Keys, Kept(st, e, Keys \ {k}),
           \A j \in Keys \ {k} : mm[j] = m[j] /\ ff[j] = f[j],
           \A i \in Valid(c) : c.slots[i].key # k =>
                i \in Valid(d) /\ d.slots[i].key = c.slots[i].key,
           \A i \in Valid(d) : d.slots[i].key # k =>
                i \in Valid(c) /\ SameData(c.slots[i], d.slots[i]),
           RecordOK(e[k], mm[k], ff[k]),
           k \notin CachedKeys(d) => Below(e[k], mm[k]),
           \A i \in Valid(d) : d.slots[i].key = k => SlotOK(d.slots[i], e[k], mm[k], ff[k])
    PROVE  Agree(d, e, mm, ff)
<1>1. ASSUME NEW j \in Keys PROVE RecordOK(e[j], mm[j], ff[j])
  BY <1>1, LostOK DEF Agree, Kept
<1>2. ASSUME NEW j \in Keys \ CachedKeys(d) PROVE Below(e[j], mm[j])
  <2>1. CASE j = k
    BY <1>2, <2>1
  <2>2. CASE j # k
    <3>1. j \notin CachedKeys(c)
      <4> SUFFICES ASSUME NEW i \in Valid(c), c.slots[i].key = j PROVE FALSE
        BY CachedIsValid
      <4> QED BY <1>2, <2>2, CachedIsValid
    <3>2. Below(st[j], m[j])
      BY <3>1 DEF Agree
    <3> QED BY <2>2, <3>2, LostOK DEF Kept
  <2> QED BY <2>1, <2>2
<1>3. ASSUME NEW i \in Valid(d)
      PROVE  SlotOK(d.slots[i], e[d.slots[i].key], mm[d.slots[i].key], ff[d.slots[i].key])
  <2> DEFINE j == d.slots[i].key
  <2>1. CASE j = k
    BY <2>1
  <2>2. CASE j # k
    <3>1. i \in Valid(c) /\ SameData(c.slots[i], d.slots[i]) /\ c.slots[i].key = j /\ j \in Keys
      BY <2>2 DEF SameData, KeysOnce
    <3>2. SlotOK(c.slots[i], st[j], m[j], f[j])
      BY <3>1 DEF Agree
    <3>3. SlotOK(d.slots[i], st[j], m[j], f[j])
      BY <3>1, <3>2, SlotOKSame
    <3> QED BY <2>2, <3>1, <3>3, LostOK DEF Kept
  <2> QED BY <2>1, <2>2
<1> QED BY <1>1, <1>2, <1>3 DEF Agree

\* A slot that has expired covers nothing that callers still expect.
LEMMA AgreeExpired ==
    ASSUME NEW c, NEW d, KeysOnce(c), KeysOnce(d), NEW st \in Stores, NEW m, NEW f,
           Agree(c, st, m, f), NEW S \in SUBSET Valid(c), Removed(c, d, S),
           \A i \in S : IsExpired(c.slots[i])
    PROVE  ExpireStore(c, S, st) \in Stores /\ Agree(d, ExpireStore(c, S, st), m, f)
<1> DEFINE e == ExpireStore(c, S, st)
           K == {c.slots[i].key : i \in {j \in S : c.slots[j].in_l2}}
<1>1. e \in Stores /\ \A k \in Keys : e[k] = IF k \in K THEN None ELSE st[k]
  BY DEF ExpireStore, L2!Without, Stores
<1> HIDE DEF e
<1>2. ASSUME NEW i \in S
      PROVE  /\ c.slots[i].key \in Keys
             /\ e[c.slots[i].key] = None
             /\ \A mm : mm = m[c.slots[i].key] => Below(None, mm)
             /\ ~ Everlasting
  <2> DEFINE k == c.slots[i].key
  <2>1. k \in Keys /\ SlotOK(c.slots[i], st[k], m[k], f[k]) /\ RecordOK(st[k], m[k], f[k])
    BY DEF KeysOnce, Agree
  <2>2. e[k] = None
    <3>1. CASE c.slots[i].in_l2
      BY <1>1, <2>1, <3>1
    <3>2. CASE ~ c.slots[i].in_l2
      BY <1>1, <2>1, <3>2 DEF SlotOK
    <3> QED BY <3>1, <3>2
  <2>3. KeepsExpiry => m[k] # None /\ IsExpired(m[k])
    BY <2>1 DEF SlotOK, IsExpired
  <2>4. Below(None, m[k])
    BY <2>3, NothingThere DEF Below
  <2>5. ~ Everlasting
    BY <2>1, <2>3 DEF KeepsExpiry, RecordOK, IsExpired
  <2> QED BY <2>1, <2>2, <2>4, <2>5
<1>3. ASSUME NEW k \in Keys PROVE RecordOK(e[k], m[k], f[k])
  <2>1. RecordOK(st[k], m[k], f[k])
    BY DEF Agree
  <2>2. CASE S = {}
    BY <1>1, <2>1, <2>2
  <2>3. CASE S # {}
    BY <1>2, <2>3 DEF RecordOK
  <2> QED BY <2>2, <2>3
<1>4. ASSUME NEW k \in Keys \ CachedKeys(d) PROVE Below(e[k], m[k])
  <2>1. CASE \E i \in S : c.slots[i].key = k
    BY <1>2, <2>1
  <2>2. CASE \A i \in S : c.slots[i].key # k
    <3>1. e[k] = st[k]
      BY <1>1, <2>2
    <3>2. k \notin CachedKeys(c)
      <4> SUFFICES ASSUME NEW i \in Valid(c), c.slots[i].key = k PROVE FALSE
        BY CachedIsValid
      <4>1. i \in Valid(d) /\ d.slots[i].key = k
        BY <2>2 DEF Removed, SameData
      <4> QED BY <4>1, <1>4, CachedIsValid
    <3> QED BY <3>1, <3>2 DEF Agree
  <2> QED BY <2>1, <2>2
<1>5. ASSUME NEW i \in Valid(d)
      PROVE  SlotOK(d.slots[i], e[d.slots[i].key], m[d.slots[i].key], f[d.slots[i].key])
  <2> DEFINE k == d.slots[i].key
  <2>1. i \in Valid(c) \ S /\ SameData(d.slots[i], c.slots[i]) /\ SameData(c.slots[i], d.slots[i])
    BY DEF Removed, SameData
  <2>2. c.slots[i].key = k /\ k \in Keys
    BY <2>1 DEF SameData, KeysOnce
  <2>3. e[k] = st[k]
    BY <1>1, <2>1, <2>2 DEF KeysOnce
  <2>4. SlotOK(c.slots[i], st[k], m[k], f[k])
    BY <2>1, <2>2 DEF Agree
  <2> QED BY <2>1, <2>3, <2>4, SlotOKSame
<1>6. Agree(d, e, m, f)
  BY <1>3, <1>4, <1>5 DEF Agree
<1> QED BY <1>1, <1>6 DEF e

\* store.exists() and store.get() of a key that is not cached.
LEMMA LookedOK ==
    ASSUME NEW c, KeysOnce(c), NEW st \in Stores, NEW m, NEW f, Agree(c, st, m, f),
           NEW k \in Keys, k \notin CachedKeys(c)
    PROVE  Looked(st, k) \in Stores /\ Agree(c, Looked(st, k), m, f)
<1> DEFINE e == Looked(st, k)
<1>1. e \in Stores /\ e[k] = L2!Visible(st[k], now) /\ \A j \in Keys \ {k} : e[j] = st[j]
  BY DEF Looked, L2!Visible, Stores
<1>2. e[k] \in {None, st[k]} /\ L2!Visible(e[k], now) = L2!Visible(st[k], now)
  BY <1>1 DEF L2!Visible
<1> HIDE DEF e
<1>3. RecordOK(st[k], m[k], f[k]) /\ Below(st[k], m[k])
  BY DEF Agree
<1>4. RecordOK(e[k], m[k], f[k]) /\ Below(e[k], m[k])
  BY <1>2, <1>3 DEF RecordOK, Below, Answer, Tells, L2!Visible
<1>5. Kept(st, e, Keys \ {k})
  BY <1>1 DEF Kept
<1>6. \A i \in Valid(c) : c.slots[i].key # k /\ SameData(c.slots[i], c.slots[i])
  BY CachedIsValid DEF SameData
<1>7. Agree(c, e, m, f)
  BY <1>4, <1>5, <1>6, AgreeElsewhere
<1> QED BY <1>1, <1>7 DEF e

---------------------------------------------------------------------------
(* Writing to the second level                                             *)

\* KVStore counts as this module does.
LEMMA CountsAlike == \A S : L2!Cardinality(S) = Cardinality(S)
BY DEF L2!Cardinality, Cardinality

\* It evicts nothing that has no limit.
LEMMA NoVictims ==
    ASSUME NEW st, MaxRecs = 0, NEW E \in L2!Victims(st)
    PROVE  E = {}
<1>1. E \in SUBSET L2!Held(st) /\ Cardinality(E) = 0
  <2> DEFINE excess == IF MaxRecs = 0 THEN 0 ELSE Cardinality(L2!Held(st)) - MaxRecs
  <2>1. E \in SUBSET L2!Held(st) /\ Cardinality(E) = IF excess > 0 THEN excess ELSE 0
    BY CountsAlike DEF L2!Victims
  <2>2. excess = 0
    OBVIOUS
  <2> HIDE DEF excess
  <2> QED BY <2>1, <2>2
<1>2. IsFiniteSet(E)
  <2>1. E \in SUBSET Keys
    BY <1>1 DEF L2!Held
  <2> QED BY <2>1, FS_Subset, CacheParameters
<1> QED BY <1>1, <1>2, FS_EmptySet

\* e is st with the record r for the key k, as far as the limit leaves them.
Written(st, e, k, r) ==
    /\ e \in Stores /\ Kept(st, e, Keys \ {k})
    /\ e[k] = r \/ (MaxRecs # 0 /\ e[k] = None)

\* A put into the second level writes its record or, under a limit, may lose it.
LEMMA StoredOK ==
    ASSUME NEW st \in Stores, NEW k \in Keys, NEW r \in Records, NEW e \in Stored(st, k, r)
    PROVE  Written(st, e, k, r)
<1> DEFINE w == [st EXCEPT ![k] = r]
<1>1. w \in Stores /\ w[k] = r /\ \A j \in Keys \ {k} : w[j] = st[j]
  BY DEF Stores
<1>2. PICK E \in L2!Victims(w) : e = L2!Without(w, E)
  BY DEF Stored
<1> HIDE DEF w
<1>3. e \in Stores /\ \A j \in Keys : e[j] = IF j \in E THEN None ELSE w[j]
  BY <1>1, <1>2 DEF L2!Without, Stores
<1>4. MaxRecs = 0 => E = {}
  BY <1>2, NoVictims
<1> QED BY <1>1, <1>3, <1>4 DEF Written, Kept

\* No slot need cover the key k any more.
Settled(st, e, k, m, f) ==
    /\ e \in Stores /\ Kept(st, e, Keys \ {k})
    /\ RecordOK(e[k], m[k], f[k]) /\ Below(e[k], m[k])

\* What flush_l1_slot_ leaves of a slot's key.
Clean(st, e, s, m, f) ==
    /\ Settled(st, e, s.key, m, f)
    /\ MaxRecs = 0 /\ (s.dirty \/ s.in_l2) => e[s.key] # None

\* flush_l1_slot_ writes what the slot covers, if it has not expired.
LEMMA FlushOK ==
    ASSUME NEW c, c \in Cache, KeysOnce(c), NEW st \in Stores, NEW m \in Memory, NEW f,
           now \in 0..MaxTime,
           Agree(c, st, m, f), NEW i \in Valid(c), ~ IsExpired(c.slots[i]),
           NEW e \in Flushed(c.slots[i], st)
    PROVE  Clean(st, e, c.slots[i], m, f)
<1> DEFINE s == c.slots[i]
           k == s.key
<1>1. s \in Slot /\ k \in Keys
  BY DEF Cache, KeysOnce, Valid
<1>2. SlotOK(s, st[k], m[k], f[k]) /\ RecordOK(st[k], m[k], f[k])
  BY <1>1 DEF Agree
<1>3. CASE ~ s.dirty
  <2>1. e = st
    BY <1>3 DEF Flushed
  <2> QED BY <1>1, <1>2, <1>3, <2>1 DEF Clean, Settled, Kept, SlotOK
<1>4. CASE s.dirty
  <2> DEFINE r == [val |-> s.val, ts |-> now, ttl |-> RemainingTTL(s), prio |-> s.priority]
  <2>1. /\ RemainingTTL(s) \in Nat /\ s.expires_at \in Nat /\ now \in Nat
        /\ IF s.expires_at = 0 THEN RemainingTTL(s) = 0
           ELSE RemainingTTL(s) > 0 /\ now + RemainingTTL(s) = s.expires_at
    BY <1>1, CacheParameters DEF Slot, RemainingTTL, IsExpired
  <2>2. s.val \in Values
    BY <1>1, <1>2 DEF Slot, SlotOK
  <2>3. r \in Records /\ r # None
    BY <1>1, <2>1, <2>2, NoneIsNoRecord DEF Records, Slot
  <2>4. L2!Visible(r, now) = r
    <3>1. ~ (now > now)
      BY <2>1
    <3> QED BY <3>1 DEF L2!Visible, L2!Expired
  <2>5. RecordOK(r, m[k], f[k])
    <3>1. Everlasting => r.ttl = 0
      BY <1>2, <2>1 DEF RecordOK, SlotOK, KeepsExpiry
    <3>2. Lossless /\ Everlasting => Answer(r) \in f[k]
      BY <1>2, <2>3, <2>4 DEF Answer, SlotOK
    <3> HIDE DEF r
    <3> QED BY <1>2, <2>3, <3>1, <3>2 DEF RecordOK
  <2>6. Below(r, m[k])
    <3>1. KeepsExpiry => m[k] # None /\ Tells(r, m[k])
      BY <1>2, <2>1 DEF SlotOK, Tells
    <3> HIDE DEF r
    <3> QED BY <2>3, <2>4, <3>1 DEF Below
  <2>7. e \in Stored(st, k, r)
    BY <1>4 DEF Flushed
  <2> HIDE DEF r
  <2>8. Written(st, e, k, r)
    BY <1>1, <2>3, <2>7, StoredOK
  <2> QED BY <2>3, <2>5, <2>6, <2>8, LostOK DEF Written, Clean, Settled
<1> QED BY <1>3, <1>4

\* A slot whose key is settled may leave the cache, ...
LEMMA AgreeEvicted ==
    ASSUME NEW c, NEW d, KeysOnce(c), KeysOnce(d), NEW st, NEW e, NEW m, NEW f,
           Agree(c, st, m, f), NEW i \in Valid(c), Removed(c, d, {i}),
           Settled(st, e, c.slots[i].key, m, f)
    PROVE  Agree(d, e, m, f)
<1> DEFINE k == c.slots[i].key
<1>1. /\ k \in Keys /\ Kept(st, e, Keys \ {k})
      /\ RecordOK(e[k], m[k], f[k]) /\ Below(e[k], m[k])
  BY DEF KeysOnce, Settled
<1>2. Valid(d) = Valid(c) \ {i} /\ \A j \in Valid(d) : SameData(c.slots[j], d.slots[j])
  BY DEF Removed, SameData
<1>3. \A j \in Valid(c) \ {i} : c.slots[j].key # k /\ d.slots[j].key = c.slots[j].key
  BY <1>2 DEF KeysOnce, SameData
<1> HIDE DEF k
<1>4. \A j \in Valid(c) : c.slots[j].key # k => j \in Valid(d) /\ d.slots[j].key = c.slots[j].key
  BY <1>2, <1>3 DEF k
<1>5. \A j \in Valid(d) : /\ j \in Valid(c) /\ SameData(c.slots[j], d.slots[j])
                          /\ d.slots[j].key # k
  BY <1>2, <1>3
<1> QED BY <1>1, <1>4, <1>5, AgreeElsewhere

\* ... or stay, and be overwritten there without harm.
LEMMA AgreeCleaned ==
    ASSUME NEW c, NEW d, KeysOnce(c), KeysOnce(d), NEW st, NEW e, NEW m, NEW f,
           Agree(c, st, m, f), NEW i \in Valid(c), c.slots[i].dirty,
           Clean(st, e, c.slots[i], m, f), Valid(d) = Valid(c),
           \A j \in Valid(c) \ {i} : d.slots[j] = c.slots[j],
           d.slots[i] = [c.slots[i] EXCEPT !.dirty = FALSE, !.in_l2 = TRUE],
           c \in Cache
    PROVE  Agree(d, e, m, f)
<1> DEFINE k == c.slots[i].key
           s == c.slots[i]
           t == d.slots[i]
<1>1. /\ k \in Keys /\ Kept(st, e, Keys \ {k})
      /\ RecordOK(e[k], m[k], f[k]) /\ Below(e[k], m[k]) /\ (MaxRecs = 0 => e[k] # None)
  BY DEF KeysOnce, Clean, Settled
<1>2. /\ t.key = k /\ t.val = s.val /\ t.expires_at = s.expires_at
      /\ t.dirty = FALSE /\ t.in_l2 = TRUE
  BY DEF Cache, Slot, Valid
<1>3. SlotOK(t, e[k], m[k], f[k])
  <2>1. SlotOK(s, st[k], m[k], f[k])
    BY DEF Agree
  <2> HIDE DEF s, t, k
  <2> QED BY <1>1, <1>2, <2>1 DEF SlotOK
<1>4. \A j \in Valid(c) \ {i} : c.slots[j].key # k /\ d.slots[j] = c.slots[j]
  BY DEF KeysOnce
<1>5. \A j \in Valid(d) : d.slots[j].key = k => j = i
  BY <1>4
<1>6. k \in CachedKeys(d)
  BY <1>2, CachedIsValid
<1> HIDE DEF k
<1>7. \A j \in Valid(c) : c.slots[j].key # k => j \in Valid(d) /\ d.slots[j].key = c.slots[j].key
  BY <1>2, <1>4
<1>8. \A j \in Valid(d) : d.slots[j].key # k => j \in Valid(c) /\ SameData(c.slots[j], d.slots[j])
  BY <1>2, <1>4 DEF SameData
<1>9. \A j \in Valid(d) : d.slots[j].key = k => SlotOK(d.slots[j], e[k], m[k], f[k])
  BY <1>3, <1>5
<1> QED BY <1>1, <1>6, <1>7, <1>8, <1>9, AgreeElsewhere

---------------------------------------------------------------------------
(* allocate_l1_slot_                                                       *)

\* Where no slot is free, the last of the list is in use.
LEMMA TailInUse ==
    ASSUME NEW c, NEW r, CacheOK(c, r), Valid(c) = Slots
    PROVE  c.tail \in Slots
<1>1. PICK h, g, n : Linked(c, r, h, g, n)
  BY DEF CacheOK
<1>2. Highest(Slots, Reversed(h), c.tail)
  BY <1>1 DEF Linked, ListOf, Threaded
<1>3. Slots # {}
  BY CacheParameters DEF Slots
<1> QED BY <1>2, <1>3 DEF Highest

\* The slot allocated is free, and what it held is where it belongs.
Allocated(c, st, a, r, m, f) ==
    /\ a.store \in Stores /\ CacheOK(a.l1, r) /\ Agree(a.l1, a.store, m, f)
    /\ a.slot = Invalid => a.l1 = c /\ a.store = st
    /\ a.slot # Invalid => a.slot \in Slots /\ a.slot \notin Valid(a.l1)
    /\ CachedKeys(a.l1) \subseteq CachedKeys(c)
    /\ MaxRecs = 0 => \A k \in Keys \ CachedKeys(c) : a.store[k] = st[k]

\* allocate_l1_slot_ loses nothing: what it evicts is in the second level or has expired.
LEMMA AllocateOK ==
    ASSUME NEW c, NEW r, CacheOK(c, r), NEW st \in Stores, NEW m \in Memory, NEW f,
           now \in 0..MaxTime, Agree(c, st, m, f), NEW a \in Allocations(c, st)
    PROVE  Allocated(c, st, a, r, m, f)
<1> DEFINE free == {i \in Slots : ~c.slots[i].valid}
           i == c.tail
<1>1. /\ free \in SUBSET Nat /\ free \in SUBSET Slots /\ free \cap Valid(c) = {}
      /\ (free = {} => Valid(c) = Slots)
  BY SlotNumbers DEF Valid
<1>2. CASE free # {}
  <2>1. a = [slot |-> Min(free), l1 |-> c, store |-> st]
    BY <1>2 DEF Allocations
  <2>2. Min(free) \in free
    BY <1>1, <1>2, LeastNumber
  <2> HIDE DEF free
  <2> QED BY <1>1, <2>1, <2>2, SlotNumbers DEF Allocated
<1>3. CASE free = {}
  <2>1. Valid(c) = Slots /\ i \in Valid(c) /\ c.slots[i].key \in Keys
    BY <1>1, <1>3, TailInUse DEF CacheOK, KeysOnce
  \* A cache without the slot i may be filled there.
  <2>2. ASSUME NEW d, NEW e, CacheOK(d, r), Removed(c, d, {i}), e \in Stores,
               Agree(d, e, m, f), a = [slot |-> i, l1 |-> d, store |-> e],
               MaxRecs = 0 => \A k \in Keys \ CachedKeys(c) : e[k] = st[k]
        PROVE  Allocated(c, st, a, r, m, f)
    <3>1. CachedKeys(d) \subseteq CachedKeys(c)
      BY <2>2, CachedIsValid DEF Removed, SameData
    <3>2. i \notin Valid(d) /\ i # Invalid
      BY <2>1, <2>2, SlotNumbers DEF Removed
    <3> QED BY <2>1, <2>2, <3>1, <3>2 DEF Allocated
  <2>3. CASE IsExpired(c.slots[i])
    <3> DEFINE d == ExpireCache(c, {i})
               e == ExpireStore(c, {i}, st)
    <3>1. CacheOK(d, r) /\ Removed(c, d, {i})
      BY <2>1, ExpireOK
    <3>2. e \in Stores /\ Agree(d, e, m, f)
      BY <2>1, <2>3, <3>1, AgreeExpired DEF CacheOK
    <3>3. \A k \in Keys \ CachedKeys(c) : e[k] = st[k]
      BY <2>1, CachedIsValid DEF ExpireStore, L2!Without
    <3>4. a = [slot |-> i, l1 |-> d, store |-> e]
      BY <1>3, <2>3 DEF Allocations
    <3> HIDE DEF d, e
    <3> QED BY <2>2, <3>1, <3>2, <3>3, <3>4
  <2>4. CASE ~ IsExpired(c.slots[i])
    <3>1. CASE a = [slot |-> Invalid, l1 |-> c, store |-> st]
      BY <3>1 DEF Allocated
    <3>2. CASE \E e \in Flushed(c.slots[i], st) :
                  a = [slot |-> i, l1 |-> RemoveSlot(c, i), store |-> e]
      <4> DEFINE d == RemoveSlot(c, i)
      <4>1. PICK e \in Flushed(c.slots[i], st) : a = [slot |-> i, l1 |-> d, store |-> e]
        BY <3>2
      <4>2. CacheOK(d, r) /\ Removed(c, d, {i})
        BY <2>1, RemoveOK
      <4> HIDE DEF d
      <4>3. Clean(st, e, c.slots[i], m, f)
        BY <2>1, <2>4, FlushOK DEF CacheOK
      <4>4. e \in Stores /\ Agree(d, e, m, f)
        BY <2>1, <4>2, <4>3, AgreeEvicted DEF CacheOK, Clean, Settled
      <4>5. MaxRecs = 0 => \A k \in Keys \ CachedKeys(c) : e[k] = st[k]
        BY <2>1, <4>3, CachedIsValid DEF Clean, Settled, Kept
      <4> QED BY <2>2, <4>1, <4>2, <4>4, <4>5
    <3> QED BY <1>3, <2>4, <3>1, <3>2 DEF Allocations
  <2> QED BY <2>3, <2>4
<1> QED BY <1>2, <1>3

---------------------------------------------------------------------------
(* The inductive invariant                                                 *)

\* The variables are of their types, the slots are linked in the order of use,
\* and the levels agree with what callers were told.
IInv == TypeOK /\ CacheOK(l1, recent) /\ TieredInv

\* A new store is in order.
LEMMA InitIInv == Init => IInv
<1> SUFFICES ASSUME Init PROVE IInv
  OBVIOUS
<1>1. CacheOK(l1, recent) /\ Valid(l1) = {} /\ l1 \in Cache
  BY EmptyOK DEF Init, CacheOK
<1>2. TypeOK
  BY <1>1, CacheParameters DEF Init, TypeOK, Cache, Link, Stores, Memory, Fallbacks
<1>3. Agree(l1, store, last, safe)
  <2>1. RecordOK(None, None, {None}) /\ Below(None, None)
    BY NothingThere DEF RecordOK, Below, Answer
  <2> QED BY <1>1, <2>1 DEF Init, Agree
<1>4. SyncOK
  BY DEF Init, SyncOK
<1> QED BY <1>1, <1>2, <1>3, <1>4 DEF IInv, TieredInv

\* While the clock stands still, a step is judged by its own time.
LEMMA SameTime ==
    ASSUME now' = now, Agree(l1', store', last', safe')
    PROVE  Agree(l1, store, last, safe)'
BY DEF Agree, CachedKeys, Valid, RecordOK, SlotOK, Below, Answer, IsExpired

\* What a step has to show.
LEMMA StepOK ==
    ASSUME IInv, now' = now, CacheOK(l1', recent'), Agree(l1', store', last', safe'),
           store' \in Stores, last' \in Memory, safe' \in Fallbacks,
           pc' \in {"idle", "sync"}, todo' \subseteq Slots, sync_ok' \in BOOLEAN, SyncOK'
    PROVE  IInv'
<1>1. TypeOK'
  BY DEF IInv, TypeOK, CacheOK, Cache, Link
<1>2. Agree(l1, store, last, safe)'
  BY SameTime
<1> QED BY <1>1, <1>2 DEF IInv, TieredInv

\* A call that is over when the step is.
LEMMA CallOK ==
    ASSUME IInv, NEW o, Idle(o), CacheOK(l1', recent'), Agree(l1', store', last', safe'),
           store' \in Stores, last' \in Memory, safe' \in Fallbacks
    PROVE  IInv'
<1>1. SyncOK'
  BY DEF IInv, TieredInv, SyncOK, Idle
<1> QED BY <1>1, StepOK DEF IInv, TypeOK, Idle

\* What the steps below start from.
LEMMA Known ==
    ASSUME IInv
    PROVE  /\ l1 \in Cache /\ CacheOK(l1, recent) /\ KeysOnce(l1)
           /\ store \in Stores /\ last \in Memory /\ safe \in Fallbacks
           /\ now \in 0..MaxTime /\ now \in Nat
           /\ Agree(l1, store, last, safe) /\ SyncOK
BY CacheParameters DEF IInv, TypeOK, CacheOK, TieredInv

\* prune_expired_l1_
Prunes(c, st, r, m, f) ==
    /\ CacheOK(Pruned(c), r) /\ PrunedStore(c, st) \in Stores
    /\ Agree(Pruned(c), PrunedStore(c, st), m, f)
    /\ \A i \in Valid(Pruned(c)) : ~ IsExpired(Pruned(c).slots[i])

\* prune_expired_l1_ leaves the invariant, and no slot that has expired.
LEMMA PruneOK ==
    ASSUME NEW c, NEW r, CacheOK(c, r), NEW st \in Stores, NEW m, NEW f, Agree(c, st, m, f)
    PROVE  Prunes(c, st, r, m, f)
<1> DEFINE S == ExpiredSlots(c)
           d == Pruned(c)
<1>1. S \in SUBSET Slots /\ S \in SUBSET Valid(c) /\ \A i \in S : IsExpired(c.slots[i])
  BY DEF ExpiredSlots, Valid
<1>2. d = ExpireCache(c, S) /\ PrunedStore(c, st) = ExpireStore(c, S, st)
  BY DEF Pruned, PrunedStore
<1> HIDE DEF d
<1>3. CacheOK(d, r) /\ Removed(c, d, S)
  <2> HIDE DEF S
  <2> QED BY <1>1, <1>2, ExpireOK
<1>4. PrunedStore(c, st) \in Stores /\ Agree(d, PrunedStore(c, st), m, f)
  <2> HIDE DEF S
  <2> QED BY <1>1, <1>2, <1>3, AgreeExpired DEF CacheOK
<1>5. ASSUME NEW i \in Valid(d) PROVE ~ IsExpired(d.slots[i])
  <2>1. i \in Valid(c) /\ i \notin S /\ d.slots[i].expires_at = c.slots[i].expires_at
    BY <1>3 DEF Removed, SameData
  <2> QED BY <2>1 DEF ExpiredSlots, Valid, IsExpired
<1> QED BY <1>3, <1>4, <1>5 DEF Prunes, d

---------------------------------------------------------------------------
(* put()                                                                   *)

\* What callers remember of a put is what the slot has.
LEMMA PutRemembered ==
    ASSUME IInv, NEW k \in Keys, NEW p \in Payloads, Answered(k, p)
    PROVE  /\ last' \in Memory /\ safe' \in Fallbacks
           /\ last'[k] = [val |-> p.val, expires_at |-> ExpiresAt(p.ttl)] /\ last'[k] # None
           /\ safe'[k] = safe[k] \cup {p.val}
           /\ \A j \in Keys \ {k} : last'[j] = last[j] /\ safe'[j] = safe[j]
           /\ ExpiresAt(p.ttl) \in Nat /\ (Everlasting => ExpiresAt(p.ttl) = 0)
           /\ p.val \in Values /\ p.val # None /\ p.prio \in Nat
<1>1. p.ttl \in Nat /\ p.prio \in Nat /\ p.val # None /\ p.val \in Values
  BY CacheParameters DEF Values
<1>2. ExpiresAt(p.ttl) \in Nat /\ (Everlasting => ExpiresAt(p.ttl) = 0)
  BY <1>1, Known DEF ExpiresAt, Everlasting
<1> DEFINE mem == [val |-> p.val, expires_at |-> ExpiresAt(p.ttl)]
<1>3. mem \in Memories /\ mem # None
  BY <1>1, <1>2, NoneIsNoRecord DEF Memories
<1>4. last \in Memory /\ safe \in Fallbacks
  BY Known
<1>5. last' = [last EXCEPT ![k] = mem] /\ safe' = [safe EXCEPT ![k] = @ \cup {p.val}]
  BY DEF Answered
<1> HIDE DEF mem
<1>6. last' \in Memory /\ last'[k] = mem /\ \A j \in Keys \ {k} : last'[j] = last[j]
  BY <1>3, <1>4, <1>5 DEF Memory
<1>7. /\ safe' \in Fallbacks /\ safe'[k] = safe[k] \cup {p.val}
      /\ \A j \in Keys \ {k} : safe'[j] = safe[j]
  BY <1>1, <1>4, <1>5 DEF Fallbacks
<1> QED BY <1>1, <1>2, <1>3, <1>6, <1>7 DEF mem

\* A slot that holds what was put is right, whatever it covers.
LEMMA PutSlotOK ==
    ASSUME IInv, NEW k \in Keys, NEW p \in Payloads, Answered(k, p),
           NEW d, RecordOK(d, last[k], safe[k]),
           NEW s, s.val = p.val, s.expires_at = ExpiresAt(p.ttl), s.dirty,
           ~ s.in_l2 => d = None, MaxRecs = 0 /\ s.in_l2 => d # None
    PROVE  SlotOK(s, d, last'[k], safe'[k]) /\ RecordOK(d, last'[k], safe'[k])
<1>1. /\ last'[k] # None /\ last'[k].val = p.val /\ last'[k].expires_at = ExpiresAt(p.ttl)
      /\ safe'[k] = safe[k] \cup {p.val}
      /\ (Everlasting => ExpiresAt(p.ttl) = 0) /\ p.val # None
  <2>1. last'[k] = [val |-> p.val, expires_at |-> ExpiresAt(p.ttl)]
    BY PutRemembered
  <2> QED BY <2>1, PutRemembered
<1>2. SlotOK(s, d, last'[k], safe'[k])
  BY <1>1 DEF SlotOK
<1>3. RecordOK(d, last'[k], safe'[k])
  BY <1>1 DEF RecordOK
<1> QED BY <1>2, <1>3

\* put() of a cached key.
LEMMA PutCachedOK ==
    ASSUME IInv, NEW k \in Keys, NEW p \in Payloads, PutCached(k, p)
    PROVE  IInv'
<1> DEFINE c == Pruned(l1)
           e == PrunedStore(l1, store)
           i == FindL1(c, k)
           s == [c.slots[i] EXCEPT !.val = p.val, !.expires_at = ExpiresAt(p.ttl),
                                   !.priority = p.prio, !.dirty = TRUE]
           b == [c EXCEPT !.slots[i] = s]
<1>1. /\ Idle("put") /\ i # Invalid /\ store' = e /\ Answered(k, p)
      /\ l1' = Touch([c EXCEPT !.slots[i].val = p.val,
                               !.slots[i].expires_at = ExpiresAt(p.ttl),
                               !.slots[i].priority = p.prio,
                               !.slots[i].dirty = TRUE], i)
  BY DEF PutCached
<1>2. CacheOK(c, recent) /\ e \in Stores /\ Agree(c, e, last, safe)
  BY Known, PruneOK DEF Prunes
<1>3. c \in Cache /\ KeysOnce(c) /\ i \in Valid(c) /\ i \in Slots /\ c.slots[i].key = k
  BY <1>1, <1>2, FindOK DEF Finds, CacheOK, Valid
<1> HIDE DEF c, e, i
<1>4. /\ c.slots[i] \in Slot
      /\ [c EXCEPT !.slots[i].val = p.val, !.slots[i].expires_at = ExpiresAt(p.ttl),
                   !.slots[i].priority = p.prio, !.slots[i].dirty = TRUE] = b
  BY <1>3 DEF Cache
<1>5. /\ s \in Slot /\ s.key = k /\ s.valid /\ s.prev = c.slots[i].prev
      /\ s.next = c.slots[i].next /\ s.hash_next = c.slots[i].hash_next
      /\ s.val = p.val /\ s.expires_at = ExpiresAt(p.ttl) /\ s.dirty
      /\ s.in_l2 = c.slots[i].in_l2
  BY <1>1, <1>3, <1>4, PutRemembered DEF Slot, Valid
<1> HIDE DEF s
<1>6. /\ CacheOK(b, recent) /\ Valid(b) = Valid(c) /\ b.slots[i] = s
      /\ \A j \in Valid(c) \ {i} : b.slots[j] = c.slots[j]
  <2>1. b = [c EXCEPT !.slots[i] = s]
    OBVIOUS
  <2> HIDE DEF b
  <2>2. SamePlace(s, c.slots[i])
    BY <1>3, <1>5 DEF SamePlace
  <2>3. Assigned(c, recent, [c EXCEPT !.slots[i] = s], i, s)
    BY <1>2, <1>3, <1>5, <2>2, AssignOK
  <2> QED BY <2>1, <2>3 DEF Assigned
<1>7. l1' = Touch(b, i)
  BY <1>1, <1>4
<1> HIDE DEF b
<1>8. CacheOK(l1', Front(recent, l1', k)) /\ Removed(b, l1', {})
  BY <1>3, <1>5, <1>6, <1>7, TouchOK
<1>9. CacheOK(l1', recent')
  BY <1>1, <1>8, HistoryOrders DEF Answered
<1>10. /\ Valid(l1') = Valid(c) /\ SameData(l1'.slots[i], s)
       /\ \A j \in Valid(c) \ {i} : SameData(c.slots[j], l1'.slots[j]) /\ l1'.slots[j].key # k
  <2>1. /\ Valid(l1') = Valid(c) /\ SameData(l1'.slots[i], s)
        /\ \A j \in Valid(c) \ {i} : SameData(c.slots[j], l1'.slots[j])
    BY <1>3, <1>6, <1>8 DEF Removed, SameData
  <2> QED BY <2>1, <1>3 DEF KeysOnce, SameData
<1>11. SlotOK(s, e[k], last'[k], safe'[k]) /\ RecordOK(e[k], last'[k], safe'[k])
  <2>1. SlotOK(c.slots[i], e[k], last[k], safe[k]) /\ RecordOK(e[k], last[k], safe[k])
    BY <1>2, <1>3 DEF Agree
  <2>2. (~ s.in_l2 => e[k] = None) /\ (MaxRecs = 0 /\ s.in_l2 => e[k] # None)
    BY <1>5, <2>1 DEF SlotOK
  <2> QED BY <1>1, <1>5, <2>1, <2>2, PutSlotOK
<1>12. SlotOK(l1'.slots[i], e[k], last'[k], safe'[k])
  BY <1>10, <1>11, SlotOKSame DEF SameData
<1>13. k \in CachedKeys(l1') /\ KeysOnce(l1')
  BY <1>3, <1>5, <1>9, <1>10, CachedIsValid DEF SameData, CacheOK
<1>14. Agree(l1', e, last', safe')
  <2>1. Kept(e, e, Keys \ {k})
    BY DEF Kept
  <2>2. \A j \in Valid(c) : c.slots[j].key # k =>
            j \in Valid(l1') /\ l1'.slots[j].key = c.slots[j].key
    BY <1>3, <1>10 DEF SameData
  <2>3. \A j \in Valid(l1') : l1'.slots[j].key # k =>
            j \in Valid(c) /\ SameData(c.slots[j], l1'.slots[j])
    BY <1>5, <1>10 DEF SameData
  <2>4. \A j \in Valid(l1') : l1'.slots[j].key = k =>
            SlotOK(l1'.slots[j], e[k], last'[k], safe'[k])
    BY <1>10, <1>12
  <2>5. \A j \in Keys \ {k} : last'[j] = last[j] /\ safe'[j] = safe[j]
    BY <1>1, PutRemembered
  <2> QED BY <1>2, <1>3, <1>11, <1>13, <2>1, <2>2, <2>3, <2>4, <2>5, AgreeElsewhere
<1>15. last' \in Memory /\ safe' \in Fallbacks
  BY <1>1, PutRemembered
<1> QED BY <1>1, <1>2, <1>9, <1>14, <1>15, CallOK

\* A slot is filled for a key that was not cached.
LEMMA AgreeFilled ==
    ASSUME NEW c, NEW r, CacheOK(c, r), NEW st, NEW m, NEW mm, NEW f, NEW ff,
           Agree(c, st, m, f), NEW i \in Slots, i \notin Valid(c),
           NEW s \in Slot, s.valid, s.key \in Keys, s.key \notin CachedKeys(c),
           \A j \in Keys \ {s.key} : mm[j] = m[j] /\ ff[j] = f[j],
           RecordOK(st[s.key], mm[s.key], ff[s.key]),
           SlotOK(s, st[s.key], mm[s.key], ff[s.key])
    PROVE  /\ CacheOK(Fill(c, i, s), Front(r, Fill(c, i, s), s.key))
           /\ Agree(Fill(c, i, s), st, mm, ff)
<1> DEFINE d == Fill(c, i, s)
           k == s.key
<1>1. \A j \in Valid(c) : c.slots[j].key # k
  BY CachedIsValid
<1>2. /\ CacheOK(d, Front(r, d, k)) /\ Valid(d) = Valid(c) \cup {i}
      /\ SameData(d.slots[i], s)
      /\ \A j \in Valid(c) : SameData(d.slots[j], c.slots[j])
  BY <1>1, FillOK
<1> HIDE DEF d
<1>3. /\ \A j \in Valid(c) : j \in Valid(d) /\ d.slots[j].key = c.slots[j].key
      /\ \A j \in Valid(d) : d.slots[j].key # k =>
              j \in Valid(c) /\ SameData(c.slots[j], d.slots[j])
      /\ \A j \in Valid(d) : d.slots[j].key = k => j = i
      /\ SameData(s, d.slots[i]) /\ k \in CachedKeys(d)
  BY <1>1, <1>2, CachedIsValid DEF SameData
<1>4. SlotOK(d.slots[i], st[k], mm[k], ff[k])
  BY <1>3, SlotOKSame
<1>5. Kept(st, st, Keys \ {k}) /\ KeysOnce(c) /\ KeysOnce(d)
  BY <1>2 DEF Kept, CacheOK
<1>6. \A j \in Valid(d) : d.slots[j].key = k => SlotOK(d.slots[j], st[k], mm[k], ff[k])
  BY <1>3, <1>4
<1> HIDE DEF k
<1>7. k \in Keys /\ RecordOK(st[k], mm[k], ff[k]) /\ \A j \in Keys \ {k} : mm[j] = m[j] /\ ff[j] = f[j]
  BY DEF k
<1>8. Agree(d, st, mm, ff)
  BY <1>3, <1>5, <1>6, <1>7, AgreeElsewhere
<1> QED BY <1>2, <1>8 DEF d, k

\* put() of a key that is not cached, with eviction or without, or refused.
LEMMA PutNewOK ==
    ASSUME IInv, NEW k \in Keys, NEW p \in Payloads, PutNew(k, p)
    PROVE  IInv'
<1> DEFINE c == Pruned(l1)
           e == PrunedStore(l1, store)
<1>1. /\ Idle("put") /\ FindL1(c, k) = Invalid
      /\ \E a \in Allocations(c, e) :
            IF a.slot = Invalid
            THEN /\ l1' = a.l1 /\ store' = a.store
                 /\ recent' = Remaining(l1')
                 /\ UNCHANGED <<last, safe>>
            ELSE /\ store' = Looked(a.store, k)
                 /\ l1' = Fill(a.l1, a.slot, NewSlot(k, p, store'[k] # None))
                 /\ Answered(k, p)
  BY DEF PutNew
<1>2. CacheOK(c, recent) /\ e \in Stores /\ Agree(c, e, last, safe)
  BY Known, PruneOK DEF Prunes
<1>3. k \notin CachedKeys(c)
  BY <1>1, <1>2, FindOK, CachedIsValid DEF Finds
<1> HIDE DEF c, e
<1>4. PICK a \in Allocations(c, e) :
            IF a.slot = Invalid
            THEN /\ l1' = a.l1 /\ store' = a.store
                 /\ recent' = Remaining(l1')
                 /\ UNCHANGED <<last, safe>>
            ELSE /\ store' = Looked(a.store, k)
                 /\ l1' = Fill(a.l1, a.slot, NewSlot(k, p, store'[k] # None))
                 /\ Answered(k, p)
  BY <1>1
<1>5. Allocated(c, e, a, recent, last, safe)
  BY <1>2, Known, AllocateOK
\* No slot could be had.
<1>6. CASE a.slot = Invalid
  <2>1. l1' = c /\ store' = e /\ recent' = Cut(recent, l1') /\ last' = last /\ safe' = safe
    BY <1>4, <1>5, <1>6, HistoryOrders DEF Allocated
  <2>2. CacheOK(l1', recent')
    BY <1>2, <2>1, CutOK
  <2> QED BY <1>1, <1>2, <2>1, <2>2, Known, CallOK
<1>7. CASE a.slot # Invalid
  <2> DEFINE s == NewSlot(k, p, store'[k] # None)
  <2>1. /\ store' = Looked(a.store, k) /\ l1' = Fill(a.l1, a.slot, s) /\ Answered(k, p)
        /\ recent' = Front(recent, l1', k)
    BY <1>4, <1>7, HistoryOrders DEF Answered
  <2>2. /\ CacheOK(a.l1, recent) /\ a.store \in Stores /\ Agree(a.l1, a.store, last, safe)
        /\ a.slot \in Slots /\ a.slot \notin Valid(a.l1) /\ k \notin CachedKeys(a.l1)
    BY <1>3, <1>5, <1>7 DEF Allocated
  <2>3. store' \in Stores /\ Agree(a.l1, store', last, safe)
    BY <2>1, <2>2, LookedOK DEF CacheOK
  <2>4. /\ s \in Slot /\ s.valid /\ s.key = k /\ s.val = p.val
        /\ s.expires_at = ExpiresAt(p.ttl) /\ s.dirty /\ s.in_l2 = (store'[k] # None)
    <3>1. ExpiresAt(p.ttl) \in Nat /\ p.val \in Values /\ p.prio \in Nat
      BY <2>1, PutRemembered
    <3> QED BY <3>1 DEF NewSlot, EmptySlot, Slot, Invalid
  <2> HIDE DEF s
  <2>5. SlotOK(s, store'[k], last'[k], safe'[k]) /\ RecordOK(store'[k], last'[k], safe'[k])
    <3>1. RecordOK(store'[k], last[k], safe[k])
      BY <2>3 DEF Agree
    <3> QED BY <2>1, <2>4, <3>1, PutSlotOK
  <2>6. \A j \in Keys \ {k} : last'[j] = last[j] /\ safe'[j] = safe[j]
    BY <2>1, PutRemembered
  <2>7. CacheOK(l1', recent') /\ Agree(l1', store', last', safe')
    BY <2>1, <2>2, <2>3, <2>4, <2>5, <2>6, AgreeFilled
  <2>8. last' \in Memory /\ safe' \in Fallbacks
    BY <2>1, PutRemembered
  <2> QED BY <1>1, <2>3, <2>7, <2>8, CallOK
<1> QED BY <1>6, <1>7

---------------------------------------------------------------------------
(* get(), exists(), remove(), clear() and the iterator                     *)

\* The order of the list does not matter.
LEMMA AgreeTouched ==
    ASSUME NEW c, NEW d, NEW st, NEW m, NEW f, Agree(c, st, m, f), Removed(c, d, {})
    PROVE  Agree(d, st, m, f)
<1>1. Valid(d) = Valid(c) /\ \A i \in Valid(c) : SameData(c.slots[i], d.slots[i])
  BY DEF Removed, SameData
<1>2. CachedKeys(d) = CachedKeys(c)
  <2>1. CachedKeys(d) = {d.slots[i].key : i \in Valid(c)}
    BY <1>1, CachedIsValid
  <2>2. \A i \in Valid(c) : d.slots[i].key = c.slots[i].key
    BY <1>1 DEF SameData
  <2> QED BY <2>1, <2>2, CachedIsValid
<1>3. ASSUME NEW i \in Valid(d)
      PROVE  SlotOK(d.slots[i], st[d.slots[i].key], m[d.slots[i].key], f[d.slots[i].key])
  <2>1. SlotOK(c.slots[i], st[c.slots[i].key], m[c.slots[i].key], f[c.slots[i].key])
    BY <1>1 DEF Agree
  <2>2. SameData(c.slots[i], d.slots[i]) /\ d.slots[i].key = c.slots[i].key
    BY <1>1 DEF SameData
  <2> QED BY <2>1, <2>2, SlotOKSame
<1> QED BY <1>2, <1>3 DEF Agree

\* get() and exists() of a cached key.
LEMMA ReadCachedOK ==
    ASSUME IInv, NEW k \in Keys, ReadCached(k)
    PROVE  IInv'
<1> DEFINE i == FindL1(l1, k)
<1>1. i \in Valid(l1) /\ l1.slots[i].key = k /\ i \in Slots
  BY Known, FindOK DEF ReadCached, Finds, Valid
<1>2. /\ last' = last /\ safe' = safe
      /\ \/ /\ IsExpired(l1.slots[i])
            /\ \E o \in {"get", "exists"} : Idle(o)
            /\ l1' = ExpireCache(l1, {i})
            /\ store' = ExpireStore(l1, {i}, store)
            /\ recent' = Remaining(l1')
         \/ /\ Idle("get")
            /\ l1' = Touch(l1, i)
            /\ recent' = Used(l1, k)
            /\ store' = store
  BY DEF ReadCached
<1> HIDE DEF i
<1>3. CASE /\ IsExpired(l1.slots[i])
           /\ \E o \in {"get", "exists"} : Idle(o)
           /\ l1' = ExpireCache(l1, {i})
           /\ store' = ExpireStore(l1, {i}, store)
           /\ recent' = Remaining(l1')
  <2>1. CacheOK(l1', recent) /\ Removed(l1, l1', {i})
    BY <1>1, <1>3, Known, ExpireOK
  <2>2. store' \in Stores /\ Agree(l1', store', last', safe')
    BY <1>1, <1>2, <1>3, <2>1, Known, AgreeExpired DEF CacheOK
  <2>3. CacheOK(l1', recent')
    BY <1>3, <2>1, CutOK, HistoryOrders
  <2>4. PICK o \in {"get", "exists"} : Idle(o)
    BY <1>3
  <2> QED BY <1>2, <2>2, <2>3, <2>4, Known, CallOK
<1>4. CASE /\ Idle("get")
           /\ l1' = Touch(l1, i)
           /\ recent' = Used(l1, k)
           /\ store' = store
  <2>1. CacheOK(l1', Front(recent, l1', k)) /\ Removed(l1, l1', {})
    BY <1>1, <1>4, Known, TouchOK
  <2>2. recent' = Front(recent, l1', k)
    <3>1. CachedKeys(l1') = CachedKeys(l1)
      <4>1. Valid(l1') = Valid(l1) /\ \A j \in Valid(l1) : l1'.slots[j].key = l1.slots[j].key
        BY <2>1 DEF Removed, SameData
      <4>2. CachedKeys(l1') = {l1'.slots[j].key : j \in Valid(l1)}
        BY <4>1, CachedIsValid
      <4> QED BY <4>1, <4>2, CachedIsValid
    <3> QED BY <1>4, <3>1, HistoryOrders DEF Front
  <2>3. Agree(l1', store', last', safe')
    BY <1>2, <1>4, <2>1, Known, AgreeTouched
  <2> QED BY <1>2, <1>4, <2>1, <2>2, <2>3, Known, CallOK
<1> QED BY <1>2, <1>3, <1>4

\* get() of a key that only the second level has.
LEMMA PromoteOK ==
    ASSUME IInv, NEW k \in Keys, Promote(k)
    PROVE  IInv'
<1> DEFINE d == L2!Visible(store[k], now)
           s == [EmptySlot EXCEPT !.key = k, !.val = d.val, !.valid = TRUE, !.in_l2 = TRUE]
<1>1. /\ Idle("get") /\ FindL1(l1, k) = Invalid /\ d # None
      /\ last' = last /\ safe' = safe
      /\ \E a \in Allocations(l1, store) :
            /\ store' = a.store
            /\ l1' = IF a.slot = Invalid THEN a.l1 ELSE Fill(a.l1, a.slot, s)
            /\ recent' = IF a.slot = Invalid THEN recent ELSE Used(l1', k)
  BY DEF Promote
<1>2. PICK a \in Allocations(l1, store) :
            /\ store' = a.store
            /\ l1' = IF a.slot = Invalid THEN a.l1 ELSE Fill(a.l1, a.slot, s)
            /\ recent' = IF a.slot = Invalid THEN recent ELSE Used(l1', k)
  BY <1>1
<1>3. Allocated(l1, store, a, recent, last, safe)
  BY Known, AllocateOK
<1>4. k \notin CachedKeys(l1)
  BY <1>1, Known, FindOK, CachedIsValid DEF Finds
<1>5. d = store[k] /\ d \in Records /\ Below(d, last[k]) /\ RecordOK(d, last[k], safe[k])
  <2>1. d = store[k] /\ store[k] \in Records
    BY <1>1, Known DEF L2!Visible, Stores
  <2> QED BY <1>4, <2>1, Known DEF Agree
<1>6. /\ s \in Slot /\ s.valid /\ s.key = k /\ s.val = d.val
      /\ s.expires_at = 0 /\ ~ s.dirty /\ s.in_l2
  <2>1. d.val \in Values
    BY <1>5 DEF Records
  <2> HIDE DEF d
  <2> QED BY <2>1 DEF EmptySlot, Slot, Invalid
<1>7. L2!Visible(d, now) = d
  BY <1>5
<1> HIDE DEF d, s
<1>8. CASE a.slot = Invalid
  <2>1. l1' = l1 /\ store' = store /\ recent' = recent
    BY <1>2, <1>3, <1>8 DEF Allocated
  <2> QED BY <1>1, <2>1, Known, CallOK
<1>9. CASE a.slot # Invalid
  <2>1. /\ CacheOK(a.l1, recent) /\ store' \in Stores /\ Agree(a.l1, store', last, safe)
        /\ a.slot \in Slots /\ a.slot \notin Valid(a.l1) /\ k \notin CachedKeys(a.l1)
        /\ (MaxRecs = 0 => store'[k] = store[k])
    BY <1>2, <1>3, <1>4, <1>9 DEF Allocated
  <2>2. RecordOK(store'[k], last[k], safe[k]) /\ Below(store'[k], last[k])
    BY <2>1 DEF Agree
  <2>3. SlotOK(s, store'[k], last[k], safe[k])
    <3>1. s.val # None
      BY <1>5, <1>6, CacheParameters DEF Records, Values
    <3>2. KeepsExpiry => last[k] # None /\ s.val = last[k].val /\ s.expires_at = last[k].expires_at
      <4>1. KeepsExpiry => Everlasting /\ last[k] # None /\ d.val = last[k].val
        BY <1>1, <1>5, <1>7 DEF KeepsExpiry, Idle, Below, Tells
      <4> QED BY <1>5, <1>6, <4>1 DEF RecordOK
    <3>3. Lossless /\ Everlasting => s.val \in safe[k]
      BY <1>1, <1>5, <1>6, <1>7 DEF RecordOK, Answer
    <3>4. MaxRecs = 0 => store'[k] # None
      BY <1>1, <1>5, <2>1
    <3> QED BY <1>6, <2>2, <3>1, <3>2, <3>3, <3>4 DEF SlotOK
  <2>4. l1' = Fill(a.l1, a.slot, s) /\ recent' = Front(recent, l1', k)
    BY <1>2, <1>9, HistoryOrders
  <2>5. CacheOK(l1', recent') /\ Agree(l1', store', last, safe)
    BY <1>6, <2>1, <2>2, <2>3, <2>4, AgreeFilled
  <2> QED BY <1>1, <2>1, <2>5, Known, CallOK
<1> QED BY <1>8, <1>9

\* get() and exists() of a key that has expired in the second level.
LEMMA ReadBeneathOK ==
    ASSUME IInv, NEW k \in Keys, ReadBeneath(k)
    PROVE  IInv'
<1>1. PICK o \in {"get", "exists"} : Idle(o)
  BY DEF ReadBeneath
<1>2. /\ FindL1(l1, k) = Invalid /\ store' = Looked(store, k)
      /\ l1' = l1 /\ last' = last /\ safe' = safe /\ recent' = recent
  BY DEF ReadBeneath, history
<1>3. k \notin CachedKeys(l1)
  BY <1>2, Known, FindOK, CachedIsValid DEF Finds
<1>4. store' \in Stores /\ Agree(l1', store', last', safe')
  BY <1>2, <1>3, Known, LookedOK
<1> QED BY <1>1, <1>2, <1>4, Known, CallOK

\* remove(): where in_l2 is FALSE nothing is left beneath.
LEMMA RemoveKeyOK ==
    ASSUME IInv, NEW k \in Keys, RemoveKey(k)
    PROVE  IInv'
<1> DEFINE i == FindL1(l1, k)
<1>1. /\ Idle("remove")
      /\ l1' = IF i = Invalid THEN l1 ELSE RemoveSlot(l1, i)
      /\ store' = IF i = Invalid \/ l1.slots[i].in_l2 THEN L2!Without(store, {k}) ELSE store
      /\ last' = [last EXCEPT ![k] = None] /\ safe' = [safe EXCEPT ![k] = {None}]
      /\ recent' = Cut(recent, l1')
  BY HistoryOrders DEF RemoveKey
<1>2. Finds(l1, k, i)
  BY Known, FindOK
<1> HIDE DEF i
<1>3. /\ CacheOK(l1', recent) /\ KeysOnce(l1')
      /\ \A j \in Valid(l1) : l1.slots[j].key # k => j \in Valid(l1')
      /\ \A j \in Valid(l1') : /\ j \in Valid(l1) /\ l1'.slots[j].key # k
                               /\ SameData(l1.slots[j], l1'.slots[j])
  <2>1. CASE i = Invalid
    <3>1. l1' = l1 /\ \A j \in Valid(l1) : l1.slots[j].key # k
      BY <1>1, <1>2, <2>1 DEF Finds
    <3> QED BY <3>1, Known DEF SameData
  <2>2. CASE i # Invalid
    <3>1. i \in Valid(l1) /\ l1.slots[i].key = k /\ l1' = RemoveSlot(l1, i)
      BY <1>1, <1>2, <2>2 DEF Finds
    <3>2. CacheOK(l1', recent) /\ Removed(l1, l1', {i})
      BY <3>1, Known, RemoveOK
    <3>3. \A j \in Valid(l1) : l1.slots[j].key = k => j = i
      BY <3>1, Known DEF KeysOnce
    <3> QED BY <3>1, <3>2, <3>3 DEF Removed, SameData, CacheOK
  <2> QED BY <2>1, <2>2
<1>4. CacheOK(l1', recent')
  BY <1>1, <1>3, CutOK
<1>5. store' \in Stores /\ store'[k] = None /\ \A j \in Keys \ {k} : store'[j] = store[j]
  <2>1. CASE i = Invalid \/ l1.slots[i].in_l2
    BY <1>1, <2>1, Known DEF L2!Without, Stores
  <2>2. CASE ~ (i = Invalid \/ l1.slots[i].in_l2)
    <3>1. store' = store /\ i \in Valid(l1) /\ l1.slots[i].key = k
      BY <1>1, <1>2, <2>2 DEF Finds
    <3>2. SlotOK(l1.slots[i], store[k], last[k], safe[k])
      BY <3>1, Known DEF Agree
    <3> QED BY <2>2, <3>1, <3>2, Known DEF SlotOK
  <2> QED BY <2>1, <2>2
<1>6. /\ last' \in Memory /\ last'[k] = None /\ safe' \in Fallbacks /\ safe'[k] = {None}
      /\ \A j \in Keys \ {k} : last'[j] = last[j] /\ safe'[j] = safe[j]
  BY <1>1, Known DEF Memory, Fallbacks
<1>7. RecordOK(None, None, {None}) /\ Below(None, None)
  BY NothingThere DEF RecordOK, Below, Answer
<1>8. Agree(l1', store', last', safe')
  <2>1. Kept(store, store', Keys \ {k})
    BY <1>5 DEF Kept
  <2>2. \A j \in Valid(l1) : l1.slots[j].key # k =>
            j \in Valid(l1') /\ l1'.slots[j].key = l1.slots[j].key
    BY <1>3 DEF SameData
  <2>3. RecordOK(store'[k], last'[k], safe'[k]) /\ Below(store'[k], last'[k])
    BY <1>5, <1>6, <1>7
  <2>4. \A j \in Valid(l1') : l1'.slots[j].key # k =>
            j \in Valid(l1) /\ SameData(l1.slots[j], l1'.slots[j])
    BY <1>3
  <2>5. \A j \in Valid(l1') : l1'.slots[j].key = k =>
            SlotOK(l1'.slots[j], store'[k], last'[k], safe'[k])
    BY <1>3
  <2>6. \A j \in Keys \ {k} : last'[j] = last[j] /\ safe'[j] = safe[j]
    BY <1>6
  <2>7. KeysOnce(l1) /\ KeysOnce(l1') /\ Agree(l1, store, last, safe)
    BY <1>3, Known
  <2> QED BY <2>1, <2>2, <2>3, <2>4, <2>5, <2>6, <2>7, AgreeElsewhere
<1> QED BY <1>1, <1>4, <1>5, <1>6, <1>8, CallOK

\* begin() of the iterator.
LEMMA IterateOK ==
    ASSUME IInv, Iterate
    PROVE  IInv'
<1>1. /\ Idle("iterate") /\ l1' = Pruned(l1) /\ store' = PrunedStore(l1, store)
      /\ recent' = Cut(recent, l1') /\ last' = last /\ safe' = safe
  BY HistoryOrders DEF Iterate
<1>2. CacheOK(l1', recent) /\ store' \in Stores /\ Agree(l1', store', last', safe')
  BY <1>1, Known, PruneOK DEF Prunes
<1> QED BY <1>1, <1>2, Known, CutOK, CallOK

\* clear().
LEMMA ClearOK ==
    ASSUME IInv, Clear
    PROVE  IInv'
<1>1. /\ Idle("clear") /\ l1' = EmptyCache /\ recent' = {}
      /\ store' = [k \in Keys |-> None] /\ last' = [k \in Keys |-> None]
      /\ safe' = [k \in Keys |-> {None}]
  BY DEF Clear
<1>2. CacheOK(l1', recent') /\ Valid(l1') = {}
  BY <1>1, EmptyOK
<1>3. store' \in Stores /\ last' \in Memory /\ safe' \in Fallbacks
  BY <1>1 DEF Stores, Memory, Fallbacks
<1>4. Agree(l1', store', last', safe')
  <2>1. RecordOK(None, None, {None}) /\ Below(None, None)
    BY NothingThere DEF RecordOK, Below, Answer
  <2> QED BY <1>1, <1>2, <2>1 DEF Agree
<1> QED BY <1>1, <1>2, <1>3, <1>4, CallOK

---------------------------------------------------------------------------
(* sync()                                                                  *)

\* sync() up to its loop.
LEMMA StartSyncOK ==
    ASSUME IInv, StartSync
    PROVE  IInv'
<1>1. /\ l1' = Pruned(l1) /\ store' = PrunedStore(l1, store)
      /\ recent' = Cut(recent, l1') /\ last' = last /\ safe' = safe /\ now' = now
      /\ "sync" \in Ops /\ pc' = "sync" /\ todo' = Dirty(l1') /\ sync_ok' = TRUE
  BY HistoryOrders DEF StartSync
<1>2. /\ CacheOK(l1', recent) /\ store' \in Stores /\ Agree(l1', store', last', safe')
      /\ \A i \in Valid(l1') : ~ IsExpired(l1'.slots[i])
  BY <1>1, Known, PruneOK DEF Prunes
<1>3. CacheOK(l1', recent')
  BY <1>1, <1>2, CutOK
<1>4. SyncOK' /\ todo' \subseteq Slots
  BY <1>1, <1>2 DEF SyncOK, Dirty, IsExpired, Valid
<1> QED BY <1>1, <1>2, <1>3, <1>4, Known, StepOK

\* What a step of the loop starts from: its slot is dirty.
LEMMA Visiting ==
    ASSUME IInv, NEW i, i = Max(todo), pc = "sync", todo # {}
    PROVE  /\ i \in todo /\ i \in Valid(l1) /\ i \in Slots /\ l1.slots[i].dirty
           /\ l1.slots[i].key \in Keys /\ ~ IsExpired(l1.slots[i])
           /\ SlotOK(l1.slots[i], store[l1.slots[i].key], last[l1.slots[i].key],
                     safe[l1.slots[i].key])
           /\ RecordOK(store[l1.slots[i].key], last[l1.slots[i].key], safe[l1.slots[i].key])
           /\ "sync" \in Ops
<1>1. todo \in SUBSET Slots
  BY DEF IInv, TypeOK
<1>2. i \in todo
  BY <1>1, GreatestSlot
<1>3. todo \subseteq Dirty(l1) /\ "sync" \in Ops /\ \A j \in Valid(l1) : ~ IsExpired(l1.slots[j])
  BY Known DEF SyncOK
<1>4. i \in Valid(l1) /\ i \in Slots /\ l1.slots[i].dirty
  BY <1>2, <1>3 DEF Dirty, Valid
<1>5. l1.slots[i].key \in Keys
  BY <1>4, Known DEF KeysOnce
<1> QED BY <1>2, <1>3, <1>4, <1>5, Known DEF Agree

\* sync() drops a dirty slot: the record that it covers is gone.
LEMMA SyncDropOK ==
    ASSUME IInv, SyncSlot, NEW i, i = Max(todo), SyncDrop(i)
    PROVE  IInv'
<1> DEFINE s == l1.slots[i]
           k == s.key
<1>1. /\ pc = "sync" /\ todo # {} /\ todo' = todo \ {i}
      /\ now' = now /\ pc' = pc /\ last' = last /\ safe' = safe /\ sync_ok' = sync_ok
      /\ s.in_l2 /\ store' = Looked(store, k) /\ store'[k] = None
      /\ l1' = RemoveSlot(l1, i) /\ recent' = Cut(recent, l1')
  BY HistoryOrders DEF SyncSlot, SyncDrop
<1>2. /\ i \in Valid(l1) /\ i \in Slots /\ k \in Keys /\ "sync" \in Ops
      /\ SlotOK(s, store[k], last[k], safe[k]) /\ RecordOK(store[k], last[k], safe[k])
  BY <1>1, Visiting
<1>3. CacheOK(l1', recent) /\ Removed(l1, l1', {i})
  BY <1>1, <1>2, Known, RemoveOK
<1>4. CacheOK(l1', recent')
  BY <1>1, <1>3, CutOK
<1>5. store' \in Stores /\ L2!Visible(store[k], now) = None
      /\ \A j \in Keys \ {k} : store'[j] = store[j]
  BY <1>1, <1>2, Known DEF Looked, L2!Visible, Stores
\* Where nothing is lost the record is there.
<1>6. ~ Lossless
  <2> SUFFICES ASSUME Lossless PROVE FALSE
    OBVIOUS
  <2>1. Everlasting /\ MaxRecs = 0 /\ PolicyTTL = 0
    BY <1>2 DEF Lossless
  <2>2. store[k] # None /\ store[k].ttl = 0
    BY <1>1, <1>2, <2>1 DEF SlotOK, RecordOK
  <2>3. L2!Visible(store[k], now) = store[k]
    BY <2>1, <2>2 DEF L2!Visible, L2!Expired, L2!EffectiveTTL
  <2> QED BY <1>5, <2>2, <2>3
<1>7. Settled(store, store', k, last, safe)
  <2>1. RecordOK(None, last[k], safe[k])
    BY <1>2, <1>6 DEF RecordOK
  <2>2. Below(None, last[k])
    BY <1>6, NothingThere DEF Below
  <2>3. Kept(store, store', Keys \ {k})
    BY <1>5 DEF Kept
  <2> QED BY <1>1, <1>5, <2>1, <2>2, <2>3 DEF Settled
<1>8. Agree(l1', store', last', safe')
  BY <1>1, <1>2, <1>3, <1>7, Known, AgreeEvicted DEF CacheOK
<1>9. SyncOK'
  <2>1. todo' \subseteq Dirty(l1')
    <3>1. \A j \in Dirty(l1) \ {i} : j \in Dirty(l1')
      BY <1>3 DEF Dirty, Removed, SameData, Valid
    <3> QED BY <1>1, <3>1, Known DEF SyncOK
  <2>2. sync_ok' => Dirty(l1') \subseteq todo'
    <3>1. \A j \in Dirty(l1') : j \in Dirty(l1) \ {i}
      BY <1>3 DEF Dirty, Removed, SameData, Valid
    <3> QED BY <1>1, <3>1, Known DEF SyncOK
  <2>3. \A j \in Valid(l1') : ~ IsExpired(l1'.slots[j])
    <3>1. \A j \in Valid(l1') : j \in Valid(l1) /\ l1'.slots[j].expires_at = l1.slots[j].expires_at
      BY <1>3 DEF Removed, SameData
    <3> QED BY <1>1, <3>1, Known DEF SyncOK, IsExpired
  <2> QED BY <1>1, <1>2, <2>1, <2>2, <2>3 DEF SyncOK, IsExpired, Valid, Dirty
<1>10. /\ last' \in Memory /\ safe' \in Fallbacks /\ pc' \in {"idle", "sync"}
       /\ todo' \subseteq Slots /\ sync_ok' \in BOOLEAN
  BY <1>1 DEF IInv, TypeOK
<1> QED BY <1>1, <1>4, <1>5, <1>8, <1>9, <1>10, StepOK

\* sync() writes a dirty slot, or is refused.
LEMMA SyncFlushOK ==
    ASSUME IInv, SyncSlot, NEW i, i = Max(todo), SyncFlush(i)
    PROVE  IInv'
<1> DEFINE s == l1.slots[i]
           k == s.key
           found == IF s.in_l2 THEN Looked(store, k) ELSE store
           t == [s EXCEPT !.dirty = FALSE, !.in_l2 = TRUE]
<1>1. /\ pc = "sync" /\ todo # {} /\ todo' = todo \ {i}
      /\ now' = now /\ pc' = pc /\ last' = last /\ safe' = safe /\ recent' = recent
      /\ s.in_l2 => found[k] # None
      /\ \/ /\ store' \in Flushed(s, found) /\ sync_ok' = sync_ok
            /\ l1' = [l1 EXCEPT !.slots[i].dirty = FALSE, !.slots[i].in_l2 = TRUE]
         \/ store' = found /\ sync_ok' = FALSE /\ l1' = l1
  BY DEF SyncSlot, SyncFlush
<1>2. /\ i \in todo /\ i \in Valid(l1) /\ i \in Slots /\ k \in Keys /\ s.dirty
      /\ "sync" \in Ops /\ ~ IsExpired(s)
  BY <1>1, Visiting
\* The record in the second level has been looked at, but it had not expired.
<1>3. found = store
  <2>1. CASE s.in_l2
    <3>1. Looked(store, k)[k] = L2!Visible(store[k], now)
          /\ \A j \in Keys \ {k} : Looked(store, k)[j] = store[j]
      BY <1>2, Known DEF Looked, Stores
    <3>2. L2!Visible(store[k], now) = store[k]
      BY <1>1, <2>1, <3>1 DEF L2!Visible
    <3>3. Looked(store, k) \in [Keys -> Records \cup {None}]
      BY <1>2, <3>2, Known DEF Looked, Stores
    <3> QED BY <2>1, <3>1, <3>2, <3>3, Known DEF Stores
  <2>2. CASE ~ s.in_l2
    BY <2>2
  <2> QED BY <2>1, <2>2
<1> HIDE DEF found
<1>4. /\ last' \in Memory /\ safe' \in Fallbacks /\ pc' \in {"idle", "sync"}
      /\ todo' \subseteq Slots /\ sync_ok' \in BOOLEAN
  BY <1>1 DEF IInv, TypeOK
<1>5. /\ todo \subseteq Dirty(l1) /\ (sync_ok => Dirty(l1) \subseteq todo)
      /\ \A j \in Valid(l1) : ~ IsExpired(l1.slots[j])
  BY <1>1, Known DEF SyncOK
\* The second level refused.
<1>6. CASE store' = found /\ sync_ok' = FALSE /\ l1' = l1
  <2>1. store' = store
    BY <1>3, <1>6
  <2>2. SyncOK'
    BY <1>1, <1>2, <1>5, <1>6 DEF SyncOK, IsExpired, Valid, Dirty
  <2> QED BY <1>1, <1>4, <1>6, <2>1, <2>2, Known, StepOK
<1>7. CASE /\ store' \in Flushed(s, found) /\ sync_ok' = sync_ok
           /\ l1' = [l1 EXCEPT !.slots[i].dirty = FALSE, !.slots[i].in_l2 = TRUE]
  <2>1. s \in Slot /\ l1' = [l1 EXCEPT !.slots[i] = t]
    BY <1>2, <1>7, Known DEF Cache
  <2>2. t \in Slot /\ SamePlace(t, s) /\ t.expires_at = s.expires_at /\ t.dirty = FALSE
    BY <1>2, <2>1 DEF Slot, SamePlace, Valid
  <2>3. t = [s EXCEPT !.dirty = FALSE, !.in_l2 = TRUE]
    OBVIOUS
  <2> HIDE DEF t
  <2>4. Assigned(l1, recent, l1', i, t)
    BY <1>2, <2>1, <2>2, Known, AssignOK
  <2>5. Clean(store, store', s, last, safe)
    BY <1>2, <1>3, <1>7, Known, FlushOK
  <2>6. Agree(l1', store', last', safe')
    <3>1. KeysOnce(l1') /\ Valid(l1') = Valid(l1) /\ l1'.slots[i] = t
          /\ \A j \in Valid(l1) \ {i} : l1'.slots[j] = l1.slots[j]
      BY <2>4 DEF Assigned, CacheOK
    <3> QED BY <1>1, <1>2, <2>3, <2>5, <3>1, Known, AgreeCleaned
  <2>7. \A j \in Slots : j \in Dirty(l1') <=> j \in Dirty(l1) \ {i}
    BY <2>2, <2>4 DEF Dirty, Valid, Assigned
  <2>8. todo' \subseteq Dirty(l1')
    BY <1>1, <1>5, <2>7 DEF Dirty
  <2>9. sync_ok' => Dirty(l1') \subseteq todo'
    BY <1>1, <1>5, <1>7, <2>7 DEF Dirty
  <2>10. \A j \in Valid(l1') : ~ IsExpired(l1'.slots[j])
    BY <1>2, <1>5, <2>2, <2>4 DEF Assigned, IsExpired
  <2>11. SyncOK'
    BY <1>1, <1>2, <2>8, <2>9, <2>10 DEF SyncOK, IsExpired, Valid, Dirty
  <2>12. CacheOK(l1', recent') /\ store' \in Stores
    BY <1>1, <2>4, <2>5 DEF Assigned, Clean, Settled
  <2> QED BY <1>1, <1>4, <2>6, <2>11, <2>12, StepOK
<1> QED BY <1>1, <1>6, <1>7

\* What is read of a key that no dirty slot covers.
LEMMA ReadBelow ==
    ASSUME NEW st, NEW m, NEW k \in Keys, st[k] \in Records \cup {None},
           m[k] \in Memories \cup {None}, now \in Nat, Below(st[k], m[k]), KeepsExpiry
    PROVE  LET v == IF m[k] = None \/ IsExpired(m[k]) THEN None ELSE m[k].val
           IN  Answer(st[k]) \in {None, v} /\ (Lossless => Answer(st[k]) = v)
<1> DEFINE d == st[k]
           v == IF m[k] = None \/ IsExpired(m[k]) THEN None ELSE m[k].val
<1>1. CASE L2!Visible(d, now) = None
  <2>1. Answer(d) = None
    BY <1>1 DEF Answer
  <2> QED BY <1>1, <2>1 DEF Below
<1>2. CASE L2!Visible(d, now) # None
  <2>1. /\ m[k] # None /\ Tells(d, m[k]) /\ d # None
        /\ L2!Visible(d, now) = d /\ ~ L2!Expired(d.ts, d.ttl, now)
    BY <1>2 DEF Below, L2!Visible
  <2>2. d \in Records /\ m[k] \in Memories
    BY <2>1
  <2> HIDE DEF d
  <2>3. d.ts \in Nat /\ d.ttl \in Nat /\ m[k].expires_at \in Nat
    BY <2>2, CacheParameters DEF Records, Memories
  <2>4. ~ IsExpired(m[k])
    <3> SUFFICES ASSUME m[k].expires_at # 0, now >= m[k].expires_at PROVE FALSE
      BY DEF IsExpired
    <3>1. d.ttl > 0 /\ d.ts + d.ttl = m[k].expires_at
      BY <2>1 DEF Tells
    <3>2. now > d.ts /\ now - d.ts >= d.ttl
      BY <2>3, <3>1
    <3> QED BY <2>1, <3>1, <3>2 DEF L2!Expired, L2!EffectiveTTL
  <2>5. Answer(d) = m[k].val
    BY <2>1, <1>2 DEF Answer, Tells
  <2> QED BY <2>1, <2>4, <2>5 DEF d
<1> QED BY <1>1, <1>2

\* The return value TRUE of sync() promises that all slots have been written.
LEMMA SyncReturnsOK ==
    ASSUME IInv, SyncReturns
    PROVE  IInv'
<1>1. /\ pc = "sync" /\ todo = {} /\ pc' = "idle" /\ now' = now
      /\ safe' = IF sync_ok THEN [k \in Keys |-> {Expected(k)}] ELSE safe
      /\ l1' = l1 /\ store' = store /\ todo' = todo /\ sync_ok' = sync_ok
      /\ last' = last /\ recent' = recent
  BY DEF SyncReturns
<1>2. safe' \in Fallbacks
  <2>1. ASSUME NEW k \in Keys PROVE Expected(k) \in Values \cup {None}
    <3>1. last[k] \in Memories \cup {None}
      BY Known DEF Memory
    <3> QED BY <3>1 DEF Expected, Memories
  <2> QED BY <1>1, <2>1, Known DEF Fallbacks
<1>3. (sync_ok => Dirty(l1) = {}) /\ \A i \in Valid(l1) : ~ IsExpired(l1.slots[i])
  BY <1>1, Known DEF SyncOK
<1>4. ASSUME NEW k \in Keys, sync_ok, Lossless, Everlasting
      PROVE  Answer(store[k]) = Expected(k) /\ safe'[k] = {Expected(k)}
  <2>1. Below(store[k], last[k])
    <3>1. CASE k \in CachedKeys(l1)
      <4>1. PICK i \in Valid(l1) : l1.slots[i].key = k
        BY <3>1, CachedIsValid
      <4>2. ~ l1.slots[i].dirty
        BY <1>3, <1>4 DEF Dirty, Valid
      <4>3. SlotOK(l1.slots[i], store[k], last[k], safe[k])
        BY <4>1, Known DEF Agree
      <4> QED BY <4>2, <4>3 DEF SlotOK
    <3>2. CASE k \notin CachedKeys(l1)
      BY <3>2, Known DEF Agree
    <3> QED BY <3>1, <3>2
  <2>2. store[k] \in Records \cup {None} /\ last[k] \in Memories \cup {None}
    BY Known DEF Stores, Memory
  <2>3. KeepsExpiry
    BY <1>4 DEF KeepsExpiry
  <2>4. Answer(store[k]) = IF last[k] = None \/ IsExpired(last[k]) THEN None ELSE last[k].val
    BY <1>4, <2>1, <2>2, <2>3, Known, ReadBelow
  <2> QED BY <1>1, <1>4, <2>4 DEF Expected
<1>5. ASSUME NEW k \in Keys PROVE RecordOK(store[k], last[k], safe'[k])
  <2>1. RecordOK(store[k], last[k], safe[k])
    BY Known DEF Agree
  <2>2. CASE sync_ok
    BY <1>4, <2>1, <2>2 DEF RecordOK
  <2>3. CASE ~ sync_ok
    BY <1>1, <2>1, <2>3
  <2> QED BY <2>2, <2>3
<1>6. ASSUME NEW i \in Valid(l1), NEW k, k = l1.slots[i].key
      PROVE  SlotOK(l1.slots[i], store[k], last[k], safe'[k])
  <2>1. k \in Keys /\ SlotOK(l1.slots[i], store[k], last[k], safe[k])
    BY <1>6, Known DEF Agree, KeysOnce
  <2>2. CASE sync_ok
    <3>1. ASSUME Lossless, Everlasting PROVE l1.slots[i].val \in safe'[k]
      <4>1. /\ last[k] # None /\ l1.slots[i].val = last[k].val
            /\ l1.slots[i].expires_at = last[k].expires_at
        BY <2>1, <3>1 DEF SlotOK, KeepsExpiry
      <4>2. ~ IsExpired(last[k])
        BY <1>3, <4>1 DEF IsExpired
      <4> QED BY <1>4, <2>1, <2>2, <3>1, <4>1, <4>2 DEF Expected
    <3> QED BY <2>1, <3>1 DEF SlotOK
  <2>3. CASE ~ sync_ok
    BY <1>1, <2>1, <2>3
  <2> QED BY <2>2, <2>3
<1>7. Agree(l1', store', last', safe')
  <2>1. Agree(l1, store, last, safe')
    BY <1>5, <1>6, Known DEF Agree
  <2> QED BY <1>1, <2>1
<1>8. SyncOK' /\ todo' \subseteq Slots /\ sync_ok' \in BOOLEAN
  BY <1>1 DEF SyncOK, IInv, TypeOK
<1> QED BY <1>1, <1>2, <1>7, <1>8, Known, StepOK

---------------------------------------------------------------------------
(* The environment                                                         *)

\* A power cut leaves the second level, and callers learn what it has.
LEMMA RebootOK ==
    ASSUME IInv, Reboot
    PROVE  IInv'
<1>1. /\ l1' = EmptyCache /\ pc' = "idle" /\ todo' = {} /\ sync_ok' = TRUE
      /\ last' = [k \in Keys |->
                   IF Beneath(k) = None THEN None
                   ELSE [val |-> store[k].val,
                         expires_at |-> IF store[k].ttl = 0 THEN 0
                                        ELSE store[k].ts + store[k].ttl]]
      /\ safe' = [k \in Keys |-> {Beneath(k)}]
      /\ recent' = {} /\ store' = store /\ now' = now
  BY DEF Reboot
<1>2. CacheOK(l1', recent') /\ Valid(l1') = {}
  BY <1>1, EmptyOK
<1>3. ASSUME NEW k \in Keys
      PROVE  /\ last'[k] \in Memories \cup {None} /\ safe'[k] \in SUBSET (Values \cup {None})
             /\ RecordOK(store[k], last'[k], safe'[k]) /\ Below(store[k], last'[k])
  <2> DEFINE d == store[k]
             m == [val |-> d.val, expires_at |-> IF d.ttl = 0 THEN 0 ELSE d.ts + d.ttl]
  <2>1. Beneath(k) = Answer(d) /\ safe'[k] = {Answer(d)} /\ d \in Records \cup {None}
        /\ (Everlasting => (d # None => d.ttl = 0))
    BY <1>1, Known DEF Beneath, Answer, Stores, Agree, RecordOK
  <2>2. CASE L2!Visible(d, now) = None
    <3>1. Answer(d) = None /\ last'[k] = None
      BY <1>1, <2>1, <2>2 DEF Answer
    <3> QED BY <2>1, <2>2, <3>1 DEF RecordOK, Below
  <2>3. CASE L2!Visible(d, now) # None
    <3>1. d \in Records /\ L2!Visible(d, now) = d /\ Answer(d) = d.val /\ d # None
      BY <2>1, <2>3 DEF L2!Visible, Answer
    <3>2. /\ d.val \in Values /\ d.val # None /\ d.ts \in Nat /\ d.ttl \in Nat
      BY <3>1, CacheParameters DEF Records, Values
    <3>3. last'[k] = m
      BY <1>1, <2>1, <3>1, <3>2
    <3> HIDE DEF d
    <3>4. m \in Memories /\ m # None
      BY <3>2, NoneIsNoRecord DEF Memories
    <3>5. Tells(d, m) /\ (Everlasting => m.expires_at = 0)
      BY <2>1, <3>1, <3>2 DEF Tells
    <3> HIDE DEF m
    <3>6. RecordOK(d, m, {Answer(d)}) /\ Below(d, m)
      BY <2>1, <3>1, <3>4, <3>5 DEF RecordOK, Below
    <3> QED BY <2>1, <3>1, <3>2, <3>3, <3>4, <3>6 DEF d
  <2> QED BY <2>2, <2>3
<1>4. last' \in Memory /\ safe' \in Fallbacks
  <2>1. last' = [k \in Keys |-> last'[k]] /\ safe' = [k \in Keys |-> safe'[k]]
    BY <1>1
  <2> QED BY <1>3, <2>1 DEF Memory, Fallbacks
<1>5. Agree(l1', store', last', safe')
  BY <1>1, <1>2, <1>3 DEF Agree
<1>6. SyncOK'
  BY <1>1 DEF SyncOK
<1> QED BY <1>1, <1>2, <1>4, <1>5, <1>6, Known, StepOK

\* Below, a tick later.
BelowLater(d, m) ==
    KeepsExpiry =>
        /\ L2!Visible(d, now + 1) # None => m # None /\ Tells(d, m)
        /\ Lossless /\ m # None /\ ~ (m.expires_at # 0 /\ now + 1 >= m.expires_at) =>
              L2!Visible(d, now + 1) # None

\* A record that has expired stays so, and one that agrees with what callers
\* remember expires when they expect it to.
LEMMA LaterOK ==
    ASSUME now \in Nat, NEW d \in Records \cup {None}, NEW m \in Memories \cup {None},
           Below(d, m)
    PROVE  BelowLater(d, m)
<1> SUFFICES ASSUME KeepsExpiry
             PROVE  /\ L2!Visible(d, now + 1) # None => m # None /\ Tells(d, m)
                    /\ Lossless /\ m # None /\ ~ (m.expires_at # 0 /\ now + 1 >= m.expires_at)
                         => L2!Visible(d, now + 1) # None
  BY DEF BelowLater
<1>1. /\ L2!Visible(d, now) # None => m # None /\ Tells(d, m)
      /\ Lossless /\ m # None /\ ~ IsExpired(m) => L2!Visible(d, now) # None
  BY DEF Below
<1>2. d # None => d.ts \in Nat /\ d.ttl \in Nat
  BY CacheParameters DEF Records
<1>3. m # None => m.expires_at \in Nat
  BY DEF Memories
<1>4. L2!Visible(d, now + 1) # None => L2!Visible(d, now) # None
  <2> SUFFICES ASSUME d # None, L2!Expired(d.ts, d.ttl, now)
               PROVE  L2!Expired(d.ts, d.ttl, now + 1)
    BY DEF L2!Visible
  <2>1. L2!EffectiveTTL(d.ttl) \in Nat
    BY <1>2, CacheParameters DEF L2!EffectiveTTL
  <2> QED BY <1>2, <2>1 DEF L2!Expired
<1>5. ASSUME Lossless, m # None, ~ (m.expires_at # 0 /\ now + 1 >= m.expires_at)
      PROVE  L2!Visible(d, now + 1) # None
  <2>1. ~ IsExpired(m)
    BY <1>3, <1>5 DEF IsExpired
  <2>2. d # None /\ Tells(d, m)
    BY <1>1, <1>5, <2>1, NothingThere
  <2>3. L2!EffectiveTTL(d.ttl) = d.ttl
    BY <1>2, <1>5, <2>2 DEF L2!EffectiveTTL, Lossless
  <2>4. ~ L2!Expired(d.ts, d.ttl, now + 1)
    <3>1. CASE m.expires_at = 0
      BY <2>2, <2>3, <3>1 DEF Tells, L2!Expired
    <3>2. CASE m.expires_at # 0
      <4>1. d.ts + d.ttl = m.expires_at /\ now + 1 < m.expires_at
        BY <1>3, <1>5, <2>2, <3>2 DEF Tells
      <4> QED BY <1>2, <1>3, <2>2, <2>3, <4>1 DEF L2!Expired
    <3> QED BY <3>1, <3>2
  <2> QED BY <2>2, <2>4 DEF L2!Visible
<1> QED BY <1>1, <1>4, <1>5

\* The clock ticks between two calls.
LEMMA TickOK ==
    ASSUME IInv, Tick
    PROVE  IInv'
<1>1. /\ pc = "idle" /\ now < MaxTime /\ now' = now + 1
      /\ l1' = l1 /\ store' = store /\ pc' = pc /\ todo' = todo /\ sync_ok' = sync_ok
      /\ last' = last /\ safe' = safe /\ recent' = recent
  BY DEF Tick, history
<1>2. now' \in 0..MaxTime
  BY <1>1, CacheParameters, Known
<1>3. TypeOK' /\ CacheOK(l1', recent') /\ SyncOK'
  BY <1>1, <1>2, Known DEF IInv, TypeOK, SyncOK
<1>4. ASSUME NEW k \in Keys
      PROVE  Below(store[k], last[k]) => Below(store[k], last[k])'
  <2>1. store[k] \in Records \cup {None} /\ last[k] \in Memories \cup {None}
    BY Known DEF Stores, Memory
  <2>2. Below(store[k], last[k]) => BelowLater(store[k], last[k])
    BY <2>1, Known, LaterOK
  <2> QED BY <1>1, <2>2 DEF BelowLater, Below, IsExpired
<1>5. ASSUME NEW k \in Keys PROVE RecordOK(store[k], last[k], safe[k])'
  <2>1. RecordOK(store[k], last[k], safe[k])
    BY Known DEF Agree
  <2>2. ASSUME Lossless, Everlasting PROVE L2!Visible(store[k], now') = L2!Visible(store[k], now)
    BY <2>1, <2>2 DEF RecordOK, L2!Visible, L2!Expired, L2!EffectiveTTL, Lossless
  <2> QED BY <1>1, <2>1, <2>2 DEF RecordOK, Answer
<1>6. ASSUME NEW k \in Keys \ CachedKeys(l1) PROVE Below(store[k], last[k])'
  BY <1>4, Known DEF Agree
<1>7. ASSUME NEW i \in Valid(l1)
      PROVE  SlotOK(l1.slots[i], store[l1.slots[i].key], last[l1.slots[i].key],
                    safe[l1.slots[i].key])'
  <2> DEFINE k == l1.slots[i].key
  <2>1. k \in Keys /\ SlotOK(l1.slots[i], store[k], last[k], safe[k])
    BY Known DEF Agree, KeysOnce
  <2>2. PICK j \in Keys : j = k
    BY <2>1
  <2>3. Below(store[j], last[j]) => Below(store[j], last[j])'
    BY <1>4
  <2>4. Below(store[k], last[k]) => Below(store[k], last[k])'
    BY <1>1, <2>2, <2>3 DEF Below, IsExpired
  <2> QED BY <1>1, <2>1, <2>4 DEF SlotOK
<1>8. Agree(l1, store, last, safe)'
  BY <1>1, <1>5, <1>6, <1>7 DEF Agree, CachedKeys, Valid
<1> QED BY <1>3, <1>8 DEF IInv, TieredInv

\* No variable changes.
LEMMA StutterOK ==
    ASSUME IInv, UNCHANGED vars
    PROVE  IInv'
<1>1. /\ l1' = l1 /\ store' = store /\ now' = now /\ pc' = pc /\ todo' = todo
      /\ sync_ok' = sync_ok /\ last' = last /\ safe' = safe /\ recent' = recent
  BY DEF vars, history
<1>2. /\ pc' \in {"idle", "sync"} /\ todo' \subseteq Slots /\ sync_ok' \in BOOLEAN
  BY <1>1 DEF IInv, TypeOK
<1>3. SyncOK'
  BY <1>1, Known DEF SyncOK, IsExpired, Dirty, Valid
<1> QED BY <1>1, <1>2, <1>3, Known, StepOK

\* Every step keeps the invariant.
LEMMA NextIInv == IInv /\ [Next]_vars => IInv'
<1> SUFFICES ASSUME IInv, [Next]_vars PROVE IInv'
  OBVIOUS
<1>1. ASSUME NEW k \in Keys, NEW p \in Payloads, PutCached(k, p) \/ PutNew(k, p) PROVE IInv'
  BY <1>1, PutCachedOK, PutNewOK
<1>2. ASSUME NEW k \in Keys, ReadCached(k) \/ Promote(k) \/ ReadBeneath(k) \/ RemoveKey(k)
      PROVE  IInv'
  BY <1>2, ReadCachedOK, PromoteOK, ReadBeneathOK, RemoveKeyOK
<1>3. CASE SyncSlot
  <2>1. SyncDrop(Max(todo)) \/ SyncFlush(Max(todo))
    BY <1>3 DEF SyncSlot
  <2> QED BY <1>3, <2>1, SyncDropOK, SyncFlushOK
<1>4. CASE Iterate \/ Clear \/ StartSync \/ SyncReturns \/ Reboot \/ Tick \/ UNCHANGED vars
  BY <1>4, IterateOK, ClearOK, StartSyncOK, SyncReturnsOK, RebootOK, TickOK, StutterOK
<1> QED BY <1>1, <1>2, <1>3, <1>4 DEF Next

---------------------------------------------------------------------------
(* What follows for callers, in any state of the invariant                 *)

\* The walks along list and chains meet what the ranks say.
LEMMA LinkedWell == IInv => WellLinked
<1> SUFFICES ASSUME IInv PROVE WellLinked
  OBVIOUS
<1> DEFINE M == Valid(l1)
<1>1. PICK h, g, n : Linked(l1, recent, h, g, n)
  BY Known DEF CacheOK
<1>2. l1 \in Cache /\ M \in SUBSET Slots /\ ListOf(l1, M, h) /\ ChainsOf(l1, M, g)
  BY <1>1, Known DEF Linked, Valid
<1>3. l1.head \in Link /\ l1.tail \in Link /\ Nexts(l1) \in [Slots -> Link]
      /\ Prevs(l1) \in [Slots -> Link]
  BY <1>2, CacheTypes
<1> HIDE DEF M
<1>4. Visits(Walk(l1.head, Nexts(l1)), M)
  BY <1>2, <1>3, ThreadWalk DEF ListOf
<1>5. Visits(Walk(l1.tail, Prevs(l1)), M)
  BY <1>2, <1>3, ThreadWalk DEF ListOf
<1>6. Visits(Recent(l1), M) /\ Visits(Backwards(l1), M)
  BY <1>4, <1>5 DEF Recent, Backwards, Nexts, Prevs
<1>7. \A i, j \in M : l1.slots[i].next = j <=> l1.slots[j].prev = i
  BY <1>2, PrevInverse
<1>8. \A b \in Buckets : Visits(Chain(l1, b), {i \in M : Hash[l1.slots[i].key] = b})
  BY <1>2, ChainVisits DEF InBucket
<1>9. \A i, j \in M : l1.slots[i].key = l1.slots[j].key => i = j
  BY Known DEF KeysOnce, M
<1> QED BY <1>6, <1>7, <1>8, <1>9 DEF WellLinked, M

\* The walk along the list goes down in rank, and so in use.
LEMMA InOrder == IInv => EvictsLeastRecent
<1> SUFFICES ASSUME IInv PROVE EvictsLeastRecent
  OBVIOUS
<1> DEFINE M == Valid(l1)
           at == Recent(l1)
<1>1. PICK h, g, n : Linked(l1, recent, h, g, n)
  BY Known DEF CacheOK
<1>2. /\ l1 \in Cache /\ M \in SUBSET Slots /\ h \in Ranks
      /\ Threaded(l1.head, Nexts(l1), M, h) /\ Ordered(l1, h, recent)
  BY <1>1, Known DEF Linked, Valid, ListOf
<1>3. l1.head \in Link /\ Nexts(l1) \in [Slots -> Link]
  BY <1>2, CacheTypes
<1>4. at = Walk(l1.head, Nexts(l1))
  BY DEF Recent, Nexts
<1> HIDE DEF M, at
<1>5. /\ Visits(at, M) /\ DOMAIN at = 0..Capacity
      /\ \A m, k \in 0..Capacity :
            at[m] \in M /\ at[k] \in M => (m < k <=> h[at[m]] > h[at[k]])
  BY <1>2, <1>3, <1>4, ThreadWalk
<1>6. \A m \in DOMAIN at : at[m] # Invalid => at[m] \in M
  BY <1>5 DEF Visits, Range
<1>7. \A i, j \in M : h[i] \in Int /\ h[j] \in Int /\
          (h[j] < h[i] <=> <<l1.slots[i].key, l1.slots[j].key>> \in recent)
  BY <1>2 DEF Ordered, M, Ranks
<1>8. ASSUME NEW m \in DOMAIN at, NEW k \in DOMAIN at, at[m] # Invalid, at[k] # Invalid
      PROVE  m < k <=> <<l1.slots[at[m]].key, l1.slots[at[k]].key>> \in recent
  <2>1. at[m] \in M /\ at[k] \in M
    BY <1>6, <1>8
  <2>2. m < k <=> h[at[m]] > h[at[k]]
    BY <1>5, <2>1
  <2> QED BY <1>7, <2>1, <2>2
<1> QED BY <1>8 DEF EvictsLeastRecent, at

\* What get() returns.
LEMMA ViewOK ==
    ASSUME IInv, KeepsExpiry, NEW k \in Keys
    PROVE  View(k) \in {None, Expected(k)} /\ (Lossless => View(k) = Expected(k))
<1> DEFINE i == FindL1(l1, k)
<1>1. Finds(l1, k, i)
  BY Known, FindOK
<1>2. View(k) = IF i = Invalid THEN Beneath(k)
                ELSE IF IsExpired(l1.slots[i]) THEN None ELSE l1.slots[i].val
  BY DEF View
<1> HIDE DEF i
<1>3. CASE i = Invalid
  <2>1. Below(store[k], last[k])
    <3>1. k \notin CachedKeys(l1)
      BY <1>1, <1>3, CachedIsValid DEF Finds
    <3> QED BY <3>1, Known DEF Agree
  <2>2. store[k] \in Records \cup {None} /\ last[k] \in Memories \cup {None}
    BY Known DEF Stores, Memory
  <2>3. /\ Answer(store[k]) \in {None, Expected(k)}
        /\ Lossless => Answer(store[k]) = Expected(k)
    BY <2>1, <2>2, Known, ReadBelow DEF Expected
  <2>4. View(k) = Answer(store[k])
    BY <1>2, <1>3 DEF Beneath, Answer
  <2> QED BY <2>3, <2>4
<1>4. CASE i # Invalid
  <2>1. i \in Valid(l1) /\ l1.slots[i].key = k
    BY <1>1, <1>4 DEF Finds
  <2>2. SlotOK(l1.slots[i], store[k], last[k], safe[k])
    BY <2>1, Known DEF Agree
  <2>3. /\ last[k] # None /\ l1.slots[i].val = last[k].val
        /\ IsExpired(l1.slots[i]) <=> IsExpired(last[k])
    BY <2>2 DEF SlotOK, IsExpired
  <2> QED BY <1>2, <1>4, <2>3 DEF Expected
<1> QED BY <1>3, <1>4

\* What lies beneath the cache is a fallback.
LEMMA CrashSafeOK ==
    ASSUME IInv, Lossless, Everlasting
    PROVE  CrashSafe
<1> SUFFICES ASSUME NEW k \in Keys PROVE Beneath(k) \in safe[k]
  BY DEF CrashSafe
<1>1. RecordOK(store[k], last[k], safe[k])
  BY Known DEF Agree
<1> QED BY <1>1 DEF RecordOK, Answer, Beneath

\* Keys and slots are counted alike, for no key is cached twice.
LEMMA EachOnceOK ==
    ASSUME IInv, Lossless, Everlasting
    PROVE  EachOnce
<1> DEFINE cached == {l1.slots[i].key : i \in IteratedSlots}
           visible == {k \in Keys : View(k) # None}
           held == L2!Held(store)
<1>1. ASSUME NEW k \in held PROVE k \in Keys /\ L2!Visible(store[k], now) = store[k]
                                 /\ store[k].val # None /\ store[k] # None
  <2>1. k \in Keys /\ store[k] # None /\ store[k] \in Records
    BY Known DEF L2!Held, Stores
  <2>2. store[k].ttl = 0 /\ PolicyTTL = 0
    BY <2>1, Known DEF Agree, RecordOK, Lossless
  <2>3. L2!Visible(store[k], now) = store[k]
    BY <2>2 DEF L2!Visible, L2!Expired, L2!EffectiveTTL
  <2>4. store[k].val # None
    BY <2>1, CacheParameters DEF Records, Values
  <2> QED BY <2>1, <2>3, <2>4
\* A slot in use never expires, and in_l2 tells the truth of it.
<1>2. ASSUME NEW i \in Valid(l1), NEW k, k = l1.slots[i].key
      PROVE  /\ k \in Keys /\ l1.slots[i].val # None /\ ~ IsExpired(l1.slots[i])
             /\ l1.slots[i].in_l2 <=> k \in held
  <2>1. k \in Keys /\ SlotOK(l1.slots[i], store[k], last[k], safe[k])
        /\ RecordOK(store[k], last[k], safe[k])
    BY <1>2, Known DEF Agree, KeysOnce
  <2>2. ~ IsExpired(l1.slots[i])
    BY <2>1 DEF SlotOK, RecordOK, KeepsExpiry, IsExpired
  <2>3. l1.slots[i].in_l2 <=> k \in held
    BY <2>1 DEF SlotOK, Lossless, L2!Held
  <2> QED BY <2>1, <2>2, <2>3 DEF SlotOK
<1>3. IteratedSlots = {i \in Valid(l1) : ~ l1.slots[i].in_l2} /\ IteratedSlots \in SUBSET Slots
  BY DEF IteratedSlots, Valid
<1>4. cached \in SUBSET Keys /\ held \cap cached = {}
  BY <1>2, <1>3
<1>5. held \cup cached = visible
  <2> SUFFICES ASSUME NEW k \in Keys
               PROVE  k \in held \/ k \in cached <=> View(k) # None
    BY <1>1, <1>4
  <2> DEFINE i == FindL1(l1, k)
  <2>1. Finds(l1, k, i)
    BY Known, FindOK
  <2>2. View(k) = IF i = Invalid THEN Beneath(k)
                  ELSE IF IsExpired(l1.slots[i]) THEN None ELSE l1.slots[i].val
    BY DEF View
  <2> HIDE DEF i
  <2>3. CASE i # Invalid
    <3>1. i \in Valid(l1) /\ l1.slots[i].key = k
      BY <2>1, <2>3 DEF Finds
    <3>2. View(k) # None /\ (l1.slots[i].in_l2 <=> k \in held)
      BY <1>2, <2>2, <2>3, <3>1
    <3>3. ~ l1.slots[i].in_l2 => k \in cached
      BY <1>3, <3>1
    <3> QED BY <3>2, <3>3
  <2>4. CASE i = Invalid
    <3>1. k \notin cached
      BY <1>3, <2>1, <2>4 DEF Finds
    <3>2. View(k) # None <=> k \in held
      <4>1. k \notin held => Beneath(k) = None
        BY NothingThere DEF Beneath, L2!Held
      <4>2. k \in held => Beneath(k) # None
        BY <1>1 DEF Beneath
      <4> QED BY <2>2, <2>4, <4>1, <4>2
    <3> QED BY <3>1, <3>2
  <2> QED BY <2>3, <2>4
<1>6. Size = Cardinality(visible)
  <2> DEFINE T == IteratedSlots
             f == [i \in T |-> l1.slots[i].key]
  <2>1. IsFiniteSet(T)
    <3>1. IsFiniteSet(Slots)
      BY SlotNumbers, FS_Interval DEF Slots
    <3> QED BY <1>3, <3>1, FS_Subset
  <2>2. IsFiniteSet(held) /\ IsFiniteSet(cached)
    BY <1>1, <1>4, FS_Subset, CacheParameters
  <2>3. Cardinality(T) = Cardinality(cached)
    <3>1. f \in Bijection(T, cached)
      <4>1. \A i, j \in T : f[i] = f[j] => i = j
        BY <1>3, Known DEF KeysOnce
      <4> QED BY <4>1 DEF Bijection, Injection, Surjection, IsInjective
    <3>2. ExistsBijection(T, cached)
      BY <3>1 DEF ExistsBijection
    <3> HIDE DEF f, T, cached
    <3> QED BY <2>1, <2>2, <3>2, FS_Bijection
  <2>4. Cardinality(held \cup cached) = Cardinality(held) + Cardinality(cached)
    <3>1. Cardinality(held \cup cached)
            = Cardinality(held) + Cardinality(cached) - Cardinality(held \cap cached)
      BY <2>2, FS_Union
    <3>2. Cardinality(held \cap cached) = 0
      BY <1>4, FS_EmptySet
    <3>3. Cardinality(held) \in Nat /\ Cardinality(cached) \in Nat
      BY <2>2, FS_CardinalityType
    <3> QED BY <3>1, <3>2, <3>3
  <2>5. Size = Cardinality(held) + Cardinality(T)
    BY DEF Size, IteratedSlots
  <2> QED BY <1>5, <2>3, <2>4, <2>5
<1> QED BY <1>4, <1>5, <1>6 DEF EachOnce, IteratedKeys

---------------------------------------------------------------------------
(* The theorems                                                            *)

\* In every state of every run, the cache is linked in the order of use and
\* agrees with the second level.
LEMMA IInvAlways == Spec => []IInv
<1> QED BY InitIInv, NextIInv, PTL DEF Spec

\* Every variable of TypedTieredStore stays within its type: no call leaves a
\* link to a slot that is not there, or writes a record that is none.
THEOREM TieredTypeOK == Spec => []TypeOK
<1>1. IInv => TypeOK
  BY DEF IInv
<1> QED BY <1>1, IInvAlways, PTL

\* The slots of the cache, its second level and what put() and remove() told
\* callers agree on every key, in the middle of sync() as well.
THEOREM TieredInvAlways == Spec => []TieredInv
<1>1. IInv => TieredInv
  BY DEF IInv
<1> QED BY <1>1, IInvAlways, PTL

\* link_* and unlink_* keep the list, in both directions, and every hash chain
\* free of cycles, and each slot in use on the list and on one chain, once.
THEOREM WellLinkedAlways == Spec => []WellLinked
BY LinkedWell, IInvAlways, PTL

\* The list is in the order of use: the slot that allocate_l1_slot_ evicts is
\* the least recently used one.
THEOREM EvictsLeastRecentAlways == Spec => []EvictsLeastRecent
BY InOrder, IInvAlways, PTL

\* get() answers with the last value put or with nothing, whatever was evicted,
\* written back, promoted or lost to a limit in between.  Where get() promotes
\* records that expire, it is not so: the copy in the cache has no expiry.
THEOREM NeverStaleAlways ==
    ASSUME KeepsExpiry
    PROVE  Spec => []NeverStale
<1>1. IInv => NeverStale
  BY ViewOK DEF NeverStale
<1> QED BY <1>1, IInvAlways, PTL

\* With a second level that loses nothing of itself, get() answers with the
\* last value put for as long as it lives.
THEOREM CoherentAlways ==
    ASSUME Lossless
    PROVE  Spec => []Coherent
<1>1. KeepsExpiry
  BY DEF Lossless, KeepsExpiry
<1>2. IInv => Coherent
  BY <1>1, ViewOK DEF Coherent
<1> QED BY <1>2, IInvAlways, PTL

\* Whenever power fails, each key falls back to what it was when sync() last
\* returned TRUE or to a value put since, where records do not expire.
THEOREM CrashSafeAlways ==
    ASSUME Lossless, Everlasting
    PROVE  Spec => []CrashSafe
<1>1. IInv => CrashSafe
  BY CrashSafeOK
<1> QED BY <1>1, IInvAlways, PTL

\* size() counts, and the iterator yields, each key that can be read once,
\* where records do not expire.
THEOREM EachOnceAlways ==
    ASSUME Lossless, Everlasting
    PROVE  Spec => []EachOnce
<1>1. IInv => EachOnce
  BY EachOnceOK
<1> QED BY <1>1, IInvAlways, PTL

=============================================================================
