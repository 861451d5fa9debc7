----------------------------- MODULE ClockProofs -----------------------------
(***************************************************************************)
(* Theorems about the clock under HeapStore and TypedStore, for every      *)
(* value of the constants: any period of millis(), any number of           *)
(* milliseconds to the second, any calls in any order.                     *)
(***************************************************************************)
EXTENDS TypedStoreProperties, TLAPS

\* What unit u remembers of its last call of time().
Remembers(u) ==
    /\ called[u] \in Nat /\ called[u] <= ms /\ ms - called[u] < MsWrap
    /\ low32[u] = called[u] % MsWrap
    /\ high32[u] = called[u] \div MsWrap

ClockInv ==
    /\ ms \in Nat
    /\ low32 = [u \in Units |-> low32[u]]
    /\ high32 = [u \in Units |-> high32[u]]
    /\ called = [u \in Units |-> called[u]]
    /\ \A u \in Units : Remembers(u)

\* A number is put together again from its quotient and remainder.
LEMMA Division ==
    ASSUME NEW a \in Nat, NEW m \in Nat \ {0}
    PROVE  /\ a \div m \in Nat /\ a % m \in Nat /\ a % m < m
           /\ a = m * (a \div m) + (a % m)
OBVIOUS

\* Less than a period apart, the remainder has become smaller just when a
\* multiple of the period lies between.
LEMMA OneRollOver ==
    ASSUME NEW a \in Nat, NEW c \in Nat, NEW m \in Nat \ {0}, c <= a, a - c < m
    PROVE  a \div m = IF a % m < c % m THEN c \div m + 1 ELSE c \div m
<1> DEFINE q == c \div m
           r == c % m
           qq == a \div m
           rr == a % m
<1>1. /\ q \in Nat /\ r \in Nat /\ r < m /\ c = m * q + r
      /\ qq \in Nat /\ rr \in Nat /\ rr < m /\ a = m * qq + rr
  BY Division
<1> HIDE DEF q, r, qq, rr
<1>2. PICK d \in Int : d = qq - q
  BY <1>1
<1>3. m * d = m * qq - m * q
  BY <1>1, <1>2
<1>4. PICK x \in Int : x = m * d
  BY <1>2
<1>5. x = (a - c) + (r - rr)
  BY <1>1, <1>3, <1>4
<1>6. - m < x /\ x < m + m
  BY <1>1, <1>5
<1>7. d > -1
  <2> SUFFICES ASSUME d <= -1 PROVE FALSE
    OBVIOUS
  <2>1. m * d <= m * (-1)
    OBVIOUS
  <2> QED BY <2>1, <1>4, <1>6
<1>8. d < 2
  <2> SUFFICES ASSUME d >= 2 PROVE FALSE
    OBVIOUS
  <2>1. m * d >= m * 2
    OBVIOUS
  <2> QED BY <2>1, <1>4, <1>6
<1>9. CASE d = 0
  <2>1. x = 0 /\ qq = q
    BY <1>1, <1>2, <1>4, <1>9
  <2>2. ~ (rr < r)
    BY <2>1, <1>1, <1>5
  <2> QED BY <2>1, <2>2 DEF q, r, qq, rr
<1>10. CASE d = 1
  <2>1. x = m /\ qq = q + 1
    BY <1>1, <1>2, <1>4, <1>10
  <2>2. rr < r
    BY <2>1, <1>1, <1>5
  <2> QED BY <2>1, <2>2 DEF q, r, qq, rr
<1> QED BY <1>7, <1>8, <1>9, <1>10

\* time() counts the roll-overs of millis() right.
LEMMA RolledOverRight ==
    ASSUME ClockInv, NEW u \in Units
    PROVE  RolledOver(u) = ms \div MsWrap
<1>1. /\ ms \in Nat /\ called[u] \in Nat /\ MsWrap \in Nat \ {0}
      /\ called[u] <= ms /\ ms - called[u] < MsWrap
  BY ClockParameters DEF ClockInv, Remembers
<1>2. ms \div MsWrap = IF ms % MsWrap < called[u] % MsWrap
                       THEN called[u] \div MsWrap + 1 ELSE called[u] \div MsWrap
  BY <1>1, OneRollOver
<1> QED BY <1>2 DEF ClockInv, Remembers, RolledOver, millis

\* A call of time() brings the unit up to date.
LEMMA TimeCalledKeeps ==
    ASSUME ClockInv, NEW S, TimeCalled(S)
    PROVE  ClockInv'
<1>1. ms \in Nat /\ MsWrap \in Nat \ {0} /\ ms' = ms
  BY ClockParameters DEF ClockInv, TimeCalled
<1>2. ASSUME NEW u \in Units PROVE Remembers(u)'
  <2>1. CASE u \in S
    <3>1. called'[u] = ms /\ low32'[u] = ms % MsWrap /\ high32'[u] = ms \div MsWrap
      BY <2>1, RolledOverRight DEF TimeCalled, millis
    <3> QED BY <3>1, <1>1 DEF Remembers
  <2>2. CASE u \notin S
    <3>1. called'[u] = called[u] /\ low32'[u] = low32[u] /\ high32'[u] = high32[u]
      BY <2>2 DEF TimeCalled
    <3> QED BY <3>1, <1>1 DEF Remembers, ClockInv
  <2> QED BY <2>1, <2>2
<1> QED BY <1>1, <1>2 DEF ClockInv, TimeCalled

\* All units start at zero, with millis().
LEMMA ClockInitInvariant == Init => ClockInv
<1> SUFFICES ASSUME Init PROVE ClockInv
  OBVIOUS
<1>1. 0 % MsWrap = 0 /\ 0 \div MsWrap = 0
  BY ClockParameters
<1> QED BY <1>1, ClockParameters DEF Init, HeapInit, ClockInit, ClockInv, Remembers

\* Every step keeps it: only calls of time() write the counters.
LEMMA ClockNextInvariant == ClockInv /\ [Next]_vars => ClockInv'
<1> SUFFICES ASSUME ClockInv, [Next]_vars PROVE ClockInv'
  OBVIOUS
<1>1. CASE UNCHANGED clock
  BY <1>1 DEF clock, ClockInv, Remembers
<1>2. CASE \E S : TimeCalled(S)
  BY <1>2, TimeCalledKeeps
<1>3. CASE Tick
  BY <1>3 DEF Tick, ClockInv, Remembers
<1>4. CASE set_time_offset
  BY <1>4 DEF set_time_offset, ClockInv, Remembers
<1>5. CASE Mutate
  BY <1>1, <1>2, <1>5 DEF Mutate, Put, Remove, Clear, set_ttl_secs, set_max_recs
<1>6. CASE Read
  BY <1>1, <1>2, <1>6 DEF Read, Get
<1>7. CASE Begin \/ Advance \/ Finish
  BY <1>1, <1>7 DEF Begin, Advance, Finish
<1>8. CASE UNCHANGED vars
  BY <1>1, <1>8 DEF vars
<1> QED BY <1>3, <1>4, <1>5, <1>6, <1>7, <1>8 DEF Next

\* Each unit remembers its last call of time(), as quotient and remainder of
\* the period of millis() (Utility.h:53-56).
THEOREM ClockInvariant == Spec => []ClockInv
<1> QED BY ClockInitInvariant, ClockNextInvariant, PTL DEF Spec

\* Counting right, the units read the time since boot.
LEMMA ClocksAgreeNow == ClockInv => ClocksAgree
<1> SUFFICES ASSUME ClockInv, NEW u \in Units PROVE Time(u) = TrueTime
  BY DEF ClocksAgree
<1>1. ms \in Nat /\ MsWrap \in Nat \ {0}
  BY ClockParameters DEF ClockInv
<1>2. ms = MsWrap * (ms \div MsWrap) + (ms % MsWrap) /\ ms \div MsWrap \in Nat
  BY <1>1, Division
<1>3. (ms \div MsWrap) * MsWrap = MsWrap * (ms \div MsWrap)
  BY <1>1, <1>2
<1>4. RolledOver(u) * MsWrap + millis = ms
  BY <1>1, <1>2, <1>3, RolledOverRight DEF millis
<1> QED BY <1>4 DEF Time, TrueTime

\* The clocks of the translation units agree, and with the time since boot,
\* over any number of roll-overs (Utility.h:51-58).
THEOREM AllClocksAgree == Spec => []ClocksAgree
<1> QED BY ClocksAgreeNow, ClockInvariant, PTL

=============================================================================
