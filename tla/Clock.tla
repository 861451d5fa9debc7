------------------------------- MODULE Clock -------------------------------
(***************************************************************************)
(* microStore's clock on Arduino (src/include/microStore/Utility.h):       *)
(* time() counts the roll-overs of the 32-bit millis() in two static       *)
(* variables.  The function is static, so every translation unit has a     *)
(* pair of its own and sees a roll-over only when it calls time() itself.  *)
(***************************************************************************)
EXTENDS Integers

CONSTANTS
    Units,       \* the translation units that call time()
    MsWrap,      \* 2^32, where millis() starts again
    MsPerSec,    \* 1000
    Offsets,     \* what the caller sets time_offset to
    SetBack,     \* whether the caller may lower it
    MaxMs        \* bound on the model's time

ASSUME ClockParameters ==
    /\ MsWrap \in Nat \ {0} /\ MsPerSec \in Nat \ {0}
    /\ Offsets \subseteq Nat /\ 0 \in Offsets /\ MaxMs \in Nat /\ SetBack \in BOOLEAN

VARIABLES
    ms,          \* milliseconds since boot, which never roll over
    low32,       \* time()'s static variables, one of each per unit
    high32,
    time_offset,
    called       \* when each unit last called time(), or booted

clock == <<ms, low32, high32, time_offset, called>>

ClockInit ==
    /\ ms = 0 /\ time_offset = 0
    /\ low32 = [u \in Units |-> 0]
    /\ high32 = [u \in Units |-> 0]
    /\ called = [u \in Units |-> 0]

\* (bug) a counter that is not cut to 32 bits
Uncut == ms

millis == ms % MsWrap

\* (bug) the roll-over is not counted
NotRolledOver(u) == high32[u]

RolledOver(u) == IF millis < low32[u] THEN high32[u] + 1 ELSE high32[u]

\* What time() returns to unit u.
Time(u) == (RolledOver(u) * MsWrap + millis) \div MsPerSec + time_offset

\* The units of S have called time().
TimeCalled(S) ==
    /\ high32' = [u \in Units |-> IF u \in S THEN RolledOver(u) ELSE high32[u]]
    /\ low32' = [u \in Units |-> IF u \in S THEN millis ELSE low32[u]]
    /\ called' = [u \in Units |-> IF u \in S THEN ms ELSE called[u]]
    /\ UNCHANGED <<ms, time_offset>>

\* Seconds since boot by a clock that needs no counting.
TrueTime == ms \div MsPerSec + time_offset

\* Time passes.  No unit stays away from time() for a whole period.
Tick ==
    /\ ms < MaxMs
    /\ \A u \in Units : ms + 1 - called[u] < MsWrap
    /\ ms' = ms + 1
    /\ UNCHANGED <<low32, high32, time_offset, called>>

\* set_time_offset() takes any value. Set back, the clock puts the stamps made
\* so far in the future.
set_time_offset ==
    /\ \E o \in Offsets : (SetBack \/ o > time_offset) /\ time_offset' = o
    /\ UNCHANGED <<ms, low32, high32, called>>

=============================================================================
