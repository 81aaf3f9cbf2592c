-------------------------------- MODULE Ring --------------------------------
(***************************************************************************)
(* The ring of strings of one thread (utils/cyclicstr.c, used by           *)
(* utils/fmtstr.c and the formatting functions).  A string that is added   *)
(* may lie over an older one: its callers must use it "immediately", and   *)
(* logmsg (utils/logrtns.c) adds two strings, the time and the name of the *)
(* thread, before it prints the one it was given.                          *)
(***************************************************************************)
EXTENDS Integers

CONSTANT SZ_CYCLIC_STR

ASSUME RingAssumption == SZ_CYCLIC_STR \in Nat \ {0}

VARIABLES
    cyclicPtr,          \* NULL, or an offset in CyclicStr
    first, mid, last,   \* the three strings that were added last
    ringEnded           \* SysExit(STR_SIZE_EXCEEDED)

ringVars == <<cyclicPtr, first, mid, last, ringEnded>>

NULL == -1
String(at, size) == [at |-> at, size |-> size]      \* size with the null character
NoString == String(0, 0)

RingInit ==
    cyclicPtr = NULL /\ first = NoString /\ mid = NoString /\ last = NoString /\ ringEnded = FALSE

\* Mutant: the null character is not counted when the end of the ring is near.
StartLate(ptr, size) == IF ptr = NULL \/ ptr + size - 1 > SZ_CYCLIC_STR THEN 0 ELSE ptr

\* Where a string goes: behind the last one, or at the start of the ring.
StartOf(ptr, size) == IF ptr = NULL \/ ptr + size > SZ_CYCLIC_STR THEN 0 ELSE ptr

CyclicStrAdd(size) ==
    /\ ~ringEnded
    /\ IF size > SZ_CYCLIC_STR
       THEN ringEnded' = TRUE /\ UNCHANGED <<cyclicPtr, first, mid, last>>
       ELSE LET at == StartOf(cyclicPtr, size) IN
            /\ cyclicPtr' = at + size
            /\ first' = mid /\ mid' = last /\ last' = String(at, size)
            /\ UNCHANGED ringEnded

\* A string may be one longer than fits: FmtStr, like CyclicStrAdd, ends the
\* program.
RingNext == \E size \in 1..(SZ_CYCLIC_STR + 1) : CyclicStrAdd(size)
RingSpec == RingInit /\ [][RingNext]_ringVars
-----------------------------------------------------------------------------
\* A string keeps its characters while a newer one does not lie over it.
Apart(s, t) == s.at + s.size <= t.at \/ t.at + t.size <= s.at

\* Every string lies in the ring; the last one is always whole, the one before it
\* when the two fit twice, roughly, and the string of a log line, behind which come
\* two more, when the sizes of the three leave room for either to start over.
LogLineIntact ==
    /\ last.at >= 0 /\ last.at + last.size <= SZ_CYCLIC_STR
    /\ mid.size + last.size + last.size <= SZ_CYCLIC_STR + 1 => Apart(mid, last)
    /\ /\ first.size + 2 * mid.size + last.size <= SZ_CYCLIC_STR + 1
       /\ first.size + mid.size + 2 * last.size <= SZ_CYCLIC_STR + 1
       => Apart(first, mid) /\ Apart(mid, last) /\ Apart(first, last)
=============================================================================
