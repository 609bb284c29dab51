------------------------------ MODULE SlotPool ------------------------------
(***************************************************************************)
(* What the pool of emi_msg areas promises (emi_shmem.c:117-120,           *)
(* emi_core.c:343-349): an area is given to one thread at a time, a thread *)
(* gets none only when none is left, and what is returned can be obtained. *)
(***************************************************************************)
CONSTANTS Thread, Buf, NoBuf

VARIABLES
    free,      \* the areas in the pool
    held       \* [Thread -> Buf \cup {NoBuf}]

vars == <<free, held>>

Init == free = Buf /\ held = [t \in Thread |-> NoBuf]

Obtain(t) ==
    /\ held[t] = NoBuf
    /\ \E b \in free : free' = free \ {b} /\ held' = [held EXCEPT ![t] = b]

Return(t) ==
    /\ held[t] # NoBuf
    /\ free' = free \cup {held[t]}
    /\ held' = [held EXCEPT ![t] = NoBuf]

Next == \E t \in Thread : Obtain(t) \/ Return(t)

Spec == Init /\ [][Next]_vars
=============================================================================
