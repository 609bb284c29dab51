------------------------------ MODULE IndexArea ------------------------------
(***************************************************************************)
(* What the index area promises (emi_shmem.c:122, emi_core.c:433-443): the *)
(* one cell each process has carries one message at a time, and nobody     *)
(* posts another, to any process, before the cell is empty again.          *)
(***************************************************************************)
CONSTANTS Slot, Pid, NoSlot

VARIABLES
    owner,    \* whose turn it is to post, NoSlot between two posts
    cell      \* [Pid -> Slot \cup {NoSlot}]

vars == <<owner, cell>>

Init == owner = NoSlot /\ cell = [p \in Pid |-> NoSlot]

Post(s, p) ==
    /\ owner = NoSlot
    /\ owner' = s
    /\ cell' = [cell EXCEPT ![p] = s]

\* The receiver takes the message, or its owner withdraws it.
Empty(p) ==
    /\ cell[p] = owner /\ owner # NoSlot
    /\ cell' = [cell EXCEPT ![p] = NoSlot]
    /\ UNCHANGED owner

Release ==
    /\ owner # NoSlot
    /\ \A p \in Pid : cell[p] = NoSlot
    /\ owner' = NoSlot
    /\ UNCHANGED cell

Next == (\E s \in Slot, p \in Pid : Post(s, p)) \/ (\E p \in Pid : Empty(p)) \/ Release

Spec == Init /\ [][Next]_vars
=============================================================================
