----------------------------- MODULE MCEmiCore -----------------------------
(* Constants for the runs of EmiCore; each .cfg picks what its question     *)
(* needs.                                                                   *)
EXTENDS EmiCore

CONSTANTS s1, s2, p1, p2, n1, n2

OneSlot  == {s1}
TwoSlots == {s1, s2}
OnePid   == {p1}
TwoPids  == {p1, p2}
OneNode  == {n1}
TwoNodes == {n1, n2}
OneMsg   == {0}
TwoMsgs  == {0, 1}

\* Every process registers every message.
AllInterest == [p \in Pid |-> Msg]

\* Each process registers a message of its own.
SplitInterest == [p \in Pid |-> IF p = p1 THEN {0} ELSE Msg \ {0}]

LibraryReg == {"NONE"}
BothReg    == {"NONE", "BLOCK_RETURN"}
AllModes   == {"NONE", "NONBLOCK", "BLOCK", "BLOCK_RETURN"}
NonBlock   == {"NONBLOCK"}

NoEvent   == {}
Crashes   == {"crash"}
AllEvents == EnvEvent

\* Where processes register different messages.
SlotNodeSymmetry == Permutations(Slot) \cup Permutations(Node)
Symmetry == Permutations(Slot) \cup Permutations(Pid) \cup Permutations(Node)
=============================================================================
