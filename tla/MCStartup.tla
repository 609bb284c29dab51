----------------------------- MODULE MCStartup -----------------------------
(* Constants for the run of Startup.                                        *)
EXTENDS Startup, TLC

CONSTANTS c1, c2, c3

ThreeInst == {c1, c2, c3}
Symmetry  == Permutations(Inst)
=============================================================================
