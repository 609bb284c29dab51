----------------------------- MODULE MCFuncList -----------------------------
EXTENDS FuncList, TLC

CONSTANTS f1, f2, n1, n2, n3, k1, k2

TwoFuncs   == {f1, f2}
TwoMsgs    == {k1, k2}
ThreeNodes == {n1, n2, n3}

Symmetry == Permutations(Node) \cup Permutations(Func) \cup Permutations(Msg)
=============================================================================
