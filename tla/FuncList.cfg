\* Two messages and two functions that come and go, interrupted anywhere.
CONSTANTS
    Msg <- TwoMsgs
    Func <- TwoFuncs
    Node <- ThreeNodes
    HEAD = HEAD
    NULL = NULL
    f1 = f1
    f2 = f2
    k1 = k1
    k2 = k2
    n1 = n1
    n2 = n2
    n3 = n3
SPECIFICATION Spec
SYMMETRY Symmetry
INVARIANTS
    NeverAstray
    NothingLeaked
PROPERTIES
    RegistryUntilMisuse
CHECK_DEADLOCK FALSE
