\* Three invocations of emi_core that start and end at any time.
CONSTANTS
    Inst <- ThreeInst
    None = None
    c1 = c1
    c2 = c2
    c3 = c3
SPECIFICATION Spec
SYMMETRY Symmetry
INVARIANTS
    ServesOwnSegment
    PidFileNamesServer
    NothingLeft
