\* Senders and registrations in any order and every mode, exclusive registrations,
\* and everything the environment may do, around one registered process.
CONSTANTS
    Slot <- TwoSlots
    Pid <- OnePid
    Node <- TwoNodes
    Msg <- OneMsg
    Interest <- AllInterest
    SendMsg <- OneMsg
    SendMode <- AllModes
    RegMode <- BothReg
    Env <- AllEvents
    EMI_HASH_MASK = 0
    COUNT_MOD = 4
    OrderedStart = FALSE
    NoNode = NoNode
    Freed = Freed
    NoSlot = NoSlot
    NoPid = NoPid
    s1 = s1
    s2 = s2
    p1 = p1
    p2 = p2
    n1 = n1
    n2 = n2
SPECIFICATION Spec
SYMMETRY Symmetry
INVARIANTS
    IndexInv
    NoEarlyRelease
    SuccessHasReceiver
PROPERTIES
    IndexAreaSpec
CHECK_DEADLOCK FALSE
