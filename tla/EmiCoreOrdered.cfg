\* Senders wait for the registrations; nobody dies.
CONSTANTS
    Slot <- TwoSlots
    Pid <- TwoPids
    Node <- TwoNodes
    Msg <- OneMsg
    Interest <- AllInterest
    SendMsg <- OneMsg
    SendMode <- NonBlock
    RegMode <- LibraryReg
    Env <- NoEvent
    EMI_HASH_MASK = 0
    COUNT_MOD = 3
    OrderedStart = TRUE
    NoNode = NoNode
    Freed = Freed
    NoSlot = NoSlot
    NoPid = NoPid
    s1 = s1
    s2 = s2
    p1 = p1
    p2 = p2
    n1 = n1
    n2 = n2
SPECIFICATION Spec
INVARIANTS
    CellAndSignalAgree
    NoRegistrantMissed
    PostedOnce
    RegisteredIsListed
    PointerIsLive
PROPERTY
    WaitsUntilOverlap
CHECK_DEADLOCK FALSE
