\* One receiver counts down while emi_core counts up.
CONSTANTS
    Slot <- OneSlot
    Pid <- OnePid
    Node <- OneNode
    Msg <- OneMsg
    Interest <- AllInterest
    SendMsg <- OneMsg
    SendMode <- NonBlock
    RegMode <- LibraryReg
    Env <- NoEvent
    EMI_HASH_MASK = 0
    COUNT_MOD = 3
    OrderedStart = TRUE
    NoNode = NoNode
    Freed = Freed
    NoSlot = NoSlot
    NoPid = NoPid
    s1 = s1
    s2 = s2
    p1 = p1
    p2 = p2
    n1 = n1
    n2 = n2
SPECIFICATION LiveSpec
PROPERTIES
    SendCompletes
CHECK_DEADLOCK FALSE
