\* Progress under the fairness of the scheduler: one process receives messages
\* while another one registers a colliding message.
CONSTANTS
    Slot <- TwoSlots
    Pid <- TwoPids
    Node <- TwoNodes
    Msg <- TwoMsgs
    Interest <- SplitInterest
    SendMsg <- OneMsg
    SendMode <- NonBlock
    RegMode <- LibraryReg
    Env <- NoEvent
    EMI_HASH_MASK = 0
    COUNT_MOD = 2
    OrderedStart = TRUE
    NoNode = NoNode
    Freed = Freed
    NoSlot = NoSlot
    NoPid = NoPid
    s1 = s1
    s2 = s2
    p1 = p1
    p2 = p2
    n1 = n1
    n2 = n2
SPECIFICATION LiveSpec
PROPERTIES
    LockReleased
    MessagePickedUp
    RegisterReturns
    CallsEndUntilOverlap
CHECK_DEADLOCK FALSE
