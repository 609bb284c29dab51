\* Every sequence of insertions and deletions over two buckets.
CONSTANTS
    Msg <- MCMsg
    Pid <- MCPid
    Node <- MCNode
    EMI_HASH_MASK = 1
    NoNode = NoNode
    Freed = Freed
    p1 = p1
    p2 = p2
    n1 = n1
    n2 = n2
    n3 = n3
    n4 = n4
SPECIFICATION TableSpec
INVARIANTS
    TableSound
    WalkReachesEach
PROPERTY
    ChainsShiftByOne
