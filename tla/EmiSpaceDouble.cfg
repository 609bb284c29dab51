\* Two threads look at the head before either has moved it.
CONSTANTS
    Thread <- TwoThreads
    EMI_MAX_MSG = 2
    pid_max = 2
    EMI_DATA_SIZE_PER_MSG = 4
    emi_data_size_per_msg = 4
    sizeof_emi_msg = 3
    HEAD = HEAD
    NULL = NULL
    t1 = t1
    t2 = t2
    t3 = t3
SPECIFICATION Spec
SYMMETRY ThreadSymmetry
INVARIANTS
    NoDoubleAllocation
