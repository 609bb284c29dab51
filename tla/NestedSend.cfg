\* Three calls, made by processes or by their functions.
CONSTANTS
    Pid <- TwoPids
    Msg <- TwoMsgs
    Receivers <- ToBothOrOne
    MaxCalls = 3
    p = p
    q = q
    a = a
    b = b
SPECIFICATION LiveSpec
INVARIANTS
    NeverStuck
PROPERTIES
    CallReturns
CHECK_DEADLOCK FALSE
