---------------------------- MODULE MCNestedSend ----------------------------
EXTENDS NestedSend

CONSTANTS p, q, a, b

TwoPids == {p, q}
TwoMsgs == {a, b}

\* One message for both and one for either.
ToBothOrOne == [k \in Msg |-> IF k = a THEN Pid ELSE {q}]
=============================================================================
