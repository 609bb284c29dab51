----------------------------- MODULE MCMsgTable -----------------------------
(* Two buckets; messages 0 and 2 collide, message 1 has a bucket of its own.*)
EXTENDS MsgTable

CONSTANTS p1, p2, n1, n2, n3, n4

MCMsg  == 0 .. 2
MCPid  == {p1, p2}
MCNode == {n1, n2, n3, n4}
=============================================================================
