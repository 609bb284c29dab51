---------------------------- MODULE MCSendReply ----------------------------
(* Constants for the runs of SendReply.                                     *)
EXTENDS SendReply

\* What the emi_msg_send_highlevel functions ask for, and nothing: the same
\* message as it is.
SomeRequests == {{"CMD", "DATA", "NONBLOCK"}, {"CMD", "DATA", "BLOCK"},
                 {"CMD", "BLOCK_RETURN"}, {"CMD", "DATA", "BLOCK_RETURN"}, {}}

\* Nothing, data that can come in pieces, and data of the maximal size.
SomeSizes == {0, 2, 3}

AllFaults == Fault
=============================================================================
