------------------------------- MODULE Stream -------------------------------
(****************************************************************************)
(* One connection between a sender and emi_core as the wrapper emi_sock.c   *)
(* shows it: emi_connect, emi_read, emi_write, emi_close.  What is on the   *)
(* way to an end is a header, or none, and then some units of data; a       *)
(* struct emi_msg is short enough to arrive in one piece, data need not.    *)
(*                                                                          *)
(* TCP as the code meets it: what arrived can be read even after the peer   *)
(* closed or reset; then read returns 0 or -1.  Data sent to an end that is *)
(* closed, and data that an end leaves unread when it closes, reset the     *)
(* connection at the other end.                                             *)
(****************************************************************************)
EXTENDS Integers

CONSTANT
    Faults     \* what may go wrong, a subset of Fault

End   == {"sender", "core"}
Fault == {"segment",   \* data arrive in several pieces
          "stall",     \* SO_SNDTIMEO of a sender expires: a short write
          "reset",     \* the connection breaks
          "die",       \* the sender's process ends
          "unstarted"} \* emi_core has no memory or no thread for it

ASSUME FaultsAssumption == Faults \subseteq Fault

VARIABLES
    wire,      \* [End -> what is on the way to that end]
    open,      \* [End -> BOOLEAN]: it has the connection open
    rst,       \* [End -> BOOLEAN]: it has been reset
    happened   \* history: the faults of this connection

streamVars == <<wire, open, rst, happened>>

Peer(e) == IF e = "sender" THEN "core" ELSE "sender"
Empty   == [head |-> {}, units |-> 0]

Connected == /\ wire = [e \in End |-> Empty]
             /\ open = [e \in End |-> TRUE]
             /\ rst = [e \in End |-> FALSE]
             /\ happened = {}

emi_connect ==
    /\ wire' = [e \in End |-> Empty]
    /\ open' = [e \in End |-> TRUE]
    /\ rst' = [e \in End |-> FALSE]
    /\ happened' = {}

\* Also what the kernel does for a process that died.
emi_close(e) ==
    /\ open' = [open EXCEPT ![e] = FALSE]
    /\ wire' = [wire EXCEPT ![e] = Empty]
    /\ rst' = [rst EXCEPT ![Peer(e)] = @ \/ (open[e] /\ wire[e] # Empty)]
    /\ UNCHANGED happened

\* What write(2) does to the connection; ret is how many of the n units, or -1.
emi_write(e, head, n, ret) ==
    \/ /\ ~rst[e] /\ open[Peer(e)]
       /\ ret = n
       /\ wire' = [wire EXCEPT ![Peer(e)].head = @ \cup head,
                               ![Peer(e)].units = @ + n]
       /\ UNCHANGED <<open, rst, happened>>
    \/ /\ ~rst[e] /\ ~open[Peer(e)]
       /\ ret = n
       /\ rst' = [rst EXCEPT ![e] = n > 0 \/ head # {}]
       /\ UNCHANGED <<wire, open, happened>>
    \/ /\ rst[e]
       /\ ret = -1
       /\ UNCHANGED streamVars
    \/ /\ "stall" \in Faults /\ e = "sender" /\ ~rst[e] /\ open[Peer(e)]
       /\ ret \in 1 .. n - 1
       /\ wire' = [wire EXCEPT ![Peer(e)].units = @ + ret]
       /\ happened' = happened \cup {"stall"}
       /\ UNCHANGED <<open, rst>>

\* A read that finds nothing to read: -1 after a reset, 0 when the peer closed.
ReadFails(e, ret) ==
    /\ \/ rst[e] /\ ret = -1
       \/ ~rst[e] /\ ~open[Peer(e)] /\ ret = 0
    /\ UNCHANGED streamVars

\* read(2) of a header, all of it.
ReadHeader(e, head) ==
    /\ head \in wire[e].head
    /\ wire' = [wire EXCEPT ![e].head = {}]
    /\ UNCHANGED <<open, rst, happened>>

NoHeader(e, ret) == wire[e].head = {} /\ ReadFails(e, ret)

\* read(2) of up to n units returns what is there, once something is.
ReadUnits(e, n, ret) ==
    \/ /\ n = 0 /\ ret = 0
       /\ UNCHANGED streamVars
    \/ /\ n > 0
       /\ LET most == IF n < wire[e].units THEN n ELSE wire[e].units
          IN  /\ ret \in 1 .. most
              /\ ret = most \/ "segment" \in Faults
              /\ happened' = happened \cup (IF ret < most THEN {"segment"} ELSE {})
       /\ wire' = [wire EXCEPT ![e].units = @ - ret]
       /\ UNCHANGED <<open, rst>>
    \/ n > 0 /\ wire[e].units = 0 /\ ReadFails(e, ret)

\* The connection breaks; what was on the way to some ends is lost.
Reset ==
    /\ "reset" \in Faults \ happened
    /\ \E e \in End : open[e]
    /\ \E lost \in SUBSET End :
           wire' = [e \in End |-> IF e \in lost THEN Empty ELSE wire[e]]
    /\ rst' = [e \in End |-> TRUE]
    /\ happened' = happened \cup {"reset"}
    /\ UNCHANGED open
=============================================================================
