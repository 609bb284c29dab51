---------------------------- MODULE FuncRegistry ----------------------------
(****************************************************************************)
(* What the list of a process's functions promises (emiif.h:72-98,          *)
(* docs/develop.txt:37): a message runs the functions registered for it     *)
(* when it came, each once, the newest first; a BLOCK_RETURN message runs   *)
(* the newest only.                                                         *)
(****************************************************************************)
EXTENDS Integers, Sequences

CONSTANTS Msg, Func

VARIABLES
    regs,      \* Seq([msg : Msg, func : Func]), the newest first
    todo       \* the places in regs that the message being handled is still to run

vars == <<regs, todo>>

Entry == [msg : Msg, func : Func]

Init == regs = <<>> /\ todo = {}

\* s without its first e, if it has one.
Without(s, e) ==
    IF \E i \in DOMAIN s : s[i] = e
    THEN LET i == CHOOSE j \in DOMAIN s : s[j] = e /\ \A k \in 1..(j - 1) : s[k] # e
         IN  SubSeq(s, 1, i - 1) \o SubSeq(s, i + 1, Len(s))
    ELSE s

\* The places that a message k runs.
Due(s, k, block_return) ==
    LET match == {i \in DOMAIN s : s[i].msg = k}
    IN  IF block_return THEN {i \in match : \A j \in match : i <= j} ELSE match

Register(e) == todo = {} /\ regs' = <<e>> \o regs /\ UNCHANGED todo

Unregister(e) == todo = {} /\ regs' = Without(regs, e) /\ UNCHANGED todo

Deliver(k, block_return) ==
    todo = {} /\ todo' = Due(regs, k, block_return) /\ UNCHANGED regs

\* The next function runs.  It may unregister itself, and the places behind move
\* up.
Call ==
    \E i \in todo :
        /\ \A j \in todo : i <= j
        /\ \/ todo' = todo \ {i} /\ UNCHANGED regs
           \/ /\ regs' = Without(regs, regs[i])
              /\ todo' = {j - 1 : j \in todo \ {i}}

Next ==
    \/ \E e \in Entry : Register(e) \/ Unregister(e)
    \/ \E k \in Msg, block_return \in BOOLEAN : Deliver(k, block_return)
    \/ Call

Spec == Init /\ [][Next]_vars
=============================================================================
