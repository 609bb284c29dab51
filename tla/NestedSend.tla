----------------------------- MODULE NestedSend -----------------------------
(****************************************************************************)
(* Functions that send messages themselves.  emi_msg_send (emi_if.c:263-339)*)
(* is called outside and inside the handler of SIGUSR2 (emi_if.c:201-260),  *)
(* which blocks SIGUSR2 while it runs; for each call a thread of emi_core   *)
(* posts the message to one receiver after the other, with                  *)
(* critical_shmem_lock held until the receiver has picked it up             *)
(* (emi_core.c:425-508).                                                    *)
(*                                                                          *)
(* What EmiCore has in detail is coarse here: nobody dies, every receiver   *)
(* is registered, no count is lost and connections hold.                    *)
(****************************************************************************)
EXTENDS Naturals, FiniteSets

CONSTANTS
    Pid, Msg,
    Receivers,   \* [Msg -> SUBSET Pid]: who registered it
    MaxCalls     \* bound: calls of emi_msg_send, each of which has a thread

ASSUME ReceiversAssumption == Receivers \in [Msg -> SUBSET Pid]
ASSUME CallsAssumption     == MaxCalls \in Nat

Thread == 1..MaxCalls
None   == 0
Mode   == {"BLOCK", "NONBLOCK"}

VARIABLES
    calls,                 \* how many there were
    pc,                    \* [Thread -> where it is]
    todo,                  \* [Thread -> receivers it still has to post to]
    count,                 \* [Thread -> receivers that have not finished]
    critical_shmem_lock,   \* the thread that has it, or None
    pid_num,               \* [Pid -> thread]: the index cell, None if it is empty
    sig,                   \* [Pid -> BOOLEAN]: SIGUSR2 is pending
    shmsg,                 \* [Pid -> thread]: whose message its handler is at
    main, nested           \* [Pid -> thread]: whose answer the process waits for,
                           \* outside and inside its handler

threadVars == <<pc, todo, count, critical_shmem_lock>>
vars == <<calls, threadVars, pid_num, sig, shmsg, main, nested>>

Init ==
    /\ calls = 0
    /\ pc = [s \in Thread |-> "none"]
    /\ todo = [s \in Thread |-> {}] /\ count = [s \in Thread |-> {}]
    /\ critical_shmem_lock = None
    /\ pid_num = [p \in Pid |-> None] /\ sig = [p \in Pid |-> FALSE]
    /\ shmsg = [p \in Pid |-> None]
    /\ main = [p \in Pid |-> None] /\ nested = [p \in Pid |-> None]

InHandler(p) == shmsg[p] # None

-----------------------------------------------------------------------------
(* Senders                                                                  *)

\* The connection is accepted and its thread created.
Connect(k) ==
    /\ calls < MaxCalls
    /\ calls' = calls + 1
    /\ pc' = [pc EXCEPT ![calls'] = "loop"]
    /\ todo' = [todo EXCEPT ![calls'] = Receivers[k]]
    /\ UNCHANGED <<count, critical_shmem_lock, pid_num, sig, shmsg>>

emi_msg_send(p, k, how) ==
    /\ ~InHandler(p) /\ main[p] = None
    /\ Connect(k)
    /\ main' = [main EXCEPT ![p] = IF how = "BLOCK" THEN calls' ELSE None]
    /\ UNCHANGED nested

\* A registered function does the same.
FuncSends(p, k, how) ==
    /\ InHandler(p) /\ nested[p] = None
    /\ Connect(k)
    /\ nested' = [nested EXCEPT ![p] = IF how = "BLOCK" THEN calls' ELSE None]
    /\ UNCHANGED main

-----------------------------------------------------------------------------
(* func_sterotype                                                           *)

\* Faulty variant: the cell is not emptied.
Pickup_keeps_cell(p) ==
    /\ sig[p] /\ ~InHandler(p)
    /\ sig' = [sig EXCEPT ![p] = FALSE]
    /\ shmsg' = [shmsg EXCEPT ![p] = pid_num[p]]
    /\ UNCHANGED <<calls, threadVars, pid_num, main, nested>>

\* Lines 208-219.
Pickup(p) ==
    /\ sig[p] /\ ~InHandler(p)
    /\ sig' = [sig EXCEPT ![p] = FALSE]
    /\ shmsg' = [shmsg EXCEPT ![p] = pid_num[p]]
    /\ pid_num' = [pid_num EXCEPT ![p] = None]
    /\ UNCHANGED <<calls, threadVars, main, nested>>

\* The functions have returned; line 250.
Finish(p) ==
    /\ InHandler(p) /\ nested[p] = None
    /\ count' = [count EXCEPT ![shmsg[p]] = @ \ {p}]
    /\ shmsg' = [shmsg EXCEPT ![p] = None]
    /\ UNCHANGED <<calls, pc, todo, critical_shmem_lock, pid_num, sig, main, nested>>

-----------------------------------------------------------------------------
(* emi_recieve_operation                                                    *)

\* Lines 446-457.
Post(s, p) ==
    /\ pc[s] = "loop" /\ p \in todo[s]
    /\ critical_shmem_lock = None
    /\ critical_shmem_lock' = s
    /\ pid_num' = [pid_num EXCEPT ![p] = s]
    /\ sig' = [sig EXCEPT ![p] = TRUE]
    /\ todo' = [todo EXCEPT ![s] = @ \ {p}]
    /\ count' = [count EXCEPT ![s] = @ \cup {p}]
    /\ pc' = [pc EXCEPT ![s] = "spin"]
    /\ UNCHANGED <<calls, shmsg, main, nested>>

\* Lines 459-463.
SpinEnds(s) ==
    /\ pc[s] = "spin"
    /\ \A p \in Pid : pid_num[p] # s
    /\ critical_shmem_lock' = None
    /\ pc' = [pc EXCEPT ![s] = "loop"]
    /\ UNCHANGED <<calls, todo, count, pid_num, sig, shmsg, main, nested>>

\* Lines 474-508, with the answer to a BLOCK message and its return at the
\* sender.
Answer(s) ==
    /\ pc[s] = "loop" /\ todo[s] = {} /\ count[s] = {}
    /\ pc' = [pc EXCEPT ![s] = "ended"]
    /\ main' = [p \in Pid |-> IF main[p] = s THEN None ELSE main[p]]
    /\ nested' = [p \in Pid |-> IF nested[p] = s THEN None ELSE nested[p]]
    /\ UNCHANGED <<calls, todo, count, critical_shmem_lock, pid_num, sig, shmsg>>

-----------------------------------------------------------------------------
ThreadStep(s) == (\E p \in Pid : Post(s, p)) \/ SpinEnds(s) \/ Answer(s)

Sends == \E p \in Pid, k \in Msg, how \in Mode :
            emi_msg_send(p, k, how) \/ FuncSends(p, k, how)

Next ==
    \/ Sends
    \/ \E p \in Pid : Pickup(p) \/ Finish(p)
    \/ \E s \in Thread : ThreadStep(s)

Spec == Init /\ [][Next]_vars

\* Runnable threads and processes run on.
LiveSpec ==
    /\ Spec
    /\ \A p \in Pid : WF_vars(Pickup(p)) /\ WF_vars(Finish(p))
    /\ \A s \in Thread : WF_vars(ThreadStep(s))
-----------------------------------------------------------------------------
(* Properties *)

\* A thread has to post to a process that is in its handler and waits there for
\* the answer to what its function sent.
Clash ==
    \E p \in Pid, s \in Thread :
        nested[p] # None /\ s # shmsg[p] /\ (p \in todo[s] \/ pid_num[p] = s)

\* Some step other than a new call can be taken: a handler returns or begins, or
\* a thread's wait is over.
ProcessMoves == \E p \in Pid : IF InHandler(p) THEN nested[p] = None ELSE sig[p]

ThreadMoves ==
    \E s \in Thread :
        \/ pc[s] = "spin" /\ \A p \in Pid : pid_num[p] # s
        \/ pc[s] = "loop" /\ todo[s] # {} /\ critical_shmem_lock = None
        \/ pc[s] = "loop" /\ todo[s] = {} /\ count[s] = {}

\* While a delivery is under way somebody can go on, unless a message is for a
\* process that waits inside its handler: functions that send to each other, in
\* whatever order, never wait for each other in a circle (emi_if.c:229, 306,
\* emi_core.c:446-459).
NeverStuck ==
    (\E s \in Thread : pc[s] \in {"loop", "spin"})
        => Clash \/ ProcessMoves \/ ThreadMoves

Waits(s) == \E p \in Pid : s \in {main[p], nested[p]}

\* A call of emi_msg_send returns, also one that a function makes, whatever the
\* functions of its receivers send: nothing but a message for a process whose
\* function waits for an answer can stop emi_core, and only for as long as it
\* waits (emi_if.c:229, 306, emi_core.c:459).
CallReturns == <>[]Clash \/ \A s \in Thread : Waits(s) ~> ~Waits(s)
=============================================================================
