------------------------------ MODULE SendReply ------------------------------
(****************************************************************************)
(* What a sender learns: emi_msg_send (emi_if.c:263-339) at one end of a    *)
(* connection, emi_recieve_operation (emi_core.c:339-518) at the other.     *)
(* The search for receivers and the wait for them, which EmiCore models,    *)
(* are one step here, and one that may never come: the loops at             *)
(* emi_core.c:459 and 474 need not end.                                     *)
(*                                                                          *)
(* A flag word is a set of the EMI_MSG_* bits.  A return value of read or   *)
(* write is compared with a size as an unsigned number, so that -1 is never *)
(* "less than" it: TooFew.                                                  *)
(****************************************************************************)
EXTENDS Stream

CONSTANTS
    MAX_DATA,  \* emi_config.emi_data_size_per_msg, in units
    Request,   \* the flags that senders add to a message
    Sizes      \* the sizes of data sent and returned

Bit    == {"CMD", "DATA", "BLOCK", "BLOCK_RETURN", "NONBLOCK", "SUCCEEDED"}
Size   == 0 .. MAX_DATA + 1
Header == [flag : SUBSET Bit, size : Size]

\* The three emi_msg_send_highlevel functions, with and without data.
HighLevel == {flag \cup {"CMD", mode} : flag \in {{}, {"DATA"}},
                                       mode \in {"NONBLOCK", "BLOCK", "BLOCK_RETURN"}}

\* emi_msg_alloc zeroes a message; emi_fill_msg adds to the flags it has.
Zero == [flag |-> {}, size |-> 0]
emi_fill_msg(m, flag, size) == [flag |-> m.flag \cup flag, size |-> size]

ASSUME MaxAssumption     == MAX_DATA \in Nat \ {0}
ASSUME RequestAssumption == Request \subseteq HighLevel \cup {{}}
ASSUME SizesAssumption   == Sizes \subseteq Size

VARIABLES
    (* the sender's process *)
    cpc,       \* where emi_msg_send is; "idle" outside it
    msg,       \* *msg
    whole,     \* msg->data is the data the header in msg tells of
    ret,
    (* emi_core *)
    core,      \* it runs
    spc,       \* where the connection's thread is
    msg_pos,   \* the header in the area, the last user's until it is read
    fill,      \* what the area's data are
    (* history of a call, read by properties only *)
    asked,     \* the message of the call
    served,    \* what the thread searched receivers for
    seen       \* what the data were when they ran; {} if there were none

vars == <<cpc, msg, whole, ret, streamVars,
          core, spc, msg_pos, fill, asked, served, seen>>
clientVars == <<cpc, msg, whole, ret>>
threadVars == <<spc, msg_pos, fill>>
ghosts     == <<asked, served, seen>>

ClientLabel == {"idle", "dead", "header", "data", "reply", "returned", "close"}
ThreadLabel == {"none", "accept", "lost", "obtain", "header", "data", "search",
                "reply", "returned", "e0"}
Fill        == {"old", "sent", "returned"}

TooFew(n, size) == n >= 0 /\ n < size
SetSucceeded(flag, ok) == IF ok THEN flag \cup {"SUCCEEDED"} ELSE flag \ {"SUCCEEDED"}

Init ==
    /\ cpc = "idle" /\ msg = Zero /\ whole = TRUE /\ ret = 0
    /\ Connected
    /\ core = TRUE /\ spc = "none" /\ msg_pos = Zero /\ fill = "old"
    /\ asked = Zero /\ served = {} /\ seen = {}

-----------------------------------------------------------------------------
(* emi_msg_send                                                             *)

\* A fresh message, or the last one once more.  Lines 266-282; emi_connect fails
\* when there is no emi_core.
Call(flag, size, again) ==
    /\ cpc = "idle" \/ (cpc = "dead" /\ ~again)
    /\ spc \in {"none", "lost"}
    /\ msg' = emi_fill_msg(IF again THEN msg ELSE Zero, flag, size)
    /\ whole' = TRUE
    /\ fill' = "old"
    /\ asked' = msg' /\ served' = {} /\ seen' = {}
    /\ IF msg'.flag \cap {"CMD", "DATA"} # {} /\ core
       THEN cpc' = "header" /\ spc' = "accept" /\ emi_connect /\ ret' = 0
       ELSE cpc' = "idle" /\ ret' = -1 /\ UNCHANGED <<spc, streamVars>>
    /\ UNCHANGED <<core, msg_pos>>

\* Lines 284-288.
WriteHeader ==
    /\ cpc = "header"
    /\ \E n \in {-1, 0} : emi_write("sender", {msg}, 0, n)
    /\ cpc' = IF "DATA" \in msg.flag THEN "data" ELSE "reply"
    /\ ret' = 0
    /\ UNCHANGED <<msg, whole, core, threadVars, ghosts>>

\* Lines 290-299.
WriteData ==
    /\ cpc = "data"
    /\ \E n \in {-1} \cup Size :
           /\ emi_write("sender", {}, msg.size, n)
           /\ ret' = IF TooFew(n, msg.size) THEN -1 ELSE 0
    /\ cpc' = "reply"
    /\ UNCHANGED <<msg, whole, core, threadVars, ghosts>>

\* Faulty variant: only BLOCK calls wait for an answer.
NoReply_to_block_return ==
    /\ cpc = "reply"
    /\ "BLOCK" \notin msg.flag
    /\ cpc' = "close"
    /\ UNCHANGED <<msg, whole, ret, streamVars, core, threadVars, ghosts>>

\* Line 302.
NoReply ==
    /\ cpc = "reply"
    /\ msg.flag \cap {"BLOCK", "BLOCK_RETURN"} = {}
    /\ cpc' = "close"
    /\ UNCHANGED <<msg, whole, ret, streamVars, core, threadVars, ghosts>>

\* Faulty variant: an answer that cannot be read is not looked at.
ReadBlock_or_not ==
    /\ cpc = "reply"
    /\ "BLOCK" \in msg.flag
    /\ \/ \E cmd \in Header :
              /\ ReadHeader("sender", cmd)
              /\ ret' = IF "SUCCEEDED" \in cmd.flag THEN 0 ELSE -1
       \/ (\E n \in {-1, 0} : NoHeader("sender", n)) /\ UNCHANGED ret
    /\ cpc' = "close"
    /\ UNCHANGED <<msg, whole, core, threadVars, ghosts>>

\* Lines 302-315: the answer is read into a header of its own.
ReadBlock ==
    /\ cpc = "reply"
    /\ "BLOCK" \in msg.flag
    /\ \/ \E cmd \in Header :
              /\ ReadHeader("sender", cmd)
              /\ ret' = IF "SUCCEEDED" \in cmd.flag THEN 0 ELSE -1
       \/ (\E n \in {-1, 0} : NoHeader("sender", n)) /\ ret' = -1
    /\ cpc' = "close"
    /\ UNCHANGED <<msg, whole, core, threadVars, ghosts>>

\* Lines 317-323, 331-334: the answer is read into *msg; if it cannot be read
\* *msg stays as it was.
ReadBlockReturn ==
    /\ cpc = "reply"
    /\ "BLOCK_RETURN" \in msg.flag /\ "BLOCK" \notin msg.flag
    /\ \/ \E head \in Header :
              /\ ReadHeader("sender", head)
              /\ msg' = head
              /\ whole' = (head.size = 0)
       \/ \E n \in {-1, 0} : NoHeader("sender", n) /\ UNCHANGED <<msg, whole>>
    /\ IF "SUCCEEDED" \notin msg'.flag THEN cpc' = "close" /\ ret' = -1
       ELSE IF msg'.size = 0 THEN cpc' = "close" /\ ret' = 0
       ELSE cpc' = "returned" /\ UNCHANGED ret
    /\ UNCHANGED <<core, threadVars, ghosts>>

\* Lines 324-330: whatever the read returns, ret is 0.
ReadReturned ==
    /\ cpc = "returned"
    /\ \E n \in {-1} \cup Size :
           /\ ReadUnits("sender", msg.size, n)
           /\ whole' = (n = msg.size)
    /\ ret' = 0
    /\ cpc' = "close"
    /\ UNCHANGED <<msg, core, threadVars, ghosts>>

\* Lines 337-338.
Close ==
    /\ cpc = "close"
    /\ cpc' = "idle"
    /\ emi_close("sender")
    /\ UNCHANGED <<msg, whole, ret, core, threadVars, ghosts>>

\* The sender's process ends: by SIGPIPE, which a write after a reset raises
\* when it does not return -1, or for reasons of its own.
SenderDies ==
    /\ cpc \notin {"idle", "dead"}
    /\ (cpc \in {"header", "data"} /\ rst["sender"]) \/ "die" \in Faults
    /\ cpc' = "dead"
    /\ wire' = [wire EXCEPT !["sender"] = Empty]
    /\ open' = [open EXCEPT !["sender"] = FALSE]
    /\ rst' = [rst EXCEPT !["core"] = @ \/ wire["sender"] # Empty]
    /\ happened' = happened \cup {"die"}
    /\ msg' = Zero /\ whole' = TRUE /\ ret' = 0
    /\ UNCHANGED <<core, threadVars, ghosts>>

-----------------------------------------------------------------------------
(* emi_recieve_operation                                                    *)

\* main, lines 318-336: when malloc or pthread_create fails the connection stays
\* open and nobody serves it.
Accept ==
    /\ spc = "accept"
    /\ \/ spc' = "obtain" /\ UNCHANGED happened
       \/ /\ "unstarted" \in Faults
          /\ spc' = "lost"
          /\ happened' = happened \cup {"unstarted"}
    /\ UNCHANGED <<clientVars, wire, open, rst, core, msg_pos, fill, ghosts>>

\* Lines 346-349; the pool may have no area (EmiSpace).
Obtain ==
    /\ spc = "obtain"
    /\ spc' \in {"header", "e0"}
    /\ UNCHANGED <<clientVars, streamVars, core, msg_pos, fill, ghosts>>

\* Lines 354-357: after -1 the thread goes on with what the area held before.
ReadRequest ==
    /\ spc = "header"
    /\ \/ \E head \in Header :
              ReadHeader("core", head) /\ msg_pos' = head /\ spc' = "data"
       \/ NoHeader("core", 0) /\ spc' = "e0" /\ UNCHANGED msg_pos
       \/ NoHeader("core", -1) /\ spc' = "data" /\ UNCHANGED msg_pos
    /\ UNCHANGED <<clientVars, core, fill, ghosts>>

\* Faulty variant: what has come of the data is good enough.
ReadData_what_comes ==
    /\ spc = "data"
    /\ IF "DATA" \in msg_pos.flag /\ msg_pos.size < MAX_DATA
       THEN \E n \in {-1} \cup Size :
                /\ ReadUnits("core", msg_pos.size, n)
                /\ fill' = IF n = msg_pos.size THEN "sent" ELSE fill
       ELSE UNCHANGED <<streamVars, fill>>
    /\ spc' = "search"
    /\ UNCHANGED <<clientVars, core, msg_pos, ghosts>>

\* Faulty variant: read again until everything has come, even from a sender
\* that is gone.
ReadData_insists ==
    /\ spc = "data"
    /\ IF "DATA" \in msg_pos.flag /\ msg_pos.size < MAX_DATA
       THEN \E n \in {-1} \cup Size :
                /\ ReadUnits("core", msg_pos.size, n)
                /\ spc' = IF TooFew(n, msg_pos.size) THEN "data" ELSE "search"
                /\ fill' = IF n = msg_pos.size THEN "sent" ELSE fill
       ELSE spc' = "search" /\ UNCHANGED <<streamVars, fill>>
    /\ UNCHANGED <<clientVars, core, msg_pos, ghosts>>

\* Lines 401-411: data of MAX_DATA units or more are not read at all.
ReadData ==
    /\ spc = "data"
    /\ IF "DATA" \in msg_pos.flag /\ msg_pos.size < MAX_DATA
       THEN \E n \in {-1} \cup Size :
                /\ ReadUnits("core", msg_pos.size, n)
                /\ spc' = IF TooFew(n, msg_pos.size) THEN "e0" ELSE "search"
                /\ fill' = IF n = msg_pos.size THEN "sent" ELSE fill
       ELSE spc' = "search" /\ UNCHANGED <<streamVars, fill>>
    /\ UNCHANGED <<clientVars, core, msg_pos, ghosts>>

\* Lines 425-476, if they end: nobody is registered, or somebody is and runs its functions.
\* One for a BLOCK_RETURN message says whether it succeeded (emi_if.c:227-233)
\* and may have called emi_msg_prepare_return_data (emi_if.c:396-402).
Search ==
    /\ spc = "search"
    /\ spc' = "reply"
    /\ served' = {msg_pos}
    /\ \/ seen' = {} /\ UNCHANGED <<msg_pos, fill>>
       \/ /\ seen' = {fill}
          /\ IF "BLOCK_RETURN" \notin msg_pos.flag THEN UNCHANGED <<msg_pos, fill>>
             ELSE \E ok \in BOOLEAN :
                \/ /\ msg_pos' = [msg_pos EXCEPT !.flag = SetSucceeded(@, ok)]
                   /\ UNCHANGED fill
                \/ \E n \in {i \in Sizes : i <= MAX_DATA} :
                   /\ msg_pos' = [flag |-> SetSucceeded(msg_pos.flag, ok), size |-> n]
                   /\ fill' = "returned"
    /\ UNCHANGED <<clientVars, streamVars, core, asked>>

\* Lines 478-508.
Answers(flag) == "NONBLOCK" \notin flag /\ flag \cap {"BLOCK", "BLOCK_RETURN"} # {}

NoAnswer ==
    /\ spc = "reply"
    /\ ~Answers(msg_pos.flag)
    /\ spc' = "e0"
    /\ UNCHANGED <<clientVars, streamVars, core, msg_pos, fill, ghosts>>

\* Faulty variant: the thread forgets to answer.
AnswerBlock_not ==
    /\ spc = "reply"
    /\ "BLOCK" \in msg_pos.flag /\ "NONBLOCK" \notin msg_pos.flag
    /\ spc' = "e0"
    /\ UNCHANGED <<clientVars, streamVars, core, msg_pos, fill, ghosts>>

\* Lines 480-485.
AnswerBlock ==
    /\ spc = "reply"
    /\ "BLOCK" \in msg_pos.flag /\ "NONBLOCK" \notin msg_pos.flag
    /\ \E n \in {-1, 0} :
           emi_write("core", {[flag |-> {"SUCCEEDED"}, size |-> 0]}, 0, n)
    /\ spc' = "e0"
    /\ UNCHANGED <<clientVars, core, msg_pos, fill, ghosts>>

\* Faulty variant: the answer is always SUCCEEDED, as in BLOCK mode.
AnswerBlockReturn_always ==
    /\ spc = "reply"
    /\ "BLOCK_RETURN" \in msg_pos.flag /\ msg_pos.flag \cap {"BLOCK", "NONBLOCK"} = {}
    /\ msg_pos' = [msg_pos EXCEPT !.flag = {"SUCCEEDED"}]
    /\ \E n \in {-1, 0} : emi_write("core", {msg_pos'}, 0, n)
    /\ spc' = IF msg_pos.size > 0 THEN "returned" ELSE "e0"
    /\ UNCHANGED <<clientVars, core, fill, ghosts>>

\* Lines 487-502.
AnswerBlockReturn ==
    /\ spc = "reply"
    /\ "BLOCK_RETURN" \in msg_pos.flag /\ msg_pos.flag \cap {"BLOCK", "NONBLOCK"} = {}
    /\ msg_pos' = [msg_pos EXCEPT !.flag =
                      IF "SUCCEEDED" \notin @ THEN @
                      ELSE IF msg_pos.size > MAX_DATA THEN @ \ {"SUCCEEDED"}
                      ELSE {"SUCCEEDED"}]
    /\ \E n \in {-1, 0} : emi_write("core", {msg_pos'}, 0, n)
    /\ spc' = IF "SUCCEEDED" \in msg_pos'.flag /\ msg_pos'.size > 0
              THEN "returned" ELSE "e0"
    /\ UNCHANGED <<clientVars, core, fill, ghosts>>

\* Faulty variant: data are returned only for a message that had some.
AnswerData_to_data_only ==
    /\ spc = "returned"
    /\ IF "DATA" \in asked.flag
       THEN \E n \in {-1} \cup Size : emi_write("core", {}, msg_pos.size, n)
       ELSE UNCHANGED streamVars
    /\ spc' = "e0"
    /\ UNCHANGED <<clientVars, core, msg_pos, fill, ghosts>>

\* Lines 503-505.
AnswerData ==
    /\ spc = "returned"
    /\ \E n \in {-1} \cup Size : emi_write("core", {}, msg_pos.size, n)
    /\ spc' = "e0"
    /\ UNCHANGED <<clientVars, core, msg_pos, fill, ghosts>>

\* Faulty variant: an early return that leaves the connection open.
Leave_without_close ==
    /\ spc = "e0"
    /\ spc' = "none"
    /\ UNCHANGED <<clientVars, streamVars, core, msg_pos, fill, ghosts>>

\* Lines 511-515.
Leave ==
    /\ spc = "e0"
    /\ spc' = "none"
    /\ emi_close("core")
    /\ UNCHANGED <<clientVars, core, msg_pos, fill, ghosts>>

\* Nobody in emi_core handles SIGPIPE: a write after a reset may end it.
CoreDies ==
    /\ spc = "returned" \/ (spc = "reply" /\ Answers(msg_pos.flag))
    /\ rst["core"]
    /\ core' = FALSE
    /\ spc' = "none"
    /\ emi_close("core")
    /\ UNCHANGED <<clientVars, msg_pos, fill, ghosts>>

\* A new emi_core has new shared memory.
CoreStarts ==
    /\ ~core
    /\ core' = TRUE
    /\ msg_pos' = Zero
    /\ UNCHANGED <<clientVars, streamVars, spc, fill, ghosts>>

-----------------------------------------------------------------------------
Sender ==
    \/ WriteHeader \/ WriteData \/ NoReply \/ ReadBlock \/ ReadBlockReturn
    \/ ReadReturned \/ Close

\* What the thread does without waiting for a receiver.
Proceeds ==
    \/ Accept \/ Obtain \/ ReadRequest \/ ReadData \/ NoAnswer
    \/ AnswerBlock \/ AnswerBlockReturn \/ AnswerData \/ Leave

Thread == Proceeds \/ Search

Break == Reset /\ UNCHANGED <<clientVars, core, threadVars, ghosts>>

Next ==
    \/ \E flag \in Request, size \in Sizes, again \in BOOLEAN : Call(flag, size, again)
    \/ Sender \/ SenderDies \/ Thread \/ CoreDies \/ CoreStarts
    \/ Break

Spec == Init /\ [][Next]_vars

\* Search is not fair: whether receivers finish is EmiCore's subject.
LiveSpec == Spec /\ WF_vars(Sender) /\ WF_vars(Proceeds)

-----------------------------------------------------------------------------
TypeOK ==
    /\ cpc \in ClientLabel /\ spc \in ThreadLabel
    /\ msg \in Header /\ msg_pos \in Header /\ asked \in Header
    /\ whole \in BOOLEAN /\ core \in BOOLEAN
    /\ ret \in {-1, 0}
    /\ wire \in [End -> [head : SUBSET Header, units : Nat]]
    /\ open \in [End -> BOOLEAN] /\ rst \in [End -> BOOLEAN]
    /\ happened \subseteq Fault
    /\ fill \in Fill /\ seen \subseteq Fill /\ served \subseteq Header

Ended == cpc = "idle" /\ asked # Zero

\* A BLOCK or BLOCK_RETURN call that returns 0 has been served: the thread read
\* this very message and waited for its receivers, whatever was lost, torn or
\* reset on the way (emi_if.c:301-335, emi_core.c:354-508).  A message sent
\* once more still has the SUCCEEDED bit of its last answer; that one is trusted.
ZeroMeansServed ==
    Ended /\ ret = 0 /\ asked.flag \cap {"BLOCK", "BLOCK_RETURN"} # {}
          /\ "SUCCEEDED" \notin asked.flag
        => served = {asked}

\* ... and for BLOCK_RETURN a receiver's function has run.
ZeroMeansHandled ==
    Ended /\ ret = 0 /\ "BLOCK_RETURN" \in asked.flag
          /\ asked.flag \cap {"BLOCK", "SUCCEEDED"} = {}
        => seen # {}

\* A BLOCK call that fails may be repeated: without a broken connection nobody
\* has got its message.
FailureIsUnserved ==
    Ended /\ ret = -1 /\ "BLOCK" \in asked.flag /\ "NONBLOCK" \notin asked.flag
          /\ happened \cap {"reset", "die"} = {}
        => served = {}

\* What functions get as the data of a message are its data and all of them,
\* even if they arrive in pieces or the sender gives up half way
\* (emi_core.c:401-411).  Not so after a reset, or from MAX_DATA units on.
DataAreWhole ==
    seen # {} /\ "DATA" \in asked.flag /\ asked.size < MAX_DATA
          /\ "reset" \notin happened
        => seen = {"sent"}

\* emi_core writes to no connection its sender closed, unless the sender died or
\* the connection broke: SIGPIPE would end it, and with it all other messages.
CoreSurvives == core \/ happened \cap {"reset", "die"} # {}

\* A BLOCK_RETURN call that returns 0 has all the returned data, when nothing
\* breaks.  Not so when they come in pieces: whatever the read of line 325
\* returns, line 330 makes a 0 of it.
ZeroMeansWhole ==
    Ended /\ ret = 0 /\ "BLOCK_RETURN" \in asked.flag
          /\ asked.flag \cap {"BLOCK", "SUCCEEDED"} = {} /\ happened = {}
        => whole

\* The call wants an answer.
Waits == cpc = "reply" /\ msg.flag \cap {"BLOCK", "BLOCK_RETURN"} # {}

\* emi_msg_send returns (or its process ends), unless it waits for an answer and
\* emi_core has no thread for its connection, which it accepted all the same
\* (emi_core.c:318-330), or the thread waits for receivers for ever (lines 459
\* and 474; EmiCore's SendCompletes and CallsEndUntilOverlap say when).
CallReturns ==
    \/ cpc \notin {"idle", "dead"} ~> cpc \in {"idle", "dead"} \/ (spc = "lost" /\ Waits)
    \/ <>[](spc = "search" /\ Waits)

\* The thread ends and gives its area back, whatever becomes of its sender and of
\* the data it expects, unless it waits for receivers for ever.
ThreadEnds ==
    \/ spc \notin {"none", "lost"} ~> spc \in {"none", "lost"}
    \/ <>[](spc = "search")
=============================================================================
