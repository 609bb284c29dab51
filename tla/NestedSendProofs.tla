-------------------------- MODULE NestedSendProofs --------------------------
(***************************************************************************)
(* Proof that functions which send messages themselves never wait for each *)
(* other in a circle.  What an answer is waited for inside a handler is a  *)
(* younger call than the message the handler is at (shmsg[p] < nested[p]), *)
(* so of the threads that wait for a handler the youngest waits for one    *)
(* that can return; and a thread with the lock waits for nobody but the    *)
(* process it has signalled, whose cell only it can have filled.           *)
(***************************************************************************)
EXTENDS NestedSend, TLAPS, NaturalsInduction, WellFoundedInduction

Running(s) == pc[s] \in {"loop", "spin"}

TypeOK ==
    /\ calls \in 0..MaxCalls
    /\ pc \in [Thread -> {"none", "loop", "spin", "ended"}]
    /\ todo \in [Thread -> SUBSET Pid]
    /\ count \in [Thread -> SUBSET Pid]
    /\ critical_shmem_lock \in Thread \cup {None}
    /\ pid_num \in [Pid -> Thread \cup {None}]
    /\ sig \in [Pid -> BOOLEAN]
    /\ shmsg \in [Pid -> Thread \cup {None}]
    /\ main \in [Pid -> Thread \cup {None}]
    /\ nested \in [Pid -> Thread \cup {None}]

\* Calls that have not been made have nothing; who spins has the lock; nobody
\* is posted to twice.
ThreadsOK == \A s \in Thread :
    /\ s > calls => pc[s] = "none"
    /\ pc[s] = "spin" <=> critical_shmem_lock = s
    /\ todo[s] \cap count[s] = {}

\* The message of s is in p's cell.
CellOK == \A p \in Pid, s \in Thread :
    pid_num[p] = s => pc[s] = "spin" /\ p \in count[s] /\ shmsg[p] # s

\* The message of s is in p's hands.
HandlerOK == \A p \in Pid, s \in Thread :
    shmsg[p] = s => Running(s) /\ p \in count[s]

\* Whoever has not finished with a message has it in the cell or in hand.
CountOK == \A p \in Pid, s \in Thread :
    p \in count[s] => pid_num[p] = s \/ shmsg[p] = s

\* What a function waits for is younger than what it was called for.
NestedOK == \A p \in Pid, s \in Thread :
    nested[p] = s => Running(s) /\ InHandler(p) /\ shmsg[p] < s

SigOK == \A p \in Pid : sig[p] <=> pid_num[p] # None

IInv == TypeOK /\ ThreadsOK /\ CellOK /\ HandlerOK /\ CountOK /\ NestedOK /\ SigOK

-----------------------------------------------------------------------------
LEMMA ThreadIsNat == Thread \subseteq Nat \ {0} /\ None \notin Thread
BY CallsAssumption DEF Thread, None

LEMMA InitIInv == Init => IInv
<1>. SUFFICES ASSUME Init PROVE IInv
  OBVIOUS
<1>1. TypeOK
  BY CallsAssumption DEF Init, TypeOK
<1>. QED BY <1>1, ThreadIsNat DEF Init, IInv, ThreadsOK, CellOK, HandlerOK, CountOK,
  NestedOK, SigOK, Running, InHandler

\* A new thread.
LEMMA ConnectType ==
    ASSUME TypeOK, NEW k \in Msg, Connect(k)
    PROVE  calls' \in Thread /\ calls' = calls + 1
BY CallsAssumption DEF TypeOK, Connect, Thread

LEMMA ConnectKeeps ==
    ASSUME IInv, NEW k \in Msg, Connect(k)
    PROVE  /\ ThreadsOK' /\ CellOK' /\ HandlerOK' /\ CountOK' /\ SigOK'
           /\ pc'[calls'] = "loop"
           /\ \A s \in Thread : Running(s) => s < calls' /\ Running(s)'
<1>. USE ThreadIsNat DEF IInv
<1>0. calls' \in Thread /\ calls' = calls + 1 /\ calls \in Nat /\ pc[calls'] = "none"
  BY ConnectType, CallsAssumption DEF TypeOK, ThreadsOK
<1>1. \A s \in Thread : pc'[s] = IF s = calls' THEN "loop" ELSE pc[s]
  BY <1>0 DEF Connect, TypeOK
<1>2. \A s \in Thread : todo'[s] = IF s = calls' THEN Receivers[k] ELSE todo[s]
  BY <1>0 DEF Connect, TypeOK
<1>3. UNCHANGED <<count, critical_shmem_lock, pid_num, sig, shmsg>>
  BY DEF Connect
<1>4. count[calls'] = {}
  <2>1. \A p \in Pid : p \notin count[calls']
    BY <1>0 DEF CountOK, CellOK, HandlerOK, Running
  <2>. QED BY <2>1, <1>0 DEF TypeOK
<1>5. ThreadsOK'
  <2>. SUFFICES ASSUME NEW s \in Thread
       PROVE /\ s > calls' => pc'[s] = "none"
             /\ pc'[s] = "spin" <=> critical_shmem_lock' = s
             /\ todo'[s] \cap count'[s] = {}
    BY DEF ThreadsOK
  <2>1. s > calls' => s > calls /\ s # calls'
    BY <1>0
  <2>. QED BY <2>1, <1>0, <1>1, <1>2, <1>3, <1>4 DEF ThreadsOK
<1>6. \A s \in Thread : Running(s) => s < calls' /\ Running(s)' /\ s # calls'
  BY <1>0, <1>1 DEF Running, ThreadsOK
<1>. QED BY <1>0, <1>1, <1>3, <1>5, <1>6
  DEF CellOK, HandlerOK, CountOK, SigOK, Running

LEMMA SendsKeeps == ASSUME IInv, Sends PROVE IInv'
<1>. USE ThreadIsNat DEF IInv
<1>1. PICK p \in Pid, k \in Msg, how \in Mode :
          emi_msg_send(p, k, how) \/ FuncSends(p, k, how)
  BY DEF Sends
<1>2. Connect(k)
  BY <1>1 DEF emi_msg_send, FuncSends
<1>3. /\ ThreadsOK' /\ CellOK' /\ HandlerOK' /\ CountOK' /\ SigOK'
      /\ pc'[calls'] = "loop"
      /\ \A s \in Thread : Running(s) => s < calls' /\ Running(s)'
  BY <1>2, ConnectKeeps
<1>4. calls' \in Thread /\ calls' = calls + 1
  BY <1>2, ConnectType
<1>5. /\ main' \in [Pid -> Thread \cup {None}]
      /\ \A q \in Pid : \/ nested'[q] = nested[q]
                        \/ InHandler(q) /\ nested'[q] = calls'
                        \/ nested'[q] = None
      /\ nested' \in [Pid -> Thread \cup {None}]
  BY <1>1, <1>4 DEF emi_msg_send, FuncSends, TypeOK
<1>6. TypeOK'
  <2>1. /\ calls' \in 0..MaxCalls
        /\ pc' \in [Thread -> {"none", "loop", "spin", "ended"}]
        /\ todo' \in [Thread -> SUBSET Pid]
    BY <1>2, <1>4, ReceiversAssumption, CallsAssumption DEF TypeOK, Connect, Thread
  <2>. QED BY <2>1, <1>2, <1>5 DEF TypeOK, Connect
<1>7. NestedOK'
  <2>. SUFFICES ASSUME NEW q \in Pid, NEW s \in Thread, nested'[q] = s
       PROVE Running(s)' /\ InHandler(q)' /\ shmsg'[q] < s
    BY DEF NestedOK
  <2>1. shmsg' = shmsg
    BY <1>2 DEF Connect
  <2>2. CASE nested[q] = s
    BY <2>1, <2>2, <1>3 DEF NestedOK, InHandler
  <2>3. CASE InHandler(q) /\ s = calls'
    <3>1. shmsg[q] \in Thread /\ Running(shmsg[q])
      BY <2>3 DEF InHandler, TypeOK, HandlerOK
    <3>. QED BY <3>1, <2>1, <2>3, <1>3 DEF InHandler, Running
  <2>. QED BY <2>2, <2>3, <1>5
<1>. QED BY <1>3, <1>6, <1>7

LEMMA PickupKeeps == ASSUME IInv, NEW p \in Pid, Pickup(p) PROVE IInv'
<1>. USE ThreadIsNat DEF IInv
<1>1. /\ sig[p] /\ shmsg[p] = None /\ pid_num[p] \in Thread
      /\ UNCHANGED <<calls, pc, todo, count, critical_shmem_lock, main, nested>>
  BY DEF Pickup, InHandler, SigOK, TypeOK, threadVars
<1>2. \A q \in Pid : /\ sig'[q] = IF q = p THEN FALSE ELSE sig[q]
                     /\ shmsg'[q] = IF q = p THEN pid_num[p] ELSE shmsg[q]
                     /\ pid_num'[q] = IF q = p THEN None ELSE pid_num[q]
  BY DEF Pickup, TypeOK
<1>3. TypeOK'
  BY <1>1 DEF Pickup, TypeOK, threadVars
<1>4. ThreadsOK'
  BY <1>1 DEF ThreadsOK, threadVars
<1>5. CellOK' /\ HandlerOK' /\ CountOK' /\ SigOK'
  <2>1. CellOK'
    <3>. SUFFICES ASSUME NEW q \in Pid, NEW t \in Thread, pid_num'[q] = t
         PROVE pc'[t] = "spin" /\ q \in count'[t] /\ shmsg'[q] # t
      BY DEF CellOK
    <3>. QED BY <1>1, <1>2 DEF CellOK, HandlerOK
  <2>2. HandlerOK'
    <3>. SUFFICES ASSUME NEW q \in Pid, NEW t \in Thread, shmsg'[q] = t
         PROVE Running(t)' /\ q \in count'[t]
      BY DEF HandlerOK
    <3>. QED BY <1>1, <1>2 DEF HandlerOK, CellOK, Running
  <2>3. CountOK'
    <3>. SUFFICES ASSUME NEW q \in Pid, NEW t \in Thread, q \in count'[t]
         PROVE pid_num'[q] = t \/ shmsg'[q] = t
      BY DEF CountOK
    <3>. QED BY <1>1, <1>2 DEF CountOK
  <2>4. SigOK'
    BY <1>1, <1>2 DEF SigOK
  <2>. QED BY <2>1, <2>2, <2>3, <2>4
<1>6. NestedOK'
  BY <1>1, <1>2 DEF NestedOK, InHandler, Running, threadVars
<1>. QED BY <1>3, <1>4, <1>5, <1>6

LEMMA FinishKeeps == ASSUME IInv, NEW p \in Pid, Finish(p) PROVE IInv'
<1>. USE ThreadIsNat DEF IInv
<1>1. /\ shmsg[p] \in Thread /\ nested[p] = None
      /\ UNCHANGED <<calls, pc, todo, critical_shmem_lock, pid_num, sig, main, nested>>
  BY DEF Finish, InHandler, TypeOK
<1>2. /\ \A q \in Pid : shmsg'[q] = IF q = p THEN None ELSE shmsg[q]
      /\ \A s \in Thread : count'[s] = IF s = shmsg[p] THEN count[s] \ {p} ELSE count[s]
  BY <1>1 DEF Finish, TypeOK
<1>3. TypeOK'
  BY <1>1 DEF Finish, TypeOK
<1>4. ThreadsOK'
  BY <1>1, <1>2 DEF ThreadsOK
<1>5. CellOK' /\ HandlerOK' /\ CountOK' /\ SigOK'
  <2>1. CellOK'
    <3>. SUFFICES ASSUME NEW q \in Pid, NEW t \in Thread, pid_num'[q] = t
         PROVE pc'[t] = "spin" /\ q \in count'[t] /\ shmsg'[q] # t
      BY DEF CellOK
    <3>1. pc[t] = "spin" /\ q \in count[t] /\ shmsg[q] # t
      BY <1>1 DEF CellOK
    <3>2. pc'[t] = "spin" /\ shmsg'[q] # t
      BY <1>1, <1>2, <3>1
    <3>3. q = p => t # shmsg[p]
      BY <3>1
    <3>4. q \in count'[t]
      BY <1>2, <3>1, <3>3
    <3>. QED BY <3>2, <3>4
  <2>2. HandlerOK'
    <3>. SUFFICES ASSUME NEW q \in Pid, NEW t \in Thread, shmsg'[q] = t
         PROVE Running(t)' /\ q \in count'[t]
      BY DEF HandlerOK
    <3>1. q # p /\ shmsg[q] = t
      BY <1>2
    <3>2. Running(t) /\ q \in count[t]
      BY <3>1 DEF HandlerOK
    <3>. QED BY <1>1, <1>2, <3>1, <3>2 DEF Running
  <2>3. CountOK'
    <3>. SUFFICES ASSUME NEW q \in Pid, NEW t \in Thread, q \in count'[t]
         PROVE pid_num'[q] = t \/ shmsg'[q] = t
      BY DEF CountOK
    <3>. QED BY <1>1, <1>2 DEF CountOK
  <2>4. SigOK'
    BY <1>1, <1>2 DEF SigOK
  <2>. QED BY <2>1, <2>2, <2>3, <2>4
<1>6. NestedOK'
  BY <1>1, <1>2 DEF NestedOK, InHandler, Running
<1>. QED BY <1>3, <1>4, <1>5, <1>6

LEMMA PostKeeps ==
    ASSUME IInv, NEW s \in Thread, NEW p \in Pid, Post(s, p) PROVE IInv'
<1>. USE ThreadIsNat DEF IInv
<1>1. /\ pc[s] = "loop" /\ p \in todo[s] /\ critical_shmem_lock = None
      /\ critical_shmem_lock' = s
      /\ UNCHANGED <<calls, shmsg, main, nested>>
  BY DEF Post
<1>2. /\ \A q \in Pid : /\ pid_num'[q] = IF q = p THEN s ELSE pid_num[q]
                        /\ sig'[q] = IF q = p THEN TRUE ELSE sig[q]
      /\ \A t \in Thread : /\ todo'[t] = IF t = s THEN todo[s] \ {p} ELSE todo[t]
                           /\ count'[t] = IF t = s THEN count[s] \cup {p} ELSE count[t]
                           /\ pc'[t] = IF t = s THEN "spin" ELSE pc[t]
  BY DEF Post, TypeOK
<1>3. TypeOK'
  BY DEF Post, TypeOK
<1>4. \A t \in Thread : pc[t] # "spin"
  BY <1>1 DEF ThreadsOK
<1>5. \A q \in Pid : pid_num[q] = None
  BY <1>4 DEF CellOK, TypeOK
<1>6. p \notin count[s]
  BY <1>1 DEF ThreadsOK
<1>7. shmsg[p] # s
  BY <1>6 DEF HandlerOK
<1>8. ThreadsOK'
  BY <1>1, <1>2, <1>4 DEF ThreadsOK
<1>9. CellOK' /\ HandlerOK' /\ CountOK' /\ SigOK'
  <2>1. CellOK'
    <3>. SUFFICES ASSUME NEW q \in Pid, NEW t \in Thread, pid_num'[q] = t
         PROVE pc'[t] = "spin" /\ q \in count'[t] /\ shmsg'[q] # t
      BY DEF CellOK
    <3>. QED BY <1>1, <1>2, <1>5, <1>7 DEF CellOK, HandlerOK
  <2>2. HandlerOK'
    <3>. SUFFICES ASSUME NEW q \in Pid, NEW t \in Thread, shmsg'[q] = t
         PROVE Running(t)' /\ q \in count'[t]
      BY DEF HandlerOK
    <3>. QED BY <1>1, <1>2, <1>5, <1>7 DEF HandlerOK, CellOK, Running
  <2>3. CountOK'
    <3>. SUFFICES ASSUME NEW q \in Pid, NEW t \in Thread, q \in count'[t]
         PROVE pid_num'[q] = t \/ shmsg'[q] = t
      BY DEF CountOK
    <3>1. q \in count[t] => pid_num[q] = t \/ shmsg[q] = t
      BY DEF CountOK
    <3>2. (t = s /\ q = p) \/ q \in count[t]
      BY <1>2
    <3>3. q \in count[t] => shmsg'[q] = t
      BY <3>1, <1>1, <1>5
    <3>. QED BY <3>2, <3>3, <1>2
  <2>4. SigOK'
    BY <1>1, <1>2, <1>5, <1>7 DEF SigOK
  <2>. QED BY <2>1, <2>2, <2>3, <2>4
<1>10. NestedOK'
  BY <1>1, <1>2 DEF NestedOK, InHandler, Running
<1>. QED BY <1>3, <1>8, <1>9, <1>10

LEMMA SpinEndsKeeps == ASSUME IInv, NEW s \in Thread, SpinEnds(s) PROVE IInv'
<1>. USE ThreadIsNat DEF IInv
<1>1. /\ pc[s] = "spin" /\ \A p \in Pid : pid_num[p] # s
      /\ critical_shmem_lock' = None /\ critical_shmem_lock = s
      /\ UNCHANGED <<calls, todo, count, pid_num, sig, shmsg, main, nested>>
  BY DEF SpinEnds, ThreadsOK
<1>2. \A t \in Thread : pc'[t] = IF t = s THEN "loop" ELSE pc[t]
  BY DEF SpinEnds, TypeOK
<1>3. TypeOK'
  BY <1>1 DEF SpinEnds, TypeOK
<1>4. ThreadsOK'
  BY <1>1, <1>2 DEF ThreadsOK
<1>5. CellOK' /\ HandlerOK' /\ CountOK' /\ SigOK'
  <2>1. CellOK'
    <3>. SUFFICES ASSUME NEW q \in Pid, NEW t \in Thread, pid_num'[q] = t
         PROVE pc'[t] = "spin" /\ q \in count'[t] /\ shmsg'[q] # t
      BY DEF CellOK
    <3>. QED BY <1>1, <1>2 DEF CellOK, HandlerOK
  <2>2. HandlerOK'
    <3>. SUFFICES ASSUME NEW q \in Pid, NEW t \in Thread, shmsg'[q] = t
         PROVE Running(t)' /\ q \in count'[t]
      BY DEF HandlerOK
    <3>. QED BY <1>1, <1>2 DEF HandlerOK, CellOK, Running
  <2>3. CountOK'
    <3>. SUFFICES ASSUME NEW q \in Pid, NEW t \in Thread, q \in count'[t]
         PROVE pid_num'[q] = t \/ shmsg'[q] = t
      BY DEF CountOK
    <3>. QED BY <1>1, <1>2 DEF CountOK
  <2>4. SigOK'
    BY <1>1, <1>2 DEF SigOK
  <2>. QED BY <2>1, <2>2, <2>3, <2>4
<1>6. NestedOK'
  BY <1>1, <1>2 DEF NestedOK, InHandler, Running
<1>. QED BY <1>3, <1>4, <1>5, <1>6

LEMMA AnswerKeeps == ASSUME IInv, NEW s \in Thread, Answer(s) PROVE IInv'
<1>. USE ThreadIsNat DEF IInv
<1>1. /\ pc[s] = "loop" /\ count[s] = {}
      /\ UNCHANGED <<calls, todo, count, critical_shmem_lock, pid_num, sig, shmsg>>
  BY DEF Answer
<1>2. /\ \A t \in Thread : pc'[t] = IF t = s THEN "ended" ELSE pc[t]
      /\ \A q \in Pid : nested'[q] = IF nested[q] = s THEN None ELSE nested[q]
  BY DEF Answer, TypeOK
<1>3. TypeOK'
  BY <1>1 DEF Answer, TypeOK
<1>4. ThreadsOK'
  BY <1>1, <1>2 DEF ThreadsOK
<1>5. CellOK' /\ HandlerOK' /\ CountOK' /\ SigOK'
  <2>1. CellOK'
    <3>. SUFFICES ASSUME NEW q \in Pid, NEW t \in Thread, pid_num'[q] = t
         PROVE pc'[t] = "spin" /\ q \in count'[t] /\ shmsg'[q] # t
      BY DEF CellOK
    <3>. QED BY <1>1, <1>2 DEF CellOK, HandlerOK
  <2>2. HandlerOK'
    <3>. SUFFICES ASSUME NEW q \in Pid, NEW t \in Thread, shmsg'[q] = t
         PROVE Running(t)' /\ q \in count'[t]
      BY DEF HandlerOK
    <3>. QED BY <1>1, <1>2 DEF HandlerOK, CellOK, Running
  <2>3. CountOK'
    <3>. SUFFICES ASSUME NEW q \in Pid, NEW t \in Thread, q \in count'[t]
         PROVE pid_num'[q] = t \/ shmsg'[q] = t
      BY DEF CountOK
    <3>. QED BY <1>1, <1>2 DEF CountOK
  <2>4. SigOK'
    BY <1>1, <1>2 DEF SigOK
  <2>. QED BY <2>1, <2>2, <2>3, <2>4
<1>6. NestedOK'
  BY <1>1, <1>2 DEF NestedOK, InHandler, Running
<1>. QED BY <1>3, <1>4, <1>5, <1>6

LEMMA NextIInv == IInv /\ [Next]_vars => IInv'
<1>. SUFFICES ASSUME IInv, [Next]_vars PROVE IInv'
  OBVIOUS
<1>1. CASE Sends
  BY <1>1, SendsKeeps
<1>2. CASE \E p \in Pid : Pickup(p) \/ Finish(p)
  BY <1>2, PickupKeeps, FinishKeeps
<1>3. CASE \E s \in Thread : ThreadStep(s)
  BY <1>3, PostKeeps, SpinEndsKeeps, AnswerKeeps DEF ThreadStep
<1>4. CASE UNCHANGED vars
  BY <1>4 DEF vars, threadVars, IInv, TypeOK, ThreadsOK, CellOK, HandlerOK, CountOK,
     NestedOK, SigOK, Running, InHandler
<1>. QED BY <1>1, <1>2, <1>3, <1>4 DEF Next

\* The inductive invariant: whoever counts as a receiver has the message in the
\* cell or in hand, and what a function waits for is a younger call than the one
\* it serves (emi_if.c:208-250, emi_core.c:446-463).
THEOREM IInvCorrect == Spec => []IInv
BY InitIInv, NextIInv, PTL DEF Spec

-----------------------------------------------------------------------------
\* A set of numbers has a least element.
LEMMA LeastNatural ==
    ASSUME NEW S \in SUBSET Nat, S # {}
    PROVE  \E m \in S : \A i \in S : m <= i
<1>. DEFINE Less == {q \in Nat \X Nat : q[1] < q[2]}
<1>1. IsWellFoundedOn(Less, Nat)
  BY NatLessThanWellFounded DEF OpToRel
<1>2. PICK m \in S : \A i \in S : ~(<<i, m>> \in Less)
  BY <1>1, WFMin
<1>3. \A i \in S : i < m => <<i, m>> \in Less
  OBVIOUS
<1>. HIDE DEF Less
<1>4. \A i \in S : ~(i < m)
  BY <1>2, <1>3
<1>5. \A i \in S : m <= i
  BY <1>4
<1>. QED BY <1>5

\* A bounded set of numbers has a greatest element.
LEMMA GreatestThread ==
    ASSUME NEW T \in SUBSET Thread, T # {}
    PROVE  \E s \in T : \A t \in T : t <= s
<1>. DEFINE Above == {n \in Nat : \A t \in T : t <= n}
<1>1. MaxCalls \in Above /\ Above \subseteq Nat
  BY CallsAssumption DEF Thread
<1>2. PICK n \in Above : \A i \in Above : n <= i
  BY <1>1, LeastNatural
<1>3. T \subseteq Nat \ {0} /\ n \in Nat
  BY <1>1, ThreadIsNat
<1>4. n \in T
  <2>. SUFFICES ASSUME n \notin T PROVE FALSE
    OBVIOUS
  <2>1. PICK t \in T : TRUE
    OBVIOUS
  <2>2. t \in Nat /\ t > 0 /\ t <= n
    BY <1>2, <1>3, <2>1
  <2>3. n - 1 \in Nat
    BY <1>3, <2>2
  <2>4. \A i \in T : i <= n - 1
    BY <1>2, <1>3
  <2>. QED BY <2>3, <2>4, <1>2, <1>3
<1>. QED BY <1>2, <1>4

\* When nobody moves, every message that is out waits in a handler that waits.
LEMMA StuckWaits ==
    ASSUME IInv, ~Clash, ~ProcessMoves, ~ThreadMoves, NEW s \in Thread, Running(s)
    PROVE  \E t \in Thread : Running(t) /\ s < t
<1>. USE ThreadIsNat DEF IInv
<1>1. \A p \in Pid : pid_num[p] = None
  <2>. SUFFICES ASSUME NEW p \in Pid, pid_num[p] # None PROVE FALSE
    OBVIOUS
  <2>1. sig[p] /\ InHandler(p)
    BY DEF SigOK, ProcessMoves
  <2>2. nested[p] # None
    BY <2>1 DEF ProcessMoves
  <2>3. pid_num[p] \in Thread /\ shmsg[p] # pid_num[p]
    BY DEF TypeOK, CellOK
  <2>. QED BY <2>2, <2>3 DEF Clash
<1>2. \A t \in Thread : pc[t] # "spin"
  BY <1>1 DEF ThreadMoves
<1>3. critical_shmem_lock = None
  BY <1>2 DEF ThreadsOK, TypeOK
<1>4. todo[s] = {} /\ count[s] # {}
  BY <1>2, <1>3 DEF ThreadMoves, Running
<1>5. PICK p \in Pid : p \in count[s]
  BY <1>4 DEF TypeOK
<1>6. shmsg[p] = s /\ InHandler(p)
  BY <1>1, <1>5 DEF CountOK, InHandler
<1>7. nested[p] \in Thread
  BY <1>6 DEF ProcessMoves, TypeOK
<1>. QED BY <1>6, <1>7 DEF NestedOK

\* For all processes, messages, receivers and numbers of calls: while a delivery
\* is under way somebody can go on, unless a message is for a process that waits
\* inside its handler (emi_if.c:229, 306, emi_core.c:446-459).
THEOREM NeverStuckCorrect == Spec => []NeverStuck
<1>1. IInv => NeverStuck
  <2>. SUFFICES ASSUME IInv, ~Clash, ~ProcessMoves, ~ThreadMoves,
                       NEW r \in Thread, Running(r)
       PROVE FALSE
    BY DEF NeverStuck, Running
  <2>. DEFINE T == {t \in Thread : Running(t)}
  <2>1. PICK s \in T : \A t \in T : t <= s
    BY GreatestThread
  <2>2. PICK t \in Thread : Running(t) /\ s < t
    BY <2>1, StuckWaits
  <2>. QED BY <2>1, <2>2, ThreadIsNat
<1>. QED BY <1>1, IInvCorrect, PTL
=============================================================================
