------------------------------- MODULE EmiCore -------------------------------
(***************************************************************************)
(* The message exchange of EMI: the connection threads of emi_core         *)
(* (emi_recieve_operation, emi_core.c:339-518), the processes that         *)
(* registered messages (the SIGUSR2 handler and __emi_msg_register of      *)
(* emi_if.c), and what they share: the registration table, one struct      *)
(* emi_msg per connection in shared memory and one index cell per process. *)
(*                                                                         *)
(* A connection thread is named by the slot of shared memory it obtained,  *)
(* its msg_pos: pc[s] = "idle" says that s is in the pool.  The pool's own *)
(* list is not part of this module: a slot is obtained by one thread at a  *)
(* time here.                                                              *)
(***************************************************************************)
EXTENDS MsgTable

CONSTANTS
    Slot,          \* struct emi_msg areas of the "msg split" area
    NoSlot,        \* offset 0: an empty index cell
    NoPid,         \* pid 0
    Interest,      \* [Pid -> SUBSET Msg]: what each process registers
    SendMsg,       \* the messages senders send ...
    SendMode,      \* ... and their EMI_MSG_FLAG_*
    RegMode,       \* the same flag of a REGISTER request; the library sends none
    COUNT_MOD,     \* msg_pos->count is an eu32
    OrderedStart,  \* TRUE: nobody sends a message before its registrations end
    Env            \* what else the environment does, a subset of EnvEvent

Mode     == {"NONE", "NONBLOCK", "BLOCK", "BLOCK_RETURN"}
EnvEvent == {"crash", "recycle", "reset", "unregister"}

ASSUME ZeroAssumption     == 0 \in Msg
ASSUME SlotAssumption     == NoSlot \notin Slot
ASSUME PidAssumption      == NoPid \notin Pid
ASSUME InterestAssumption == Interest \in [Pid -> SUBSET Msg]
ASSUME SendAssumption     == SendMsg \subseteq Msg
ASSUME ModeAssumption     == SendMode \subseteq Mode /\ RegMode \subseteq Mode
ASSUME CountAssumption    == COUNT_MOD \in Nat \ {0, 1}
ASSUME EnvAssumption      == OrderedStart \in BOOLEAN /\ Env \subseteq EnvEvent

VARIABLES
    (* connection threads of emi_core *)
    pc,            \* [Slot -> Label]
    num,           \* how many nodes the next search skips
    m,             \* the struct msg_map pointer found
    idx,           \* the process whose index cell pid_num points to
    pid_ret,       \* what kill returned
    tmp,           \* msg_pos->count as loaded by count++
    critical_shmem_lock,
    (* shared memory *)
    shm,           \* [Slot -> Header]: *msg_pos, without its count
    count,         \* [Slot -> 0 .. COUNT_MOD - 1]
    pid_num,       \* [Pid -> Slot \cup {NoSlot}]: the index area
    (* registered processes *)
    proc,          \* "live", "zombie" or "gone"
    sig,           \* SIGUSR2 is pending
    handler,       \* func_sterotype is installed for SIGUSR2
    funcs,         \* messages in __func_list
    asked,         \* messages emi_msg_register was called for
    reg,           \* where the running __emi_msg_register is
    hpc,           \* where func_sterotype is, "main" outside it
    shmsg,         \* the message it works on
    htmp,          \* shmsg->count as loaded by count--
    (* history, read by properties only *)
    due,           \* [Slot -> SUBSET Pid]: registrants when the loop began
    posted,        \* [Slot -> [Pid -> Nat]]: how often the message was posted
    brought        \* [Slot -> BOOLEAN]: its sender had set SUCCEEDED in it

threadVars == <<pc, num, m, idx, pid_ret, tmp, critical_shmem_lock>>
localVars  == <<num, m, idx, pid_ret, tmp>>
handlerVars == <<hpc, shmsg, htmp>>
libVars    == <<handler, funcs, asked, reg>>
ghosts     == <<due, posted, brought>>
vars == <<tableVars, threadVars, shm, count, pid_num,
          proc, sig, libVars, handlerVars, ghosts>>

Label    == {"idle", "insert", "exsearch", "exwrite", "ack", "search", "index",
             "lock", "kill", "incload", "incstore", "spin", "delete", "wait"}
Critical == {"kill", "incload", "incstore", "spin"}

\* The header of a struct emi_msg; ok is EMI_MSG_CMD_SUCCEEDED.
Header == [cmd : {"REGISTER", "SEND"}, mode : Mode, msg : Msg,
           pid : Pid \cup {NoPid}, ok : BOOLEAN]

\* Shared memory starts zeroed.
ZeroHeader == [cmd |-> "SEND", mode |-> "NONE", msg |-> 0, pid |-> NoPid,
               ok |-> FALSE]
SendHeader(k, mode, ok) == [ZeroHeader EXCEPT !.msg = k, !.mode = mode, !.ok = ok]
RegisterHeader(p, k, mode) == [cmd |-> "REGISTER", mode |-> mode, msg |-> k,
                               pid |-> p, ok |-> FALSE]

\* emi_fill_msg adds to the flags a message has: one that is sent again still has
\* SUCCEEDED from its last answer.  Only a BLOCK_RETURN message is asked for it.
Carried(mode) == IF mode = "BLOCK_RETURN" THEN BOOLEAN ELSE {FALSE}

NoReg == [step |-> "main", msg |-> 0, sd |-> NoSlot]
Reg   == [step : {"main", "sent", "acked", "listed"}, msg : Msg,
          sd : Slot \cup {NoSlot}]

Init ==
    /\ TableInit
    /\ pc = [s \in Slot |-> "idle"]
    /\ num = [s \in Slot |-> 0]
    /\ m = [s \in Slot |-> NoNode]
    /\ idx = [s \in Slot |-> NoPid]
    /\ pid_ret = [s \in Slot |-> -1]
    /\ tmp = [s \in Slot |-> 0]
    /\ critical_shmem_lock = NoSlot
    /\ shm = [s \in Slot |-> ZeroHeader]
    /\ count = [s \in Slot |-> 0]
    /\ pid_num = [p \in Pid |-> NoSlot]
    /\ proc = [p \in Pid |-> "live"]
    /\ sig = [p \in Pid |-> FALSE]
    /\ handler = [p \in Pid |-> FALSE]
    /\ funcs = [p \in Pid |-> {}]
    /\ asked = [p \in Pid |-> {}]
    /\ reg = [p \in Pid |-> NoReg]
    /\ hpc = [p \in Pid |-> "main"]
    /\ shmsg = [p \in Pid |-> NoSlot]
    /\ htmp = [p \in Pid |-> 0]
    /\ due = [s \in Slot |-> {}]
    /\ posted = [s \in Slot |-> [p \in Pid |-> 0]]
    /\ brought = [s \in Slot |-> FALSE]

Goto(s, l) == pc' = [pc EXCEPT ![s] = l]

\* e0: the connection is closed, the slot returned and the thread gone.
Leave(s) ==
    /\ Goto(s, "idle")
    /\ num' = [num EXCEPT ![s] = 0]
    /\ m' = [m EXCEPT ![s] = NoNode]
    /\ idx' = [idx EXCEPT ![s] = NoPid]
    /\ pid_ret' = [pid_ret EXCEPT ![s] = -1]
    /\ tmp' = [tmp EXCEPT ![s] = 0]
    /\ due' = [due EXCEPT ![s] = {}]
    /\ posted' = [posted EXCEPT ![s] = [p \in Pid |-> 0]]
    /\ UNCHANGED brought

-----------------------------------------------------------------------------
(* A connection arrives *)

Registrants(k) == {p \in Pid : Registered(k, p)}

\* Process p answers SIGUSR2 for message k from now on.
Ready(p, k) == k \in funcs[p] /\ handler[p]

\* The thread goes on with what its slot holds now.
Dispatch(s) ==
    IF shm'[s].cmd = "REGISTER"
    THEN Goto(s, "insert") /\ UNCHANGED due
    ELSE Goto(s, "search") /\ due' = [due EXCEPT ![s] = Registrants(shm'[s].msg)]

\* Faulty variant: the SUCCEEDED flag of the slot's last message survives.
ServeSend_keeps_ok(s, k, mode, ok) ==
    /\ pc[s] = "idle"
    /\ OrderedStart => \A p \in Pid : k \in Interest[p] => Ready(p, k)
    /\ shm' = [shm EXCEPT ![s] = SendHeader(k, mode, ok \/ shm[s].ok)]
    /\ count' = [count EXCEPT ![s] = 0]
    /\ brought' = [brought EXCEPT ![s] = ok]
    /\ Dispatch(s)
    /\ UNCHANGED <<tableVars, localVars, critical_shmem_lock, pid_num, proc,
                   sig, libVars, handlerVars, posted>>

\* A sender connects and its header, and data, are read (emi_msg_send).
ServeSend(s, k, mode, ok) ==
    /\ pc[s] = "idle"
    /\ OrderedStart => \A p \in Pid : k \in Interest[p] => Ready(p, k)
    /\ shm' = [shm EXCEPT ![s] = SendHeader(k, mode, ok)]
    /\ count' = [count EXCEPT ![s] = 0]
    /\ brought' = [brought EXCEPT ![s] = ok]
    /\ Dispatch(s)
    /\ UNCHANGED <<tableVars, localVars, critical_shmem_lock, pid_num, proc,
                   sig, libVars, handlerVars, posted>>

\* Process p calls emi_msg_register; its request is read.
ServeRegister(s, p, k, mode) ==
    /\ pc[s] = "idle"
    /\ proc[p] = "live" /\ reg[p].step = "main"
    /\ k \in Interest[p] \ asked[p]
    /\ asked' = [asked EXCEPT ![p] = @ \cup {k}]
    /\ reg' = [reg EXCEPT ![p] = [step |-> "sent", msg |-> k, sd |-> s]]
    /\ shm' = [shm EXCEPT ![s] = RegisterHeader(p, k, mode)]
    /\ count' = [count EXCEPT ![s] = 0]
    /\ brought' = [brought EXCEPT ![s] = FALSE]
    /\ Dispatch(s)
    /\ UNCHANGED <<tableVars, localVars, critical_shmem_lock, pid_num, proc,
                   sig, handler, funcs, handlerVars, posted>>

\* The data of a message comes short: emi_core.c:404 leaves with the header in
\* the slot.
ShortData(s, k, mode, ok) ==
    /\ "reset" \in Env
    /\ pc[s] = "idle"
    /\ shm' = [shm EXCEPT ![s] = SendHeader(k, mode, ok)]
    /\ count' = [count EXCEPT ![s] = 0]
    /\ brought' = [brought EXCEPT ![s] = ok]
    /\ UNCHANGED <<tableVars, threadVars, pid_num, proc, sig, libVars,
                   handlerVars, due, posted>>

\* The connection is reset before the header: emi_read returns -1, which is not
\* less than sizeof(struct emi_msg) as an unsigned number (emi_core.c:354), and
\* the thread goes on with the header of the slot's previous message.
ReadFails(s) ==
    /\ "reset" \in Env
    /\ pc[s] = "idle"
    /\ UNCHANGED <<shm, count, brought>>
    /\ Dispatch(s)
    /\ UNCHANGED <<tableVars, localVars, critical_shmem_lock, pid_num, proc,
                   sig, libVars, handlerVars, posted>>

-----------------------------------------------------------------------------
(* A registration *)

\* emi_core.c:366-369, under msg_map_lock.
InsertMap(s) ==
    /\ pc[s] = "insert"
    /\ emi_hinsert(msg_map_fill(shm[s].msg, shm[s].pid))
    /\ Goto(s, IF shm[s].mode = "BLOCK_RETURN" THEN "exsearch" ELSE "ack")
    /\ UNCHANGED <<localVars, critical_shmem_lock, shm, count, pid_num, proc,
                   sig, libVars, handlerVars, ghosts>>

\* Another thread deletes an entry of the bucket that s walks without the lock.
DeletedUnder(s) ==
    \E t \in Slot \ {s} : pc[t] = "delete" /\
        \E e \in ReadNode(m[t]) : emi_hash(e.msg) = emi_hash(shm[s].msg)

\* emi_core.c:374-378, without the lock: the first entry of the message is given
\* to the process that registers.  A walk under which an entry is freed may end
\* anywhere.
ExclusiveSearch(s) ==
    /\ pc[s] = "exsearch"
    /\ \E n \in {__emi_hsearch(shm[s].msg, 0)}
               \cup (IF DeletedUnder(s) THEN Node \cup {NoNode} ELSE {}) :
           m' = [m EXCEPT ![s] = n]
    /\ Goto(s, IF m'[s] = NoNode THEN "ack" ELSE "exwrite")
    /\ UNCHANGED <<tableVars, num, idx, pid_ret, tmp, critical_shmem_lock, shm,
                   count, pid_num, proc, sig, libVars, handlerVars, ghosts>>

\* A write through a dangling pointer leaves no trace in the table.
ExclusiveWrite(s) ==
    /\ pc[s] = "exwrite"
    /\ heap' = [heap EXCEPT ![m[s]] =
                   IF @ = Freed THEN @ ELSE [@ EXCEPT !.pid = shm[s].pid]]
    /\ Goto(s, "ack")
    /\ UNCHANGED <<msg_table, localVars, critical_shmem_lock, shm, count,
                   pid_num, proc, sig, libVars, handlerVars, ghosts>>

\* Faulty variant: the answer is not written.
Ack_without_answer(s) ==
    /\ pc[s] = "ack"
    /\ shm' = [shm EXCEPT ![s].cmd = "SEND", ![s].mode = "NONE", ![s].ok = TRUE]
    /\ Leave(s)
    /\ UNCHANGED <<tableVars, critical_shmem_lock, count, pid_num, proc, sig,
                   libVars, handlerVars>>

\* emi_core.c:383-390: the answer is SUCCEEDED whatever emi_hinsert returned.
\* It may be lost, and the process may be gone or another one by now.
Ack(s) ==
    /\ pc[s] = "ack"
    /\ shm' = [shm EXCEPT ![s].cmd = "SEND", ![s].mode = "NONE", ![s].ok = TRUE]
    /\ \E lost \in {FALSE, "reset" \in Env} :
          reg' = [p \in Pid |->
                     IF reg[p].sd # s THEN reg[p]
                     ELSE IF lost THEN NoReg
                     ELSE [reg[p] EXCEPT !.step = "acked", !.sd = NoSlot]]
    /\ Leave(s)
    /\ UNCHANGED <<tableVars, critical_shmem_lock, count, pid_num, proc, sig,
                   handler, funcs, asked, handlerVars>>

-----------------------------------------------------------------------------
(* Delivering a message: the loop of emi_core.c:425-470 *)

\* Lines 426-431, under msg_map_lock; the pointer outlives the unlock.
Search(s) ==
    /\ pc[s] = "search"
    /\ m' = [m EXCEPT ![s] = __emi_hsearch(shm[s].msg, num[s])]
    /\ Goto(s, IF m'[s] = NoNode THEN "wait" ELSE "index")
    /\ UNCHANGED <<tableVars, num, idx, pid_ret, tmp, critical_shmem_lock, shm,
                   count, pid_num, proc, sig, libVars, handlerVars, ghosts>>

\* Line 446: pid_num = base + m->pid, without a lock.
Index(s) ==
    /\ pc[s] = "index"
    /\ \E e \in ReadNode(m[s]) : idx' = [idx EXCEPT ![s] = e.pid]
    /\ Goto(s, "lock")
    /\ UNCHANGED <<tableVars, num, m, pid_ret, tmp, critical_shmem_lock, shm,
                   count, pid_num, proc, sig, libVars, handlerVars, ghosts>>

\* Faulty variants: the cell is written without the lock, or never.
Lock_without_lock(s) ==
    /\ pc[s] = "lock"
    /\ critical_shmem_lock' = s
    /\ pid_num' = [pid_num EXCEPT ![idx[s]] = s]
    /\ Goto(s, "kill")
    /\ UNCHANGED <<tableVars, localVars, shm, count, proc, sig, libVars,
                   handlerVars, ghosts>>

Lock_without_post(s) ==
    /\ pc[s] = "lock"
    /\ critical_shmem_lock = NoSlot
    /\ critical_shmem_lock' = s
    /\ Goto(s, "kill")
    /\ UNCHANGED <<tableVars, localVars, shm, count, pid_num, proc, sig, libVars,
                   handlerVars, ghosts>>

\* Lines 448-451.
Lock(s) ==
    /\ pc[s] = "lock"
    /\ critical_shmem_lock = NoSlot
    /\ critical_shmem_lock' = s
    /\ pid_num' = [pid_num EXCEPT ![idx[s]] = s]
    /\ Goto(s, "kill")
    /\ UNCHANGED <<tableVars, localVars, shm, count, proc, sig, libVars,
                   handlerVars, ghosts>>

\* Lines 452-457: m->pid is read again.  kill succeeds on a zombie.
Kill(s) ==
    /\ pc[s] = "kill"
    /\ \E e \in ReadNode(m[s]) :
          \/ /\ proc[e.pid] # "gone"
             /\ pid_ret' = [pid_ret EXCEPT ![s] = 0]
             /\ sig' = [sig EXCEPT ![e.pid] = (proc[e.pid] = "live")]
             /\ posted' = [posted EXCEPT ![s][e.pid] = @ + 1]
             /\ Goto(s, "incload")
             /\ UNCHANGED pid_num
          \/ /\ proc[e.pid] = "gone"
             /\ pid_ret' = [pid_ret EXCEPT ![s] = -1]
             /\ pid_num' = [pid_num EXCEPT ![idx[s]] = NoSlot]
             /\ Goto(s, "spin")
             /\ UNCHANGED <<sig, posted>>
    /\ UNCHANGED <<tableVars, num, m, idx, tmp, critical_shmem_lock, shm, count,
                   proc, libVars, handlerVars, due, brought>>

\* Line 456, msg_pos->count++, is a load and a store.
IncLoad(s) ==
    /\ pc[s] = "incload"
    /\ tmp' = [tmp EXCEPT ![s] = count[s]]
    /\ Goto(s, "incstore")
    /\ UNCHANGED <<tableVars, num, m, idx, pid_ret, critical_shmem_lock, shm,
                   count, pid_num, proc, sig, libVars, handlerVars, ghosts>>

IncStore(s) ==
    /\ pc[s] = "incstore"
    /\ count' = [count EXCEPT ![s] = (tmp[s] + 1) % COUNT_MOD]
    /\ Goto(s, "spin")
    /\ UNCHANGED <<tableVars, localVars, critical_shmem_lock, shm, pid_num,
                   proc, sig, libVars, handlerVars, ghosts>>

\* Faulty variants: the thread does not wait for the cell to be cleared, does not
\* step to the next node, or deletes whatever kill returned.
SpinEnds_at_once(s) ==
    /\ pc[s] = "spin"
    /\ critical_shmem_lock' = NoSlot
    /\ Goto(s, IF pid_ret[s] < 0 THEN "delete" ELSE "search")
    /\ num' = [num EXCEPT ![s] = IF pid_ret[s] < 0 THEN @ ELSE @ + 1]
    /\ UNCHANGED <<tableVars, m, idx, pid_ret, tmp, shm, count, pid_num, proc,
                   sig, libVars, handlerVars, ghosts>>

SpinEnds_stays(s) ==
    /\ pc[s] = "spin"
    /\ pid_num[idx[s]] = NoSlot
    /\ critical_shmem_lock' = NoSlot
    /\ Goto(s, IF pid_ret[s] < 0 THEN "delete" ELSE "search")
    /\ UNCHANGED <<tableVars, localVars, shm, count, pid_num, proc, sig, libVars,
                   handlerVars, ghosts>>

SpinEnds_deletes(s) ==
    /\ pc[s] = "spin"
    /\ pid_num[idx[s]] = NoSlot
    /\ critical_shmem_lock' = NoSlot
    /\ Goto(s, "delete")
    /\ UNCHANGED <<tableVars, localVars, shm, count, pid_num, proc, sig, libVars,
                   handlerVars, ghosts>>

\* Lines 459-465: the receiver has cleared the cell.
SpinEnds(s) ==
    /\ pc[s] = "spin"
    /\ pid_num[idx[s]] = NoSlot
    /\ critical_shmem_lock' = NoSlot
    /\ \/ /\ pid_ret[s] < 0
          /\ Goto(s, "delete")
          /\ UNCHANGED num
       \/ /\ pid_ret[s] >= 0
          /\ Goto(s, "search")
          /\ num' = [num EXCEPT ![s] = @ + 1]
    /\ UNCHANGED <<tableVars, m, idx, pid_ret, tmp, shm, count, pid_num, proc,
                   sig, libVars, handlerVars, ghosts>>

\* Lines 466-468 and the loop's num+=1.
DeleteMap(s) ==
    /\ pc[s] = "delete"
    /\ \E e \in ReadNode(m[s]) : emi_hdelete(e)
    /\ num' = [num EXCEPT ![s] = @ + 1]
    /\ Goto(s, "search")
    /\ UNCHANGED <<m, idx, pid_ret, tmp, critical_shmem_lock, shm, count,
                   pid_num, proc, sig, libVars, handlerVars, ghosts>>

\* Faulty variant: the count is not waited for.
Finish_without_count(s) ==
    /\ pc[s] = "wait"
    /\ Leave(s)
    /\ UNCHANGED <<tableVars, critical_shmem_lock, shm, count, pid_num, proc,
                   sig, libVars, handlerVars>>

\* Lines 474-513: every receiver has counted down; the sender is answered, with
\* nothing but SUCCEEDED left in the flags of an answered BLOCK_RETURN message.
Finish(s) ==
    /\ pc[s] = "wait"
    /\ count[s] = 0
    /\ shm' = IF shm[s].mode = "BLOCK_RETURN" /\ shm[s].ok
              THEN [shm EXCEPT ![s].mode = "NONE"]
              ELSE shm
    /\ Leave(s)
    /\ UNCHANGED <<tableVars, critical_shmem_lock, count, pid_num, proc, sig,
                   libVars, handlerVars>>

-----------------------------------------------------------------------------
(* func_sterotype, the SIGUSR2 handler of process p (emi_if.c:201-260).     *)
(* SIGUSR2 stays blocked while it runs.                                     *)

Running(p) == proc[p] = "live"

\* Faulty variant: the cell is not cleared.
Pickup_keeps_cell(p) ==
    /\ Running(p) /\ sig[p] /\ handler[p] /\ hpc[p] = "main"
    /\ sig' = [sig EXCEPT ![p] = FALSE]
    /\ shmsg' = [shmsg EXCEPT ![p] = pid_num[p]]
    /\ hpc' = [hpc EXCEPT ![p] = "func"]
    /\ UNCHANGED <<tableVars, threadVars, shm, count, pid_num, proc, libVars,
                   htmp, ghosts>>

\* Lines 213-219: the index cell is read and cleared.  A handler that finds 0 in
\* it works on the head of the index area as if it were a message, and changes
\* the cells of pids 12 and 13 at most, which belong to no registered process.
Pickup(p) ==
    /\ Running(p) /\ sig[p] /\ handler[p] /\ hpc[p] = "main"
    /\ sig' = [sig EXCEPT ![p] = FALSE]
    /\ shmsg' = [shmsg EXCEPT ![p] = pid_num[p]]
    /\ pid_num' = [pid_num EXCEPT ![p] = NoSlot]
    /\ hpc' = [hpc EXCEPT ![p] = IF pid_num[p] = NoSlot THEN @ ELSE "func"]
    /\ UNCHANGED <<tableVars, threadVars, shm, count, proc, libVars, htmp, ghosts>>

\* Lines 222-246: the registered functions run; in BLOCK_RETURN mode what the
\* first one returns decides the SUCCEEDED flag.
Handle(p) ==
    /\ Running(p) /\ hpc[p] = "func"
    /\ LET s == shmsg[p]
       IN  \/ /\ shm[s].mode = "BLOCK_RETURN" /\ shm[s].msg \in funcs[p]
             /\ \E ok \in BOOLEAN : shm' = [shm EXCEPT ![s].ok = ok]
          \/ /\ ~(shm[s].mode = "BLOCK_RETURN" /\ shm[s].msg \in funcs[p])
             /\ UNCHANGED shm
    /\ hpc' = [hpc EXCEPT ![p] = "decload"]
    /\ UNCHANGED <<tableVars, threadVars, count, pid_num, proc, sig, libVars,
                   shmsg, htmp, ghosts>>

\* Line 250, shmsg->count--, is a load and a store.
DecLoad(p) ==
    /\ Running(p) /\ hpc[p] = "decload"
    /\ htmp' = [htmp EXCEPT ![p] = count[shmsg[p]]]
    /\ hpc' = [hpc EXCEPT ![p] = "decstore"]
    /\ UNCHANGED <<tableVars, threadVars, shm, count, pid_num, proc, sig,
                   libVars, shmsg, ghosts>>

\* Faulty variant: the receiver does not count down.
DecStore_forgotten(p) ==
    /\ Running(p) /\ hpc[p] = "decstore"
    /\ hpc' = [hpc EXCEPT ![p] = "main"]
    /\ shmsg' = [shmsg EXCEPT ![p] = NoSlot]
    /\ htmp' = [htmp EXCEPT ![p] = 0]
    /\ UNCHANGED <<tableVars, threadVars, shm, count, pid_num, proc, sig, libVars, ghosts>>

DecStore(p) ==
    /\ Running(p) /\ hpc[p] = "decstore"
    /\ count' = [count EXCEPT ![shmsg[p]] = (htmp[p] + COUNT_MOD - 1) % COUNT_MOD]
    /\ hpc' = [hpc EXCEPT ![p] = "main"]
    /\ shmsg' = [shmsg EXCEPT ![p] = NoSlot]
    /\ htmp' = [htmp EXCEPT ![p] = 0]
    /\ UNCHANGED <<tableVars, threadVars, shm, pid_num, proc, sig, libVars, ghosts>>

-----------------------------------------------------------------------------
(* The rest of __emi_msg_register, and emi_msg_unregister, in process p     *)

\* emi_if.c:502-510; a handler that interrupts it runs first.
ListAdd(p) ==
    /\ Running(p) /\ hpc[p] = "main" /\ reg[p].step = "acked"
    /\ funcs' = [funcs EXCEPT ![p] = @ \cup {reg[p].msg}]
    /\ reg' = [reg EXCEPT ![p].step = "listed"]
    /\ UNCHANGED <<tableVars, threadVars, shm, count, pid_num, proc, sig,
                   handler, asked, handlerVars, ghosts>>

\* emi_if.c:512-521.
SigAction(p) ==
    /\ Running(p) /\ hpc[p] = "main" /\ reg[p].step = "listed"
    /\ handler' = [handler EXCEPT ![p] = TRUE]
    /\ reg' = [reg EXCEPT ![p] = NoReg]
    /\ UNCHANGED <<tableVars, threadVars, shm, count, pid_num, proc, sig,
                   funcs, asked, handlerVars, ghosts>>

\* emi_if.c:532-552: emi_core is not told.
Unregister(p, k) ==
    /\ "unregister" \in Env
    /\ Running(p) /\ hpc[p] = "main" /\ reg[p].step = "main"
    /\ k \in funcs[p]
    /\ funcs' = [funcs EXCEPT ![p] = @ \ {k}]
    /\ UNCHANGED <<tableVars, threadVars, shm, count, pid_num, proc, sig,
                   handler, asked, reg, handlerVars, ghosts>>

-----------------------------------------------------------------------------
(* Processes end, and pids come back *)

Dies(p) ==
    /\ proc' = [proc EXCEPT ![p] = "zombie"]
    /\ sig' = [sig EXCEPT ![p] = FALSE]
    /\ handler' = [handler EXCEPT ![p] = FALSE]
    /\ funcs' = [funcs EXCEPT ![p] = {}]
    /\ reg' = [reg EXCEPT ![p] = NoReg]
    /\ hpc' = [hpc EXCEPT ![p] = "main"]
    /\ shmsg' = [shmsg EXCEPT ![p] = NoSlot]
    /\ htmp' = [htmp EXCEPT ![p] = 0]
    /\ UNCHANGED <<tableVars, threadVars, shm, count, pid_num, asked, ghosts>>

\* Without a handler SIGUSR2 terminates the process.
SigDefault(p) == Running(p) /\ sig[p] /\ ~handler[p] /\ Dies(p)

Crash(p) == "crash" \in Env /\ Running(p) /\ Dies(p)

\* The parent of p waits for it.
Reap(p) ==
    /\ proc[p] = "zombie"
    /\ proc' = [proc EXCEPT ![p] = "gone"]
    /\ UNCHANGED <<tableVars, threadVars, shm, count, pid_num, sig, libVars,
                   handlerVars, ghosts>>

\* Pid p is given to a new process, which may register what p does.
Recycle(p) ==
    /\ "recycle" \in Env
    /\ proc[p] = "gone"
    /\ proc' = [proc EXCEPT ![p] = "live"]
    /\ asked' = [asked EXCEPT ![p] = {}]
    /\ UNCHANGED <<tableVars, threadVars, shm, count, pid_num, sig, handler,
                   funcs, reg, handlerVars, ghosts>>

-----------------------------------------------------------------------------
(* Specification *)

Serve(s) ==
    \/ \E k \in SendMsg, mode \in SendMode : \E ok \in Carried(mode) :
           ServeSend(s, k, mode, ok) \/ ShortData(s, k, mode, ok)
    \/ \E p \in Pid, k \in Msg, mode \in RegMode : ServeRegister(s, p, k, mode)
    \/ ReadFails(s)

\* emi_recieve_operation once its message is read.
Thread(s) ==
    \/ InsertMap(s) \/ ExclusiveSearch(s) \/ ExclusiveWrite(s) \/ Ack(s)
    \/ Search(s) \/ Index(s) \/ Lock(s) \/ Kill(s) \/ IncLoad(s) \/ IncStore(s)
    \/ SpinEnds(s) \/ DeleteMap(s) \/ Finish(s)

Handler(p) == Pickup(p) \/ Handle(p) \/ DecLoad(p) \/ DecStore(p)

Library(p) == ListAdd(p) \/ SigAction(p)

Environment(p) ==
    SigDefault(p) \/ Crash(p) \/ Reap(p) \/ Recycle(p) \/ \E k \in Msg : Unregister(p, k)

Next ==
    \/ \E s \in Slot : Serve(s) \/ Thread(s)
    \/ \E p \in Pid : Handler(p) \/ Library(p) \/ Environment(p)

Spec == Init /\ [][Next]_vars

\* The scheduler runs every thread and every process, and delivers signals.
\* Nobody has to connect, crash or be reaped.
Fairness ==
    /\ \A s \in Slot : WF_vars(Thread(s))
    /\ \A p \in Pid : WF_vars(Handler(p)) /\ WF_vars(Library(p)) /\ WF_vars(SigDefault(p))

LiveSpec == Spec /\ Fairness

-----------------------------------------------------------------------------
(* Properties *)

\* The connection threads ...
ThreadTypeOK ==
    /\ pc \in [Slot -> Label]
    /\ num \in [Slot -> Nat]
    /\ m \in [Slot -> Node \cup {NoNode}]
    /\ idx \in [Slot -> Pid \cup {NoPid}]
    /\ pid_ret \in [Slot -> {-1, 0}]
    /\ tmp \in [Slot -> 0 .. COUNT_MOD - 1]
    /\ critical_shmem_lock \in Slot \cup {NoSlot}

\* ... the shared memory ...
ShmTypeOK ==
    /\ shm \in [Slot -> Header]
    /\ count \in [Slot -> 0 .. COUNT_MOD - 1]
    /\ pid_num \in [Pid -> Slot \cup {NoSlot}]

\* ... the processes ...
ProcTypeOK ==
    /\ proc \in [Pid -> {"live", "zombie", "gone"}]
    /\ sig \in [Pid -> BOOLEAN]
    /\ handler \in [Pid -> BOOLEAN]
    /\ funcs \in [Pid -> SUBSET Msg]
    /\ asked \in [Pid -> SUBSET Msg]
    /\ reg \in [Pid -> Reg]
    /\ hpc \in [Pid -> {"main", "func", "decload", "decstore"}]
    /\ shmsg \in [Pid -> Slot \cup {NoSlot}]
    /\ htmp \in [Pid -> 0 .. COUNT_MOD - 1]

\* ... and the history.
GhostTypeOK ==
    /\ due \in [Slot -> SUBSET Pid]
    /\ posted \in [Slot -> [Pid -> Nat]]
    /\ brought \in [Slot -> BOOLEAN]

TypeOK == TableTypeOK /\ ThreadTypeOK /\ ShmTypeOK /\ ProcTypeOK /\ GhostTypeOK

\* A non-empty index cell was written by the thread that holds
\* critical_shmem_lock, for the process it is posting to: there is never a
\* second one, so no message is overwritten before its receiver has read where
\* it is (emi_shmem.c:122), whatever crashes, is reset or comes back.
IndexDiscipline ==
    \A p \in Pid : pid_num[p] # NoSlot =>
        critical_shmem_lock = pid_num[p] /\ idx[critical_shmem_lock] = p

\* The inductive invariant behind IndexDiscipline.  A thread that works on an
\* entry has a node, and from "lock" on the process of the cell it posts to ...
HasNode == {"exwrite", "index", "lock", "delete"} \cup Critical
HasCell == {"lock", "delete"} \cup Critical

LocalsOK ==
    \A s \in Slot : /\ pc[s] \in HasNode => m[s] \in Node
                    /\ pc[s] \in HasCell => idx[s] \in Pid

\* ... a registration knows its process, a handler its message ...
HeadersOK ==
    /\ \A s \in Slot : /\ shm[s].cmd = "REGISTER" => shm[s].pid \in Pid
                       /\ pc[s] \in {"insert", "exsearch", "exwrite"} =>
                              shm[s].cmd = "REGISTER"
    /\ \A p \in Pid : hpc[p] # "main" => shmsg[p] \in Slot

\* ... and the lock is held by the one thread between lines 448 and 463.
LockOK == \A s \in Slot : critical_shmem_lock = s <=> pc[s] \in Critical

IndexInv == TypeOK /\ LocalsOK /\ HeadersOK /\ LockOK /\ IndexDiscipline

\* A pending SIGUSR2 has a message in its process's cell, and a message in the
\* cell of a live process is signalled or about to be: no handler run finds
\* nothing and no thread waits for a signal nobody sent (emi_core.c:451-461).
CellAndSignalAgree ==
    \A p \in Pid :
        /\ sig[p] => pid_num[p] # NoSlot
        /\ pid_num[p] # NoSlot /\ proc[p] = "live" =>
               sig[p] \/ pc[pid_num[p]] = "kill"

\* When the loop of a message is over it was posted to every live process that
\* had registered it when the loop began (README:12, "to whoever registered
\* the same one").
NoRegistrantMissed ==
    \A s \in Slot : pc[s] = "wait" =>
        \A p \in due[s] : proc[p] = "live" => posted[s][p] > 0

\* msg_pos->count counts processes (emi.h:69): a message is posted to each one
\* at most once.
PostedOnce == \A s \in Slot, p \in Pid : posted[s][p] <= 1

\* A process whose emi_msg_register succeeded is in the table (emiif.h:77).
RegisteredIsListed ==
    \A p \in Pid, k \in Msg : Ready(p, k) => Registered(k, p)

\* A slot is not back in the pool while a receiver's handler works on the
\* message in it (emi_core.c:472-476).
NoEarlyRelease == \A p \in Pid : hpc[p] # "main" => pc[shmsg[p]] # "idle"

\* A BLOCK_RETURN sender is told of success only if some process got its message
\* (emi_core.c:487-495), or if it had said so itself: SUCCEEDED in a message
\* that is sent again (emi_if.c:194) comes back even if nobody has the message.
\* What emi_core or a function set in an earlier message of the area never does.
SuccessHasReceiver ==
    \A s \in Slot :
        pc[s] = "wait" /\ shm[s].mode = "BLOCK_RETURN" /\ shm[s].ok =>
            brought[s] \/ \E p \in Pid : posted[s][p] > 0

\* The struct msg_map pointer a thread keeps after msg_map_lock is released still
\* points to an entry of its message (emi_core.c:446, 452 and 467).
PointerIsLive ==
    \A s \in Slot : pc[s] \in {"index", "lock", "kill", "delete"} =>
        heap[m[s]] # Freed /\ heap[m[s]].msg = shm[s].msg

\* The index area behaves as its abstract specification says.
IndexAreaImpl == INSTANCE IndexArea WITH owner <- critical_shmem_lock, cell <- pid_num
IndexAreaSpec == IndexAreaImpl!Spec

\* The one lock every delivery competes for is given back (emi_core.c:448-463).
LockReleased ==
    \A s \in Slot : critical_shmem_lock = s ~> critical_shmem_lock # s

\* A posted message is picked up by its receiver.
MessagePickedUp == \A p \in Pid : pid_num[p] # NoSlot ~> pid_num[p] = NoSlot

\* A call of emi_msg_register returns.
RegisterReturns == \A p \in Pid : reg[p].step # "main" ~> reg[p].step = "main"

\* Every receiver's message is finished and its sender's thread ends
\* (emi_core.c:472-476).
SendCompletes == \A s \in Slot : pc[s] = "wait" ~> pc[s] = "idle"

\* The processes whose handler has the message of s.
Receiving(s) == {p \in Pid : hpc[p] # "main" /\ shmsg[p] = s}

\* No two updates of a count, whose load and store nothing holds together, are
\* under way at once.
UpdatesApart ==
    \A s \in Slot : \A p \in Receiving(s) : hpc[p] = "decstore" =>
        pc[s] # "incstore" /\ \A q \in Receiving(s) : hpc[q] = "decstore" => q = p

\* When a message was posted to all its receivers the count is the number of
\* those that are not done, and none are when its slot is back in the pool.
CountsReceivers ==
    \A s \in Slot :
        /\ pc[s] = "wait" => count[s] = Cardinality(Receiving(s))
        /\ pc[s] = "idle" => Receiving(s) = {}

\* Thread s has a step, or the handler of p has; no new connection is needed.
ThreadMoves(s) ==
    /\ pc[s] # "idle"
    /\ pc[s] = "lock" => critical_shmem_lock = NoSlot
    /\ pc[s] = "spin" => pid_num[idx[s]] = NoSlot
    /\ pc[s] = "wait" => count[s] = 0
HandlerMoves(p) == Running(p) /\ (hpc[p] # "main" \/ (sig[p] /\ handler[p]))

\* Thread s goes on, or the receiver it waits for does.
Served(s) ==
    \/ ThreadMoves(s)
    \/ pc[s] = "spin" /\ HandlerMoves(idx[s])
    \/ pc[s] = "wait" /\ \E p \in Receiving(s) : HandlerMoves(p)

\* Nobody waits in vain: no chain of threads that wait for a lock, a cell or a
\* count, and of registrations that wait for an answer, is longer than a thread
\* with the lock and its receiver, or comes back to itself.
NobodyWaitsInVain ==
    /\ \A s \in Slot : pc[s] # "idle" =>
           \/ Served(s)
           \/ pc[s] = "lock" /\ critical_shmem_lock # s /\ Served(critical_shmem_lock)
    /\ \A p \in Pid : reg[p].step = "sent" => ThreadMoves(reg[p].sd)

\* That is so unless two updates of a count overlap: nothing else, in whatever
\* order receivers are posted to, interrupted and done, makes emi_core wait for
\* nobody, for somebody who cannot go on, or take a message away from a handler
\* (emi_core.c:448-463, 472-476, emi_if.c:250, 481).
WaitsUntilOverlap == []UpdatesApart => [](CountsReceivers /\ NobodyWaitsInVain)

\* Nor is there anything else that makes a sender's thread wait for ever.
CallsEndUntilOverlap == []UpdatesApart => SendCompletes
=============================================================================
