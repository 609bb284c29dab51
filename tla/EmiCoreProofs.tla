---------------------------- MODULE EmiCoreProofs ----------------------------
(***************************************************************************)
(* Proofs about EmiCore, for every set of slots, processes, nodes and      *)
(* messages and everything the environment may do.                         *)
(*                                                                         *)
(* IndexDiscipline is not inductive by itself: that the cell a thread      *)
(* writes is its own needs to know who holds critical_shmem_lock (LockOK), *)
(* that the thread's locals name a node and a process (LocalsOK), and that *)
(* a header or an entry, even one read through a dangling pointer, holds a *)
(* pid (TypeOK, HeadersOK).  IndexInv is their conjunction; each action    *)
(* has a lemma that it preserves IndexInv, with one step per conjunct the  *)
(* action can disturb.                                                     *)
(*                                                                         *)
(* On top of it OneInv, for messages with one receiver each: a loop posts  *)
(* in its first turn or never, so that the count is 1 from the post until  *)
(* the receiver has counted down, and the slot stays with its thread.      *)
(***************************************************************************)
EXTENDS EmiCore, MsgTableProofs

\* __emi_hsearch returns a node of the table or NULL.
LEMMA SearchType ==
    ASSUME TableTypeOK, NEW k \in Msg, NEW n \in Nat
    PROVE  __emi_hsearch(k, n) \in Node \cup {NoNode}
<1>. DEFINE found == {i \in Matches(Chain(k), k) : i > n}
<1>1. Chain(k) \in Seq(Node)
  BY HashType DEF Chain, TableTypeOK
<1>2. \A i \in found : i \in 1 .. Len(Chain(k)) /\ Chain(k)[i] \in Node
  BY <1>1 DEF Matches
<1>3. CASE found = {}
  BY <1>3 DEF __emi_hsearch
<1>4. CASE found # {}
  <2>1. found \in SUBSET Nat
    BY <1>2
  <2>2. Min(found) \in found
    BY <2>1, <1>4, MinProperties
  <2>. QED BY <1>2, <1>4, <2>2 DEF __emi_hsearch
<1>. QED BY <1>3, <1>4

\* What is read through a pointer, live or not, is an entry.
LEMMA ReadType ==
    ASSUME TableTypeOK, NEW n \in Node, NEW e \in ReadNode(n)
    PROVE  e \in MsgMap
BY DEF TableTypeOK, ReadNode

\* The headers requests are read into.
LEMMA HeaderTypes ==
    /\ \A k \in Msg, mode \in Mode, ok \in BOOLEAN : SendHeader(k, mode, ok) \in Header
    /\ \A p \in Pid, k \in Msg, mode \in Mode : RegisterHeader(p, k, mode) \in Header
    /\ ZeroHeader \in Header
BY ZeroAssumption DEF Mode, SendHeader, RegisterHeader, ZeroHeader, Header

\* The steps of __emi_msg_register.
LEMMA RegTypes ==
    /\ NoReg \in Reg
    /\ \A k \in Msg, s \in Slot : [step |-> "sent", msg |-> k, sd |-> s] \in Reg
    /\ \A r \in Reg : /\ [r EXCEPT !.step = "acked", !.sd = NoSlot] \in Reg
                      /\ [r EXCEPT !.step = "listed"] \in Reg
                      /\ r.msg \in Msg
BY ZeroAssumption DEF NoReg, Reg

\* count++ and count-- keep the width of an eu32.
LEMMA CountTypes ==
    /\ 0 \in 0 .. COUNT_MOD - 1
    /\ \A c \in 0 .. COUNT_MOD - 1 :
          /\ (c + 1) % COUNT_MOD \in 0 .. COUNT_MOD - 1
          /\ (c + COUNT_MOD - 1) % COUNT_MOD \in 0 .. COUNT_MOD - 1
BY CountAssumption

-----------------------------------------------------------------------------
(* Every action preserves the inductive invariant                           *)

\* A new message resets the header of its slot.
LEMMA ServeSendStep ==
    ASSUME IndexInv, NEW s \in Slot, NEW k \in SendMsg, NEW mode \in SendMode,
           NEW ok \in BOOLEAN, ServeSend(s, k, mode, ok)
    PROVE  IndexInv'
<1>. USE DEF IndexInv, TypeOK
<1>1. ThreadTypeOK'
  BY SlotAssumption DEF ThreadTypeOK, ServeSend, Label, Dispatch, localVars,
     Goto
<1>2. ShmTypeOK'
  BY HeaderTypes, CountTypes, SendAssumption, ModeAssumption DEF ShmTypeOK,
     ServeSend
<1>3. GhostTypeOK'
  BY DEF GhostTypeOK, ServeSend, Registrants, Dispatch
<1>4. LocalsOK'
  BY DEF LocalsOK, ServeSend, HasNode, HasCell, Critical, ThreadTypeOK,
     Dispatch, localVars, Goto
<1>5. HeadersOK'
  BY DEF HeadersOK, ServeSend, ThreadTypeOK, SendHeader, Dispatch, handlerVars,
     Goto, ZeroHeader
<1>6. LockOK'
  BY SlotAssumption DEF LockOK, ServeSend, Critical, ThreadTypeOK, Dispatch,
     Goto
<1>7. TableTypeOK' /\ ProcTypeOK' /\ IndexDiscipline'
  BY DEF TableTypeOK, ProcTypeOK, IndexDiscipline, ServeSend, tableVars,
     localVars, libVars, handlerVars
<1>. QED BY <1>1, <1>2, <1>3, <1>4, <1>5, <1>6, <1>7

\* A registration names the process that asks for it.
LEMMA ServeRegisterStep ==
    ASSUME IndexInv, NEW s \in Slot, NEW p \in Pid, NEW k \in Msg, NEW mode \in
           RegMode, ServeRegister(s, p, k, mode)
    PROVE  IndexInv'
<1>. USE DEF IndexInv, TypeOK
<1>1. ThreadTypeOK'
  BY SlotAssumption DEF ThreadTypeOK, ServeRegister, Label, Dispatch, localVars,
     Goto
<1>2. ShmTypeOK'
  BY HeaderTypes, CountTypes, ModeAssumption DEF ShmTypeOK, ServeRegister
<1>3. ProcTypeOK'
  BY RegTypes DEF ProcTypeOK, ServeRegister, handlerVars
<1>4. GhostTypeOK'
  BY DEF GhostTypeOK, ServeRegister, Registrants, Dispatch
<1>5. LocalsOK'
  BY DEF LocalsOK, ServeRegister, HasNode, HasCell, Critical, ThreadTypeOK,
     Dispatch, localVars, Goto
<1>6. HeadersOK'
  BY DEF HeadersOK, ServeRegister, ThreadTypeOK, RegisterHeader, Dispatch,
     handlerVars, Goto
<1>7. LockOK'
  BY SlotAssumption DEF LockOK, ServeRegister, Critical, ThreadTypeOK, Dispatch,
     Goto
<1>8. TableTypeOK' /\ IndexDiscipline'
  BY DEF TableTypeOK, IndexDiscipline, ServeRegister, tableVars, localVars
<1>. QED BY <1>1, <1>2, <1>3, <1>4, <1>5, <1>6, <1>7, <1>8

\* What emi_core.c:404 leaves in the slot is a header all the same.
LEMMA ShortDataStep ==
    ASSUME IndexInv, NEW s \in Slot, NEW k \in SendMsg, NEW mode \in SendMode,
           NEW ok \in BOOLEAN, ShortData(s, k, mode, ok)
    PROVE  IndexInv'
<1>. USE DEF IndexInv, TypeOK
<1>1. ShmTypeOK'
  BY HeaderTypes, CountTypes, SendAssumption, ModeAssumption DEF ShmTypeOK,
     ShortData
<1>2. HeadersOK'
  BY DEF HeadersOK, ShortData, SendHeader, threadVars, handlerVars, ZeroHeader
<1>3. /\ TableTypeOK' /\ ThreadTypeOK' /\ ProcTypeOK' /\ GhostTypeOK'
      /\ LocalsOK' /\ LockOK' /\ IndexDiscipline'
  BY DEF TableTypeOK, ThreadTypeOK, ProcTypeOK, GhostTypeOK, LocalsOK, LockOK,
     IndexDiscipline, ShortData, tableVars, threadVars, libVars, handlerVars
<1>. QED BY <1>1, <1>2, <1>3

\* The header a thread goes on with after a failed read is an old one.
LEMMA ReadFailsStep ==
    ASSUME IndexInv, NEW s \in Slot, ReadFails(s)
    PROVE  IndexInv'
<1>. USE DEF IndexInv, TypeOK
<1>1. ThreadTypeOK'
  BY SlotAssumption DEF ThreadTypeOK, ReadFails, Label, Dispatch, localVars,
     Goto
<1>2. ShmTypeOK'
  BY DEF ShmTypeOK, ReadFails
<1>3. GhostTypeOK'
  BY DEF GhostTypeOK, ReadFails, Registrants, Dispatch
<1>4. LocalsOK'
  BY DEF LocalsOK, ReadFails, HasNode, HasCell, Critical, ThreadTypeOK,
     Dispatch, localVars, Goto
<1>5. HeadersOK'
  BY DEF HeadersOK, ReadFails, ThreadTypeOK, Dispatch, handlerVars, Goto
<1>6. LockOK'
  BY SlotAssumption DEF LockOK, ReadFails, Critical, ThreadTypeOK, Dispatch,
     Goto
<1>7. TableTypeOK' /\ ProcTypeOK' /\ IndexDiscipline'
  BY DEF TableTypeOK, ProcTypeOK, IndexDiscipline, ReadFails, tableVars,
     localVars, libVars, handlerVars
<1>. QED BY <1>1, <1>2, <1>3, <1>4, <1>5, <1>6, <1>7

\* The table takes the message and the process of a registration.
LEMMA InsertMapStep ==
    ASSUME IndexInv, NEW s \in Slot, InsertMap(s)
    PROVE  IndexInv'
<1>. USE DEF IndexInv, TypeOK
<1>1. TableTypeOK'
  <2>1. msg_map_fill(shm[s].msg, shm[s].pid) \in MsgMap
    BY DEF InsertMap, HeadersOK, msg_map_fill, MsgMap, ShmTypeOK, Header
  <2>. QED BY <2>1, InsertType DEF InsertMap
<1>2. ThreadTypeOK'
  BY SlotAssumption DEF ThreadTypeOK, InsertMap, Label, Goto, localVars
<1>3. LocalsOK'
  BY DEF LocalsOK, InsertMap, HasNode, HasCell, Critical, Goto, localVars
<1>4. HeadersOK'
  BY DEF HeadersOK, InsertMap, Goto, handlerVars
<1>5. LockOK'
  BY SlotAssumption DEF LockOK, InsertMap, Critical, Goto
<1>6. ShmTypeOK' /\ ProcTypeOK' /\ GhostTypeOK' /\ IndexDiscipline'
  BY DEF ShmTypeOK, ProcTypeOK, GhostTypeOK, IndexDiscipline, InsertMap,
     localVars, libVars, handlerVars, ghosts
<1>. QED BY <1>1, <1>2, <1>3, <1>4, <1>5, <1>6

\* The search of emi_core.c:374 finds a node or nothing, even under a deletion.
LEMMA ExclusiveSearchStep ==
    ASSUME IndexInv, NEW s \in Slot, ExclusiveSearch(s)
    PROVE  IndexInv'
<1>. USE DEF IndexInv, TypeOK
<1>. PICK n \in Node \cup {NoNode} : m' = [m EXCEPT ![s] = n]
  <2>1. __emi_hsearch(shm[s].msg, 0) \in Node \cup {NoNode}
    BY SearchType DEF ExclusiveSearch, ShmTypeOK, Header
  <2>. QED BY <2>1 DEF ExclusiveSearch
<1>1. ThreadTypeOK'
  BY DEF ExclusiveSearch, ThreadTypeOK, Label, Goto
<1>2. LocalsOK'
  BY DEF ExclusiveSearch, LocalsOK, HasNode, HasCell, Critical, ThreadTypeOK, Goto
<1>3. HeadersOK'
  BY DEF HeadersOK, ExclusiveSearch, Goto, handlerVars
<1>4. LockOK'
  BY SlotAssumption DEF LockOK, ExclusiveSearch, Critical, Goto
<1>5. /\ TableTypeOK' /\ ShmTypeOK' /\ ProcTypeOK' /\ GhostTypeOK'
      /\ IndexDiscipline'
  BY DEF TableTypeOK, ShmTypeOK, ProcTypeOK, GhostTypeOK, IndexDiscipline,
     ExclusiveSearch, tableVars, libVars, handlerVars, ghosts
<1>. QED BY <1>1, <1>2, <1>3, <1>4, <1>5

\* The entry's process is replaced by a process, or the node is freed.
LEMMA ExclusiveWriteStep ==
    ASSUME IndexInv, NEW s \in Slot, ExclusiveWrite(s)
    PROVE  IndexInv'
<1>. USE DEF IndexInv, TypeOK
<1>1. TableTypeOK'
  <2>1. m[s] \in Node /\ shm[s].pid \in Pid
    BY DEF ExclusiveWrite, HeadersOK, LocalsOK, HasNode
  <2>2. heap[m[s]] # Freed => [heap[m[s]] EXCEPT !.pid = shm[s].pid] \in MsgMap
    BY <2>1 DEF TableTypeOK, MsgMap
  <2>. QED BY <2>1, <2>2 DEF TableTypeOK, ExclusiveWrite
<1>2. ThreadTypeOK'
  BY SlotAssumption DEF ThreadTypeOK, ExclusiveWrite, Label, Goto, localVars
<1>3. LocalsOK'
  BY DEF LocalsOK, ExclusiveWrite, HasNode, HasCell, Critical, Goto, localVars
<1>4. HeadersOK'
  BY DEF HeadersOK, ExclusiveWrite, Goto, handlerVars
<1>5. LockOK'
  BY SlotAssumption DEF LockOK, ExclusiveWrite, Critical, Goto
<1>6. ShmTypeOK' /\ ProcTypeOK' /\ GhostTypeOK' /\ IndexDiscipline'
  BY DEF ShmTypeOK, ProcTypeOK, GhostTypeOK, IndexDiscipline, ExclusiveWrite,
     localVars, libVars, handlerVars, ghosts
<1>. QED BY <1>1, <1>2, <1>3, <1>4, <1>5, <1>6

\* The answer turns the slot's header into that of a message (emi_core.c:383).
LEMMA AckStep ==
    ASSUME IndexInv, NEW s \in Slot, Ack(s)
    PROVE  IndexInv'
<1>. USE DEF IndexInv, TypeOK
<1>1. ThreadTypeOK'
  BY CountTypes DEF ThreadTypeOK, Ack, Label, Leave, Goto
<1>2. ShmTypeOK'
  <2>1. [shm[s] EXCEPT !.cmd = "SEND", !.mode = "NONE", !.ok = TRUE] \in Header
    BY DEF Mode, ShmTypeOK, Header
  <2>. QED BY <2>1 DEF ShmTypeOK, Ack
<1>3. ProcTypeOK'
  <2>1. \A p \in Pid : [reg[p] EXCEPT !.step = "acked", !.sd = NoSlot] \in Reg
    BY DEF ProcTypeOK, Reg
  <2>2. PICK lost \in {FALSE, "reset" \in Env} :
           reg' = [p \in Pid |->
                     IF reg[p].sd # s THEN reg[p]
                     ELSE IF lost THEN NoReg
                     ELSE [reg[p] EXCEPT !.step = "acked", !.sd = NoSlot]]
    BY DEF Ack
  <2>3. reg' \in [Pid -> Reg]
    <3>1. \A p \in Pid : reg[p] \in Reg
      BY DEF ProcTypeOK
    <3>. QED BY <2>1, <2>2, <3>1, RegTypes
  <2>. QED BY <2>3 DEF Ack, ProcTypeOK, handlerVars
<1>4. GhostTypeOK'
  BY DEF GhostTypeOK, Ack, Leave
<1>5. LocalsOK'
  BY DEF LocalsOK, Ack, HasNode, HasCell, Critical, ThreadTypeOK, Leave, Goto
<1>6. HeadersOK'
  <2>1. shm'[s].cmd = "SEND" /\ \A t \in Slot \ {s} : shm'[t] = shm[t]
    BY DEF Ack, ShmTypeOK, Header
  <2>. QED BY <2>1 DEF HeadersOK, Ack, ThreadTypeOK, Leave, Goto, handlerVars
<1>7. LockOK'
  BY SlotAssumption DEF LockOK, Ack, Critical, ThreadTypeOK, Leave, Goto
<1>8. IndexDiscipline'
  BY SlotAssumption DEF IndexDiscipline, Ack, LockOK, Critical, ThreadTypeOK,
     Leave
<1>9. TableTypeOK'
  BY DEF TableTypeOK, Ack, tableVars
<1>. QED BY <1>1, <1>2, <1>3, <1>4, <1>5, <1>6, <1>7, <1>8, <1>9

\* A thread goes on to "index" with a node only.
LEMMA SearchStep ==
    ASSUME IndexInv, NEW s \in Slot, Search(s)
    PROVE  IndexInv'
<1>. USE DEF IndexInv, TypeOK
<1>1. ThreadTypeOK'
  <2>1. __emi_hsearch(shm[s].msg, num[s]) \in Node \cup {NoNode}
    BY SearchType DEF ShmTypeOK, Header, ThreadTypeOK
  <2>. QED BY <2>1 DEF Search, ThreadTypeOK, Label, Goto
<1>2. LocalsOK'
  <2>1. __emi_hsearch(shm[s].msg, num[s]) \in Node \cup {NoNode}
    BY SearchType DEF ShmTypeOK, Header, ThreadTypeOK
  <2>. QED BY <2>1 DEF Search, LocalsOK, HasNode, HasCell, Critical,
              ThreadTypeOK, Goto
<1>3. HeadersOK'
  BY DEF HeadersOK, Search, Goto, handlerVars
<1>4. LockOK'
  BY SlotAssumption DEF LockOK, Search, Critical, Goto
<1>5. /\ TableTypeOK' /\ ShmTypeOK' /\ ProcTypeOK' /\ GhostTypeOK'
      /\ IndexDiscipline'
  BY DEF TableTypeOK, ShmTypeOK, ProcTypeOK, GhostTypeOK, IndexDiscipline,
     Search, tableVars, libVars, handlerVars, ghosts
<1>. QED BY <1>1, <1>2, <1>3, <1>4, <1>5

\* Whatever a dangling pointer reads as pid is the index of a cell.
LEMMA IndexStep ==
    ASSUME IndexInv, NEW s \in Slot, Index(s)
    PROVE  IndexInv'
<1>. USE DEF IndexInv, TypeOK
<1>1. ThreadTypeOK'
  <2>1. \A e \in ReadNode(m[s]) : e.pid \in Pid
    BY ReadType DEF Index, MsgMap, LocalsOK, HasNode
  <2>. QED BY <2>1 DEF Index, ThreadTypeOK, Label, Goto
<1>2. LocalsOK'
  <2>1. \A e \in ReadNode(m[s]) : e.pid \in Pid
    BY ReadType DEF Index, MsgMap, LocalsOK, HasNode
  <2>. QED BY <2>1 DEF Index, LocalsOK, HasNode, ThreadTypeOK, Goto
<1>3. HeadersOK'
  BY DEF HeadersOK, Index, Goto, handlerVars
<1>4. LockOK'
  BY SlotAssumption DEF LockOK, Index, Critical, Goto
<1>5. IndexDiscipline'
  BY SlotAssumption DEF IndexDiscipline, Index, LockOK, Critical
<1>6. TableTypeOK' /\ ShmTypeOK' /\ ProcTypeOK' /\ GhostTypeOK'
  BY DEF TableTypeOK, ShmTypeOK, ProcTypeOK, GhostTypeOK, Index, tableVars,
     libVars, handlerVars, ghosts
<1>. QED BY <1>1, <1>2, <1>3, <1>4, <1>5, <1>6

\* The lock is free, so every cell is empty before the one that is written.
LEMMA LockStep ==
    ASSUME IndexInv, NEW s \in Slot, Lock(s)
    PROVE  IndexInv'
<1>. USE DEF IndexInv, TypeOK
<1>1. ThreadTypeOK'
  BY SlotAssumption DEF ThreadTypeOK, Lock, Label, Goto, localVars
<1>2. ShmTypeOK'
  BY DEF ShmTypeOK, Lock
<1>3. LocalsOK'
  BY DEF LocalsOK, Lock, HasNode, HasCell, Goto, localVars
<1>4. HeadersOK'
  BY DEF HeadersOK, Lock, Goto, handlerVars
<1>5. LockOK'
  BY SlotAssumption DEF LockOK, Lock, Critical, ThreadTypeOK, Goto
<1>6. IndexDiscipline'
  BY SlotAssumption DEF IndexDiscipline, Lock, localVars
<1>7. TableTypeOK' /\ ProcTypeOK' /\ GhostTypeOK'
  BY DEF TableTypeOK, ProcTypeOK, GhostTypeOK, Lock, tableVars, libVars,
     handlerVars, ghosts
<1>. QED BY <1>1, <1>2, <1>3, <1>4, <1>5, <1>6, <1>7

\* Whatever kill finds, at most the thread's own cell changes.
LEMMA KillStep ==
    ASSUME IndexInv, NEW s \in Slot, Kill(s)
    PROVE  IndexInv'
<1>. USE DEF IndexInv, TypeOK
<1>1. ThreadTypeOK'
  BY SlotAssumption DEF ThreadTypeOK, Kill, Label, Goto
<1>2. ShmTypeOK'
  BY DEF ShmTypeOK, Kill
<1>3. ProcTypeOK'
  BY DEF ProcTypeOK, Kill, libVars, handlerVars
<1>4. GhostTypeOK'
  BY DEF GhostTypeOK, Kill
<1>5. LocalsOK'
  BY DEF LocalsOK, Kill, HasNode, HasCell, Critical, ThreadTypeOK, Goto
<1>6. HeadersOK'
  BY DEF HeadersOK, Kill, ThreadTypeOK, Goto, handlerVars
<1>7. LockOK'
  BY SlotAssumption DEF LockOK, Kill, Critical, ThreadTypeOK, Goto
<1>8. IndexDiscipline'
  BY SlotAssumption DEF IndexDiscipline, Kill, ShmTypeOK
<1>9. TableTypeOK'
  BY DEF TableTypeOK, Kill, tableVars
<1>. QED BY <1>1, <1>2, <1>3, <1>4, <1>5, <1>6, <1>7, <1>8, <1>9

\* count++ reads the count ...
LEMMA IncLoadStep ==
    ASSUME IndexInv, NEW s \in Slot, IncLoad(s)
    PROVE  IndexInv'
<1>. USE DEF IndexInv, TypeOK
<1>1. ThreadTypeOK'
  BY DEF ThreadTypeOK, IncLoad, ShmTypeOK, Label, Goto
<1>2. LocalsOK'
  BY DEF LocalsOK, IncLoad, HasNode, HasCell, Critical, Goto
<1>3. HeadersOK'
  BY DEF HeadersOK, IncLoad, Goto, handlerVars
<1>4. LockOK'
  BY SlotAssumption DEF LockOK, IncLoad, Critical, Goto
<1>5. /\ TableTypeOK' /\ ShmTypeOK' /\ ProcTypeOK' /\ GhostTypeOK'
      /\ IndexDiscipline'
  BY DEF TableTypeOK, ShmTypeOK, ProcTypeOK, GhostTypeOK, IndexDiscipline,
     IncLoad, tableVars, libVars, handlerVars, ghosts
<1>. QED BY <1>1, <1>2, <1>3, <1>4, <1>5

\* ... and writes it back modulo the width of an eu32.
LEMMA IncStoreStep ==
    ASSUME IndexInv, NEW s \in Slot, IncStore(s)
    PROVE  IndexInv'
<1>. USE DEF IndexInv, TypeOK
<1>1. ThreadTypeOK'
  BY SlotAssumption DEF ThreadTypeOK, IncStore, Label, Goto, localVars
<1>2. ShmTypeOK'
  BY CountTypes DEF ShmTypeOK, IncStore, ThreadTypeOK
<1>3. LocalsOK'
  BY DEF LocalsOK, IncStore, HasNode, HasCell, Critical, Goto, localVars
<1>4. HeadersOK'
  BY DEF HeadersOK, IncStore, Goto, handlerVars
<1>5. LockOK'
  BY SlotAssumption DEF LockOK, IncStore, Critical, Goto
<1>6. TableTypeOK' /\ ProcTypeOK' /\ GhostTypeOK' /\ IndexDiscipline'
  BY DEF TableTypeOK, ProcTypeOK, GhostTypeOK, IndexDiscipline, IncStore,
     tableVars, localVars, libVars, handlerVars, ghosts
<1>. QED BY <1>1, <1>2, <1>3, <1>4, <1>5, <1>6

\* The thread's cell is empty, so every cell is when the lock is released.
LEMMA SpinEndsStep ==
    ASSUME IndexInv, NEW s \in Slot, SpinEnds(s)
    PROVE  IndexInv'
<1>. USE DEF IndexInv, TypeOK
<1>1. ThreadTypeOK'
  BY SlotAssumption DEF ThreadTypeOK, SpinEnds, Label, Goto
<1>2. LocalsOK'
  BY DEF LocalsOK, SpinEnds, HasNode, HasCell, Critical, ThreadTypeOK, Goto
<1>3. HeadersOK'
  BY DEF HeadersOK, SpinEnds, ThreadTypeOK, Goto, handlerVars
<1>4. LockOK'
  BY SlotAssumption DEF LockOK, SpinEnds, Critical, ThreadTypeOK, Goto
<1>5. IndexDiscipline'
  BY SlotAssumption DEF IndexDiscipline, SpinEnds, LockOK, Critical
<1>6. TableTypeOK' /\ ShmTypeOK' /\ ProcTypeOK' /\ GhostTypeOK'
  BY DEF TableTypeOK, ShmTypeOK, ProcTypeOK, GhostTypeOK, SpinEnds, tableVars,
     libVars, handlerVars, ghosts
<1>. QED BY <1>1, <1>2, <1>3, <1>4, <1>5, <1>6

\* Deleting an entry, or what a dangling pointer reads, leaves a table.
LEMMA DeleteMapStep ==
    ASSUME IndexInv, NEW s \in Slot, DeleteMap(s)
    PROVE  IndexInv'
<1>. USE DEF IndexInv, TypeOK
<1>1. TableTypeOK'
  <2>1. \A e \in ReadNode(m[s]) : e \in MsgMap
    BY ReadType DEF DeleteMap, LocalsOK, HasNode
  <2>. QED BY <2>1, DeleteType DEF DeleteMap
<1>2. ThreadTypeOK'
  BY SlotAssumption DEF ThreadTypeOK, DeleteMap, Label, Goto
<1>3. LocalsOK'
  BY DEF LocalsOK, DeleteMap, HasNode, HasCell, Goto
<1>4. HeadersOK'
  BY DEF HeadersOK, DeleteMap, Goto, handlerVars
<1>5. LockOK'
  BY SlotAssumption DEF LockOK, DeleteMap, Critical, Goto
<1>6. ShmTypeOK' /\ ProcTypeOK' /\ GhostTypeOK' /\ IndexDiscipline'
  BY DEF ShmTypeOK, ProcTypeOK, GhostTypeOK, IndexDiscipline, DeleteMap,
     libVars, handlerVars, ghosts
<1>. QED BY <1>1, <1>2, <1>3, <1>4, <1>5, <1>6

\* The slot keeps its header; the thread forgets its pointers.
LEMMA FinishStep ==
    ASSUME IndexInv, NEW s \in Slot, Finish(s)
    PROVE  IndexInv'
<1>. USE DEF IndexInv, TypeOK
<1>1. ThreadTypeOK'
  BY CountTypes DEF ThreadTypeOK, Finish, Label, Leave, Goto
<1>2. ShmTypeOK'
  <2>1. [shm[s] EXCEPT !.mode = "NONE"] \in Header
    BY DEF Mode, ShmTypeOK, Header
  <2>. QED BY <2>1 DEF ShmTypeOK, Finish
<1>3. GhostTypeOK'
  BY DEF GhostTypeOK, Finish, Leave
<1>4. LocalsOK'
  BY DEF LocalsOK, Finish, HasNode, HasCell, Critical, Leave, Goto
<1>5. HeadersOK'
  BY DEF HeadersOK, Finish, Leave, handlerVars, Goto
<1>6. LockOK'
  BY SlotAssumption DEF LockOK, Finish, Critical, Leave, Goto
<1>7. IndexDiscipline'
  BY SlotAssumption DEF IndexDiscipline, Finish, LockOK, Critical, Leave
<1>8. TableTypeOK' /\ ProcTypeOK'
  BY DEF TableTypeOK, ProcTypeOK, Finish, tableVars, libVars, handlerVars
<1>. QED BY <1>1, <1>2, <1>3, <1>4, <1>5, <1>6, <1>7, <1>8

\* The handler of a process empties the cell of that process.
LEMMA PickupStep ==
    ASSUME IndexInv, NEW p \in Pid, Pickup(p)
    PROVE  IndexInv'
<1>. USE DEF IndexInv, TypeOK
<1>1. ShmTypeOK'
  BY DEF ShmTypeOK, Pickup
<1>2. ProcTypeOK'
  BY DEF ProcTypeOK, Pickup, ShmTypeOK, libVars
<1>3. HeadersOK'
  BY DEF HeadersOK, Pickup, ShmTypeOK, ProcTypeOK, threadVars
<1>4. IndexDiscipline'
  BY SlotAssumption DEF IndexDiscipline, Pickup, threadVars
<1>5. TableTypeOK' /\ ThreadTypeOK' /\ GhostTypeOK' /\ LocalsOK' /\ LockOK'
  BY DEF TableTypeOK, ThreadTypeOK, GhostTypeOK, LocalsOK, LockOK, Pickup,
     tableVars, threadVars, ghosts
<1>. QED BY <1>1, <1>2, <1>3, <1>4, <1>5

\* The functions change the flag SUCCEEDED at most.
LEMMA HandleStep ==
    ASSUME IndexInv, NEW p \in Pid, Handle(p)
    PROVE  IndexInv'
<1>. USE DEF IndexInv, TypeOK
<1>1. ShmTypeOK'
  <2>1. shmsg[p] \in Slot
    BY DEF HeadersOK, Handle
  <2>2. \A h \in Header, ok \in BOOLEAN : [h EXCEPT !.ok = ok] \in Header
    BY DEF Header
  <2>3. shm' \in [Slot -> Header]
    <3>1. CASE UNCHANGED shm
      BY <3>1 DEF ShmTypeOK
    <3>2. CASE \E ok \in BOOLEAN : shm' = [shm EXCEPT ![shmsg[p]].ok = ok]
      BY <2>1, <2>2, <3>2 DEF ShmTypeOK
    <3>. QED BY <3>1, <3>2 DEF Handle
  <2>4. UNCHANGED <<count, pid_num>>
    BY DEF Handle
  <2>. QED BY <2>3, <2>4 DEF ShmTypeOK
<1>2. ProcTypeOK'
  BY DEF ProcTypeOK, Handle, libVars
<1>3. HeadersOK'
  <2>1. \A t \in Slot : shm'[t].cmd = shm[t].cmd /\ shm'[t].pid = shm[t].pid
    <3>1. shmsg[p] \in Slot
      BY DEF HeadersOK, Handle
    <3>2. \A t \in Slot, ok \in BOOLEAN :
             /\ [shm[t] EXCEPT !.ok = ok].cmd = shm[t].cmd
             /\ [shm[t] EXCEPT !.ok = ok].pid = shm[t].pid
      BY DEF ShmTypeOK, Header
    <3>3. CASE UNCHANGED shm
      BY <3>3
    <3>4. CASE \E ok \in BOOLEAN : shm' = [shm EXCEPT ![shmsg[p]].ok = ok]
      BY <3>1, <3>2, <3>4 DEF ShmTypeOK
    <3>. QED BY <3>3, <3>4 DEF Handle
  <2>. QED BY <2>1 DEF HeadersOK, Handle, threadVars
<1>4. /\ TableTypeOK' /\ ThreadTypeOK' /\ GhostTypeOK' /\ LocalsOK' /\ LockOK'
      /\ IndexDiscipline'
  BY DEF TableTypeOK, ThreadTypeOK, GhostTypeOK, LocalsOK, LockOK,
     IndexDiscipline, Handle, tableVars, threadVars, ghosts
<1>. QED BY <1>1, <1>2, <1>3, <1>4

\* count-- reads the count of the handler's message ...
LEMMA DecLoadStep ==
    ASSUME IndexInv, NEW p \in Pid, DecLoad(p)
    PROVE  IndexInv'
<1>. USE DEF IndexInv, TypeOK
<1>1. ProcTypeOK'
  BY DEF ProcTypeOK, HeadersOK, DecLoad, ShmTypeOK, libVars
<1>2. HeadersOK'
  BY DEF HeadersOK, DecLoad, threadVars
<1>3. /\ TableTypeOK' /\ ThreadTypeOK' /\ ShmTypeOK' /\ GhostTypeOK'
      /\ LocalsOK' /\ LockOK' /\ IndexDiscipline'
  BY DEF TableTypeOK, ThreadTypeOK, ShmTypeOK, GhostTypeOK, LocalsOK, LockOK,
     IndexDiscipline, DecLoad, tableVars, threadVars, ghosts
<1>. QED BY <1>1, <1>2, <1>3

\* ... and writes it back; 0 wraps around.
LEMMA DecStoreStep ==
    ASSUME IndexInv, NEW p \in Pid, DecStore(p)
    PROVE  IndexInv'
<1>. USE DEF IndexInv, TypeOK
<1>1. ShmTypeOK'
  BY CountTypes DEF ShmTypeOK, DecStore, ProcTypeOK
<1>2. ProcTypeOK'
  BY CountTypes DEF ProcTypeOK, DecStore, libVars
<1>3. HeadersOK'
  BY DEF HeadersOK, DecStore, ProcTypeOK, threadVars
<1>4. /\ TableTypeOK' /\ ThreadTypeOK' /\ GhostTypeOK' /\ LocalsOK' /\ LockOK'
      /\ IndexDiscipline'
  BY DEF TableTypeOK, ThreadTypeOK, GhostTypeOK, LocalsOK, LockOK,
     IndexDiscipline, DecStore, tableVars, threadVars, ghosts
<1>. QED BY <1>1, <1>2, <1>3, <1>4

\* The library's list holds messages.
LEMMA ListAddStep ==
    ASSUME IndexInv, NEW p \in Pid, ListAdd(p)
    PROVE  IndexInv'
<1>. USE DEF IndexInv, TypeOK
<1>1. ProcTypeOK'
  BY RegTypes DEF ProcTypeOK, ListAdd, handlerVars
<1>2. /\ TableTypeOK' /\ ThreadTypeOK' /\ ShmTypeOK' /\ GhostTypeOK'
      /\ LocalsOK' /\ HeadersOK' /\ LockOK' /\ IndexDiscipline'
  BY DEF TableTypeOK, ThreadTypeOK, ShmTypeOK, GhostTypeOK, LocalsOK, HeadersOK,
     LockOK, IndexDiscipline, ListAdd, tableVars, threadVars, handlerVars,
     ghosts
<1>. QED BY <1>1, <1>2

\* The registration is over.
LEMMA SigActionStep ==
    ASSUME IndexInv, NEW p \in Pid, SigAction(p)
    PROVE  IndexInv'
<1>. USE DEF IndexInv, TypeOK
<1>1. ProcTypeOK'
  BY RegTypes DEF ProcTypeOK, SigAction, handlerVars
<1>2. /\ TableTypeOK' /\ ThreadTypeOK' /\ ShmTypeOK' /\ GhostTypeOK'
      /\ LocalsOK' /\ HeadersOK' /\ LockOK' /\ IndexDiscipline'
  BY DEF TableTypeOK, ThreadTypeOK, ShmTypeOK, GhostTypeOK, LocalsOK, HeadersOK,
     LockOK, IndexDiscipline, SigAction, tableVars, threadVars, handlerVars,
     ghosts
<1>. QED BY <1>1, <1>2

\* A death leaves shared memory and the lock as they are ...
LEMMA SigDefaultStep ==
    ASSUME IndexInv, NEW p \in Pid, SigDefault(p)
    PROVE  IndexInv'
<1>. USE DEF IndexInv, TypeOK
<1>1. ProcTypeOK'
  BY RegTypes, CountTypes DEF ProcTypeOK, SigDefault, Dies
<1>2. HeadersOK'
  BY DEF HeadersOK, SigDefault, ProcTypeOK, Dies, threadVars
<1>3. /\ TableTypeOK' /\ ThreadTypeOK' /\ ShmTypeOK' /\ GhostTypeOK'
      /\ LocalsOK' /\ LockOK' /\ IndexDiscipline'
  BY DEF TableTypeOK, ThreadTypeOK, ShmTypeOK, GhostTypeOK, LocalsOK, LockOK,
     IndexDiscipline, SigDefault, Dies, tableVars, threadVars, ghosts
<1>. QED BY <1>1, <1>2, <1>3

\* ... also when it comes from outside.
LEMMA CrashStep ==
    ASSUME IndexInv, NEW p \in Pid, Crash(p)
    PROVE  IndexInv'
<1>. USE DEF IndexInv, TypeOK
<1>1. ProcTypeOK'
  BY RegTypes, CountTypes DEF ProcTypeOK, Crash, Dies
<1>2. HeadersOK'
  BY DEF HeadersOK, Crash, ProcTypeOK, Dies, threadVars
<1>3. /\ TableTypeOK' /\ ThreadTypeOK' /\ ShmTypeOK' /\ GhostTypeOK'
      /\ LocalsOK' /\ LockOK' /\ IndexDiscipline'
  BY DEF TableTypeOK, ThreadTypeOK, ShmTypeOK, GhostTypeOK, LocalsOK, LockOK,
     IndexDiscipline, Crash, Dies, tableVars, threadVars, ghosts
<1>. QED BY <1>1, <1>2, <1>3

\* A reaped process has no pid any more ...
LEMMA ReapStep ==
    ASSUME IndexInv, NEW p \in Pid, Reap(p)
    PROVE  IndexInv'
<1>. USE DEF IndexInv, TypeOK
<1>1. ProcTypeOK'
  BY DEF ProcTypeOK, Reap, libVars, handlerVars
<1>2. /\ TableTypeOK' /\ ThreadTypeOK' /\ ShmTypeOK' /\ GhostTypeOK'
      /\ LocalsOK' /\ HeadersOK' /\ LockOK' /\ IndexDiscipline'
  BY DEF TableTypeOK, ThreadTypeOK, ShmTypeOK, GhostTypeOK, LocalsOK, HeadersOK,
     LockOK, IndexDiscipline, Reap, tableVars, threadVars, handlerVars, ghosts
<1>. QED BY <1>1, <1>2

\* ... and another one may get it.
LEMMA RecycleStep ==
    ASSUME IndexInv, NEW p \in Pid, Recycle(p)
    PROVE  IndexInv'
<1>. USE DEF IndexInv, TypeOK
<1>1. ProcTypeOK'
  BY DEF ProcTypeOK, Recycle, handlerVars
<1>2. /\ TableTypeOK' /\ ThreadTypeOK' /\ ShmTypeOK' /\ GhostTypeOK'
      /\ LocalsOK' /\ HeadersOK' /\ LockOK' /\ IndexDiscipline'
  BY DEF TableTypeOK, ThreadTypeOK, ShmTypeOK, GhostTypeOK, LocalsOK, HeadersOK,
     LockOK, IndexDiscipline, Recycle, tableVars, threadVars, handlerVars,
     ghosts
<1>. QED BY <1>1, <1>2

\* Taking a function off the list.
LEMMA UnregisterStep ==
    ASSUME IndexInv, NEW p \in Pid, NEW k \in Msg, Unregister(p, k)
    PROVE  IndexInv'
<1>. USE DEF IndexInv, TypeOK
<1>1. ProcTypeOK'
  BY DEF ProcTypeOK, Unregister, handlerVars
<1>2. /\ TableTypeOK' /\ ThreadTypeOK' /\ ShmTypeOK' /\ GhostTypeOK'
      /\ LocalsOK' /\ HeadersOK' /\ LockOK' /\ IndexDiscipline'
  BY DEF TableTypeOK, ThreadTypeOK, ShmTypeOK, GhostTypeOK, LocalsOK, HeadersOK,
     LockOK, IndexDiscipline, Unregister, tableVars, threadVars, handlerVars,
     ghosts
<1>. QED BY <1>1, <1>2

-----------------------------------------------------------------------------
(* The specification                                                        *)

\* Zeroed shared memory and an empty table satisfy the inductive invariant.
LEMMA InitInv == Init => IndexInv
<1>. SUFFICES ASSUME Init PROVE IndexInv
  OBVIOUS
<1>1. TableTypeOK
  BY TableInitType DEF Init
<1>2. ThreadTypeOK
  BY CountTypes DEF Init, ThreadTypeOK, Label
<1>3. ShmTypeOK
  BY CountTypes, HeaderTypes DEF Init, ShmTypeOK
<1>4. ProcTypeOK
  BY CountTypes, RegTypes DEF Init, ProcTypeOK
<1>5. GhostTypeOK
  BY DEF Init, GhostTypeOK
<1>6. LocalsOK
  BY DEF Init, LocalsOK, HasNode, HasCell, Critical
<1>7. HeadersOK
  BY DEF Init, HeadersOK, ZeroHeader
<1>8. LockOK /\ IndexDiscipline
  BY SlotAssumption DEF Init, IndexDiscipline, LockOK, Critical
<1>. QED BY <1>1, <1>2, <1>3, <1>4, <1>5, <1>6, <1>7, <1>8 DEF IndexInv, TypeOK

\* The inductive invariant names state variables only.
LEMMA StutterInv ==
    ASSUME IndexInv, UNCHANGED vars
    PROVE  IndexInv'
<1>. USE DEF vars, tableVars, threadVars, libVars, handlerVars, ghosts
<1>1. TableTypeOK' /\ ThreadTypeOK' /\ ShmTypeOK' /\ ProcTypeOK' /\ GhostTypeOK'
  BY DEF IndexInv, TypeOK, TableTypeOK, ThreadTypeOK, ShmTypeOK, ProcTypeOK,
     GhostTypeOK
<1>2. LocalsOK' /\ HeadersOK' /\ LockOK' /\ IndexDiscipline'
  BY DEF IndexInv, LocalsOK, HeadersOK, LockOK, IndexDiscipline
<1>. QED BY <1>1, <1>2 DEF IndexInv, TypeOK

\* No step of a thread, a process or the environment breaks it.
LEMMA NextInv ==
    ASSUME IndexInv, [Next]_vars
    PROVE  IndexInv'
<1>1. ASSUME NEW s \in Slot, Serve(s) PROVE IndexInv'
  BY <1>1, ServeSendStep, ServeRegisterStep, ShortDataStep, ReadFailsStep DEF
     Serve, Carried
<1>2. ASSUME NEW s \in Slot, Thread(s) PROVE IndexInv'
  BY <1>2, InsertMapStep, ExclusiveSearchStep, ExclusiveWriteStep, AckStep,
     SearchStep, IndexStep, LockStep, KillStep, IncLoadStep, IncStoreStep,
     SpinEndsStep, DeleteMapStep, FinishStep DEF Thread
<1>3. ASSUME NEW p \in Pid, Handler(p) PROVE IndexInv'
  BY <1>3, PickupStep, HandleStep, DecLoadStep, DecStoreStep DEF Handler
<1>4. ASSUME NEW p \in Pid, Library(p) PROVE IndexInv'
  BY <1>4, ListAddStep, SigActionStep DEF Library
<1>5. ASSUME NEW p \in Pid, Environment(p) PROVE IndexInv'
  BY <1>5, SigDefaultStep, CrashStep, ReapStep, RecycleStep, UnregisterStep DEF
     Environment
<1>6. CASE UNCHANGED vars
  BY <1>6, StutterInv
<1>. QED BY <1>1, <1>2, <1>3, <1>4, <1>5, <1>6 DEF Next

\* IndexInv holds in every state, whatever the environment does: with crashes,
\* reset connections, recycled pids and dangling pointers.
THEOREM IndexInvCorrect == Spec => []IndexInv
<1>. QED BY InitInv, NextInv, PTL DEF Spec

\* Every variable has its type in every state.
THEOREM TypeCorrect == Spec => []TypeOK
<1>1. IndexInv => TypeOK
  BY DEF IndexInv
<1>. QED BY <1>1, IndexInvCorrect, PTL

\* The one full index cell belongs to the holder of critical_shmem_lock and to the
\* process it is posting to, so no posted message is overwritten unread
\* (emi_core.c:448-463 and emi_if.c:213-219).
THEOREM IndexDisciplineCorrect == Spec => []IndexDiscipline
<1>1. IndexInv => IndexDiscipline
  BY DEF IndexInv
<1>. QED BY <1>1, IndexInvCorrect, PTL

-----------------------------------------------------------------------------
(* The index area implements IndexArea                                      *)

\* What the two variables of IndexArea do in a step of EmiCore.
AreaStep == [IndexAreaImpl!Next]_(IndexAreaImpl!vars)

\* Posting to a process is the abstract Post.
LEMMA LockArea ==
    ASSUME IndexInv, NEW s \in Slot, Lock(s)
    PROVE  AreaStep
<1>1. idx[s] \in Pid
  BY DEF IndexInv, Lock, LocalsOK, HasCell
<1>2. IndexAreaImpl!Post(s, idx[s])
  BY DEF Lock, IndexAreaImpl!Post
<1>. QED BY <1>1, <1>2 DEF AreaStep, IndexAreaImpl!Next

\* When kill finds nobody the owner withdraws its message, which is still there
\* unless an earlier process of that pid took it.
LEMMA KillArea ==
    ASSUME IndexInv, NEW s \in Slot, Kill(s)
    PROVE  AreaStep
<1>1. idx[s] \in Pid /\ critical_shmem_lock = s /\ s # NoSlot
  BY SlotAssumption DEF IndexInv, Kill, LocalsOK, HasCell, Critical, LockOK
<1>2. pid_num \in [Pid -> Slot \cup {NoSlot}] /\ UNCHANGED critical_shmem_lock
  BY DEF IndexInv, TypeOK, Kill, ShmTypeOK
<1>3. CASE UNCHANGED pid_num
  BY <1>2, <1>3 DEF AreaStep, IndexAreaImpl!vars
<1>4. CASE pid_num' = [pid_num EXCEPT ![idx[s]] = NoSlot]
  <2>1. CASE pid_num[idx[s]] = NoSlot
    BY <1>1, <1>2, <1>4, <2>1 DEF AreaStep, IndexAreaImpl!vars
  <2>2. CASE pid_num[idx[s]] # NoSlot
    <3>1. pid_num[idx[s]] = critical_shmem_lock
      BY <1>1, <2>2 DEF IndexInv, IndexDiscipline
    <3>2. IndexAreaImpl!Empty(idx[s])
      BY <1>1, <1>2, <1>4, <3>1 DEF IndexAreaImpl!Empty
    <3>. QED BY <1>1, <3>2 DEF AreaStep, IndexAreaImpl!Next
  <2>. QED BY <2>1, <2>2
<1>. QED BY <1>3, <1>4 DEF Kill

\* When a thread sees its cell empty, so is every other one.
LEMMA SpinEndsArea ==
    ASSUME IndexInv, NEW s \in Slot, SpinEnds(s)
    PROVE  AreaStep
<1>1. critical_shmem_lock = s /\ s # NoSlot
  BY SlotAssumption DEF IndexInv, SpinEnds, Critical, LockOK
<1>2. \A p \in Pid : pid_num[p] = NoSlot
  BY <1>1 DEF IndexInv, IndexDiscipline, SpinEnds
<1>3. IndexAreaImpl!Release
  BY <1>1, <1>2 DEF IndexAreaImpl!Release, SpinEnds
<1>. QED BY <1>3 DEF AreaStep, IndexAreaImpl!Next

\* A handler run takes the message of its process, or finds none.
LEMMA PickupArea ==
    ASSUME IndexInv, NEW p \in Pid, Pickup(p)
    PROVE  AreaStep
<1>1. pid_num \in [Pid -> Slot \cup {NoSlot}] /\ UNCHANGED critical_shmem_lock
      /\ pid_num' = [pid_num EXCEPT ![p] = NoSlot]
  BY DEF IndexInv, TypeOK, Pickup, ShmTypeOK, threadVars
<1>2. CASE pid_num[p] = NoSlot
  BY <1>1, <1>2 DEF AreaStep, IndexAreaImpl!vars
<1>3. CASE pid_num[p] # NoSlot
  <2>1. IndexAreaImpl!Empty(p)
    BY <1>1, <1>3 DEF IndexInv, IndexDiscipline, IndexAreaImpl!Empty
  <2>. QED BY <2>1 DEF AreaStep, IndexAreaImpl!Next
<1>. QED BY <1>2, <1>3

\* Every other step leaves the index area and its lock alone.
LEMMA NextArea ==
    ASSUME IndexInv, [Next]_vars
    PROVE  AreaStep
<1>1. ASSUME NEW s \in Slot, Serve(s) PROVE AreaStep
  BY <1>1 DEF Serve, ServeSend, ServeRegister, ShortData, ReadFails, threadVars,
              AreaStep, IndexAreaImpl!vars
<1>2. ASSUME NEW s \in Slot, Thread(s) PROVE AreaStep
  BY <1>2, LockArea, KillArea, SpinEndsArea
     DEF Thread, InsertMap, ExclusiveSearch, ExclusiveWrite, Ack, Search, Index,
         IncLoad, IncStore, DeleteMap, Finish, AreaStep, IndexAreaImpl!vars
<1>3. ASSUME NEW p \in Pid, Handler(p) PROVE AreaStep
  BY <1>3, PickupArea
     DEF Handler, Handle, DecLoad, DecStore, threadVars, AreaStep, IndexAreaImpl!vars
<1>4. ASSUME NEW p \in Pid, Library(p) PROVE AreaStep
  BY <1>4 DEF Library, ListAdd, SigAction, AreaStep, IndexAreaImpl!vars,
     threadVars
<1>5. ASSUME NEW p \in Pid, Environment(p) PROVE AreaStep
  BY <1>5 DEF Environment, SigDefault, Crash, Dies, Reap, Recycle, Unregister,
              threadVars, AreaStep, IndexAreaImpl!vars
<1>6. CASE UNCHANGED vars
  BY <1>6 DEF vars, AreaStep, IndexAreaImpl!vars, threadVars
<1>. QED BY <1>1, <1>2, <1>3, <1>4, <1>5, <1>6 DEF Next

\* Threads, handlers and deaths of processes together use the index area as
\* IndexArea says: one message at a time, taken or withdrawn before the next.
THEOREM IndexAreaCorrect == Spec => IndexAreaSpec
<1>1. Init => IndexAreaImpl!Init
  BY DEF Init, IndexAreaImpl!Init
<1>2. IndexInv /\ [Next]_vars => [IndexAreaImpl!Next]_(IndexAreaImpl!vars)
  BY NextArea DEF AreaStep
<1>. QED BY <1>1, <1>2, IndexInvCorrect, PTL DEF Spec, IndexAreaSpec,
            IndexAreaImpl!Spec

-----------------------------------------------------------------------------
(* One receiver                                                             *)

\* No two messages share a bucket.
Distinct == \A k, l \in Msg : emi_hash(k) = emi_hash(l) => k = l

\* No two processes register the same message, and where registrations may be
\* exclusive, which gives the entry of one process to another, there are no two.
OneReceiver ==
    /\ \A p, q \in Pid : Interest[p] \cap Interest[q] # {} => p = q
    /\ "BLOCK_RETURN" \in RegMode => \A p, q \in Pid : p = q

\* Where a thread is before it has posted its message, and after.
BeforePost == {"idle", "insert", "exsearch", "exwrite", "ack", "index", "lock",
               "kill", "delete"}
AfterPost  == {"incload", "incstore", "spin", "search", "wait"}

\* The message of slot s waits in the cell of p, or its handler works on it.
InCell(s, p)  == pid_num[p] = s /\ pc[s] # "kill"
InHand(s, p)  == hpc[p] # "main" /\ shmsg[p] = s
Pending(s, p) == InCell(s, p) \/ InHand(s, p)

Unposted(s) == \A p \in Pid : posted[s][p] = 0

\* Every entry of the table is of a process that may register its message ...
EntriesOK ==
    /\ TableInv
    /\ \A n \in Node : heap[n] # Freed => heap[n].msg \in Interest[heap[n].pid]

\* ... and so is every request ...
RequestsOK == \A s \in Slot :
    /\ shm[s].cmd = "REGISTER" =>
           /\ shm[s].msg \in Interest[shm[s].pid]
           /\ shm[s].mode = "BLOCK_RETURN" => "BLOCK_RETURN" \in RegMode
    /\ pc[s] \in {"exsearch", "exwrite"} => "BLOCK_RETURN" \in RegMode

\* ... there is one signal at a time, and the thread that sent it waits for its
\* cell to be cleared ...
SignalsOK == \A p \in Pid : sig[p] =>
    /\ proc[p] = "live" /\ \A q \in Pid : sig[q] => q = p
    /\ \E s \in Slot : /\ critical_shmem_lock = s /\ pid_num[idx[s]] = s
                       /\ pc[s] \in {"incload", "incstore", "spin"}

\* ... and a loop posts its message in its first turn or never.  Until the one
\* receiver has counted down the count is 1, or 0 and about to be.
PostAt(s) ==
    /\ pc[s] \in BeforePost => num[s] = 0 /\ Unposted(s)
    /\ pc[s] = "search" /\ num[s] = 0 => Unposted(s)
    /\ pc[s] \in {"incload", "incstore"} =>
           num[s] = 0 /\ pid_ret[s] = 0 /\ ~Unposted(s)
    /\ pc[s] = "spin" => num[s] = 0 /\ (pid_ret[s] < 0 => Unposted(s))
    /\ pc[s] = "kill" => pid_num[idx[s]] = s
    /\ Unposted(s) =>
           count[s] = 0 /\ (shm[s].mode = "BLOCK_RETURN" /\ shm[s].ok => brought[s])

PendingAt(s, p) == Pending(s, p) =>
    /\ pc[s] \in AfterPost /\ ~Unposted(s)
    /\ count[s] = IF pc[s] \in {"incload", "incstore"} THEN 0 ELSE 1
    /\ pc[s] = "incstore" => tmp[s] = 0
    /\ ~(InCell(s, p) /\ InHand(s, p))
    /\ \A q \in Pid : Pending(s, q) => q = p

OneAt(s) == PostAt(s) /\ \A p \in Pid : PendingAt(s, p)

OneInv == EntriesOK /\ RequestsOK /\ SignalsOK /\ \A s \in Slot : OneAt(s)

\* With one receiver and no collisions a chain has one entry at most ...
LEMMA ShortChain ==
    ASSUME EntriesOK, Distinct, OneReceiver, NEW k \in Msg
    PROVE  Len(Chain(k)) <= 1
<1>1. emi_hash(k) \in Bucket /\ Chain(k) = msg_table[emi_hash(k)]
  BY HashType DEF Chain
<1>2. Chain(k) \in Seq(Node)
  BY <1>1 DEF EntriesOK, TableInv, TableTypeOK
<1>3. \A i \in DOMAIN Chain(k) :
         heap[Chain(k)[i]] \in MsgMap /\ emi_hash(heap[Chain(k)[i]].msg) = emi_hash(k)
  BY <1>1 DEF EntriesOK, TableInv, NodesInPlace
<1>4. \A i \in DOMAIN Chain(k) :
         /\ heap[Chain(k)[i]].msg = k /\ heap[Chain(k)[i]].pid \in Pid
         /\ k \in Interest[heap[Chain(k)[i]].pid]
  BY <1>2, <1>3, FreedAssumption DEF MsgMap, Distinct, EntriesOK
<1>5. \A i, j \in DOMAIN Chain(k) : heap[Chain(k)[i]].pid = heap[Chain(k)[j]].pid
  BY <1>4 DEF OneReceiver
<1>6. \A i, j \in DOMAIN Chain(k) : heap[Chain(k)[i]] = heap[Chain(k)[j]]
  BY <1>3, <1>4, <1>5 DEF MsgMap
<1>7. \A i, j \in DOMAIN Chain(k) : i = j
  BY <1>1, <1>6 DEF EntriesOK, TableInv, MapsDiffer
<1>8. Len(Chain(k)) \in Nat /\ DOMAIN Chain(k) = 1 .. Len(Chain(k))
  BY <1>2
<1>9. ASSUME Len(Chain(k)) > 1 PROVE FALSE
  <2>1. 1 \in DOMAIN Chain(k) /\ 2 \in DOMAIN Chain(k)
    BY <1>8, <1>9
  <2>. QED BY <1>7, <2>1
<1>. QED BY <1>8, <1>9

\* ... so that the second search of a loop finds nothing.
LEMMA SecondSearch ==
    ASSUME EntriesOK, Distinct, OneReceiver, NEW k \in Msg, NEW i \in Nat, i > 0
    PROVE  __emi_hsearch(k, i) = NoNode
<1>1. Len(Chain(k)) <= 1 /\ Chain(k) \in Seq(Node)
  BY ShortChain, HashType DEF Chain, EntriesOK, TableInv, TableTypeOK
<1>2. {j \in Matches(Chain(k), k) : j > i} = {}
  BY <1>1 DEF Matches
<1>. QED BY <1>2 DEF __emi_hsearch

\* A step that leaves a slot and its message alone, with all cells or with none
\* that is the slot's.
LEMMA SlotFrame ==
    ASSUME NEW t \in Slot, OneAt(t),
           pc'[t] = pc[t], num'[t] = num[t], posted'[t] = posted[t],
           brought'[t] = brought[t],
           count'[t] = count[t], shm'[t] = shm[t], pid_ret'[t] = pid_ret[t],
           tmp'[t] = tmp[t], idx'[t] = idx[t],
           \A p \in Pid : InHand(t, p)' => InHand(t, p),
           \A p \in Pid : InCell(t, p)' => InCell(t, p),
           pc[t] = "kill" => pid_num' = pid_num
    PROVE  OneAt(t)'
BY DEF OneAt, PostAt, PendingAt, Pending, Unposted, InCell

\* A step that leaves the table and the requests alone.
LEMMA TableFrame ==
    ASSUME UNCHANGED <<msg_table, heap>>, EntriesOK
    PROVE  EntriesOK'
BY DEF EntriesOK, TableInv, TableTypeOK, NodesInPlace, MapsDiffer

LEMMA RequestFrame ==
    ASSUME RequestsOK, UNCHANGED shm,
           \A t \in Slot : pc'[t] = pc[t] \/ pc'[t] \notin {"exsearch", "exwrite"}
    PROVE  RequestsOK'
BY DEF RequestsOK

LEMMA OneInit ==
    ASSUME Init
    PROVE  OneInv
<1>1. EntriesOK
  BY TableInitType
     DEF Init, TableInit, EntriesOK, TableInv, NodesInPlace, MapsDiffer
<1>2. ASSUME NEW s \in Slot PROVE OneAt(s)
  <2>1. \A p \in Pid : ~Pending(s, p)
    BY SlotAssumption DEF Init, Pending, InCell, InHand
  <2>2. PostAt(s)
    BY DEF Init, PostAt, BeforePost, Unposted, ZeroHeader
  <2>. QED BY <2>1, <2>2 DEF OneAt, PendingAt
<1>. QED BY <1>1, <1>2 DEF OneInv, RequestsOK, SignalsOK, Init, ZeroHeader

LEMMA ServeOne ==
    ASSUME IndexInv, OneInv, NEW s \in Slot, Serve(s)
    PROVE  OneInv'
<1>1. /\ pc \in [Slot -> Label] /\ shm \in [Slot -> Header] /\ pc[s] = "idle"
      /\ count \in [Slot -> 0 .. COUNT_MOD - 1]
      /\ brought \in [Slot -> BOOLEAN]
      /\ UNCHANGED <<msg_table, heap, num, pid_ret, tmp, idx, posted, pid_num, proc, sig,
                     hpc, shmsg, critical_shmem_lock>>
  BY DEF Serve, ServeSend, ServeRegister, ShortData, ReadFails, tableVars, threadVars,
         localVars, handlerVars, IndexInv, TypeOK, ThreadTypeOK, ShmTypeOK, GhostTypeOK
<1>2. \/ pc' = [pc EXCEPT ![s] = "insert"]
      \/ pc' = [pc EXCEPT ![s] = "search"]
      \/ pc' = pc
  BY DEF Serve, ServeSend, ServeRegister, ShortData, ReadFails, threadVars, Dispatch,
         Goto
<1>. DEFINE Fresh == 
           /\ (shm'[s].ok => brought'[s]) /\ count'[s] = 0
           /\ shm'[s].cmd = "REGISTER" =>
                 /\ shm'[s].msg \in Interest[shm'[s].pid]
                 /\ shm'[s].mode = "BLOCK_RETURN" => "BLOCK_RETURN" \in RegMode
           /\ \A t \in Slot \ {s} : /\ shm'[t] = shm[t] /\ count'[t] = count[t]
                                    /\ brought'[t] = brought[t]
<1>3. UNCHANGED <<shm, count, brought>> \/ Fresh
  <2>1. CASE ReadFails(s)
    BY <2>1 DEF ReadFails
  <2>2. ASSUME NEW k \in SendMsg, NEW mode \in SendMode, NEW ok \in BOOLEAN,
               ServeSend(s, k, mode, ok) \/ ShortData(s, k, mode, ok)
        PROVE  Fresh
    <3>1. /\ shm' = [shm EXCEPT ![s] = SendHeader(k, mode, ok)]
          /\ count' = [count EXCEPT ![s] = 0] /\ brought' = [brought EXCEPT ![s] = ok]
      BY <2>2 DEF ServeSend, ShortData
    <3>2. SendHeader(k, mode, ok).ok = ok /\ SendHeader(k, mode, ok).cmd = "SEND"
      BY DEF SendHeader, ZeroHeader
    <3>. QED BY <1>1, <3>1, <3>2
  <2>3. ASSUME NEW q \in Pid, NEW k \in Msg, NEW mode \in RegMode,
               ServeRegister(s, q, k, mode)
        PROVE  Fresh
    <3>1. /\ shm' = [shm EXCEPT ![s] = RegisterHeader(q, k, mode)]
          /\ count' = [count EXCEPT ![s] = 0] /\ k \in Interest[q]
          /\ brought' = [brought EXCEPT ![s] = FALSE]
      BY <2>3 DEF ServeRegister
    <3>2. /\ RegisterHeader(q, k, mode).ok = FALSE
          /\ RegisterHeader(q, k, mode).msg = k
          /\ RegisterHeader(q, k, mode).pid = q
          /\ RegisterHeader(q, k, mode).mode = mode
      BY DEF RegisterHeader
    <3>. QED BY <1>1, <3>1, <3>2
  <2>. QED BY <2>1, <2>2, <2>3 DEF Serve, Carried
<1>4. EntriesOK'
  BY <1>1, TableFrame DEF OneInv
<1>5. RequestsOK'
  BY <1>1, <1>2, <1>3 DEF OneInv, RequestsOK
<1>6. SignalsOK'
  BY <1>1, <1>2 DEF OneInv, SignalsOK
<1>7. OneAt(s)'
  <2>1. PostAt(s)'
    BY <1>1, <1>2, <1>3 DEF OneInv, OneAt, PostAt, BeforePost, Unposted
  <2>2. \A p \in Pid : ~Pending(s, p)'
    BY <1>1, <1>2 DEF OneInv, OneAt, PendingAt, AfterPost, Pending, InCell, InHand
  <2>. QED BY <2>1, <2>2 DEF OneAt, PendingAt
<1>8. ASSUME NEW t \in Slot \ {s} PROVE OneAt(t)'
  BY <1>1, <1>2, <1>3, SlotFrame DEF OneInv, InHand, InCell
<1>. QED BY <1>4, <1>5, <1>6, <1>7, <1>8 DEF OneInv

\* The steps of a registration.
LEMMA RegistrationOne ==
    ASSUME IndexInv, OneReceiver, OneInv, NEW s \in Slot,
           InsertMap(s) \/ ExclusiveSearch(s) \/ ExclusiveWrite(s)
    PROVE  OneInv'
<1>1. /\ pc \in [Slot -> Label] /\ shm[s] \in Header
      /\ pc[s] \in {"insert", "exsearch", "exwrite"}
      /\ UNCHANGED <<num, pid_ret, tmp, idx, posted, brought, count, shm, pid_num, proc,
                     sig, hpc, shmsg, critical_shmem_lock>>
  BY DEF InsertMap, ExclusiveSearch, ExclusiveWrite, localVars, handlerVars,
         ghosts, IndexInv, TypeOK, ThreadTypeOK, ShmTypeOK
<1>2. /\ shm[s].cmd = "REGISTER" /\ shm[s].pid \in Pid
      /\ shm[s].msg \in Interest[shm[s].pid]
  BY <1>1 DEF IndexInv, HeadersOK, OneInv, RequestsOK
<1>3. PICK l \in {"ack", "exsearch", "exwrite"} : pc' = [pc EXCEPT ![s] = l]
  BY DEF InsertMap, ExclusiveSearch, ExclusiveWrite, Goto
<1>4. EntriesOK'
  <2>1. CASE InsertMap(s)
    <3>. DEFINE e == msg_map_fill(shm[s].msg, shm[s].pid)
    <3>1. e \in MsgMap /\ e.msg \in Interest[e.pid]
      BY <1>1, <1>2 DEF Header, msg_map_fill, MsgMap
    <3>2. emi_hinsert(e)
      BY <2>1 DEF InsertMap
    <3>. HIDE DEF e
    <3>3. \/ heap' = heap
          \/ \E n \in Node : heap' = [heap EXCEPT ![n] = e]
      BY <3>2 DEF emi_hinsert, __emi_hinsert, FreeNode, tableVars
    <3>4. \A n \in Node : heap'[n] # Freed => heap'[n].msg \in Interest[heap'[n].pid]
      BY <3>1, <3>3 DEF OneInv, EntriesOK, TableInv, TableTypeOK
    <3>. QED BY <3>1, <3>2, <3>4, InsertInv DEF OneInv, EntriesOK
  <2>2. CASE ExclusiveSearch(s)
    BY <2>2, TableFrame DEF ExclusiveSearch, OneInv, tableVars
  <2>3. CASE ExclusiveWrite(s)
    <3>1. m[s] \in Node /\ \A p \in Pid : shm[s].pid = p
      BY <1>2, <2>3
         DEF ExclusiveWrite, IndexInv, LocalsOK, HasNode, OneInv, RequestsOK, OneReceiver
    <3>2. heap[m[s]] # Freed => [heap[m[s]] EXCEPT !.pid = shm[s].pid] = heap[m[s]]
      BY <3>1 DEF OneInv, EntriesOK, TableInv, TableTypeOK, MsgMap
    <3>3. heap' = heap
      BY <2>3, <3>1, <3>2 DEF ExclusiveWrite, OneInv, EntriesOK, TableInv, TableTypeOK
    <3>. QED BY <2>3, <3>3, TableFrame DEF ExclusiveWrite, OneInv
  <2>. QED BY <2>1, <2>2, <2>3
<1>5. RequestsOK'
  <2>1. l # "ack" => "BLOCK_RETURN" \in RegMode
    <3>1. CASE InsertMap(s)
      BY <1>1, <1>2, <1>3, <3>1 DEF InsertMap, Goto, OneInv, RequestsOK
    <3>2. CASE ExclusiveSearch(s) \/ ExclusiveWrite(s)
      BY <3>2 DEF ExclusiveSearch, ExclusiveWrite, OneInv, RequestsOK
    <3>. QED BY <3>1, <3>2
  <2>. QED BY <1>1, <1>3, <2>1 DEF OneInv, RequestsOK
<1>6. SignalsOK'
  BY <1>1, <1>3 DEF OneInv, SignalsOK
<1>7. OneAt(s)'
  <2>1. PostAt(s)'
    BY <1>1, <1>3 DEF OneInv, OneAt, PostAt, BeforePost, Unposted
  <2>2. \A p \in Pid : ~Pending(s, p)'
    BY <1>1, <1>3 DEF OneInv, OneAt, PendingAt, AfterPost, Pending, InCell, InHand
  <2>. QED BY <2>1, <2>2 DEF OneAt, PendingAt
<1>8. ASSUME NEW t \in Slot \ {s} PROVE OneAt(t)'
  BY <1>1, <1>3, SlotFrame DEF OneInv, InHand, InCell
<1>. QED BY <1>4, <1>5, <1>6, <1>7, <1>8 DEF OneInv

\* A thread that ends: nobody has its message.
LEMMA LeaveOne ==
    ASSUME IndexInv, OneInv, NEW s \in Slot, Leave(s),
           pc[s] \in {"ack", "wait"}, count[s] = 0, NEW h,
           ~(h.mode = "BLOCK_RETURN" /\ h.ok),
           h.cmd = "REGISTER" => /\ h.msg \in Interest[h.pid]
                                 /\ h.mode = "BLOCK_RETURN" => "BLOCK_RETURN" \in RegMode,
           shm' = [shm EXCEPT ![s] = h],
           UNCHANGED <<msg_table, heap, count, pid_num, proc, sig, hpc, shmsg,
                       critical_shmem_lock>>
    PROVE  OneInv'
<1>1. /\ pc \in [Slot -> Label] /\ shm \in [Slot -> Header]
      /\ num \in [Slot -> Nat] /\ pid_ret \in [Slot -> {-1, 0}]
      /\ tmp \in [Slot -> 0 .. COUNT_MOD - 1] /\ posted \in [Slot -> [Pid -> Nat]]
      /\ idx \in [Slot -> Pid \cup {NoPid}]
  BY DEF IndexInv, TypeOK, ThreadTypeOK, ShmTypeOK, GhostTypeOK
<1>2. /\ pc'[s] = "idle" /\ num'[s] = 0 /\ posted'[s] = [p \in Pid |-> 0]
      /\ shm'[s] = h
      /\ \A t \in Slot \ {s} :
            /\ pc'[t] = pc[t] /\ num'[t] = num[t] /\ posted'[t] = posted[t]
            /\ brought'[t] = brought[t]
            /\ shm'[t] = shm[t] /\ pid_ret'[t] = pid_ret[t] /\ tmp'[t] = tmp[t]
            /\ idx'[t] = idx[t]
  BY <1>1 DEF Leave, Goto
<1>3. EntriesOK'
  BY TableFrame DEF OneInv
<1>4. \A p \in Pid : ~Pending(s, p)
  BY DEF OneInv, OneAt, PendingAt, AfterPost
<1>5. RequestsOK'
  BY <1>1, <1>2 DEF OneInv, RequestsOK
<1>6. SignalsOK'
  <2>1. critical_shmem_lock # s
    BY DEF IndexInv, LockOK, Critical
  <2>. QED BY <1>2, <2>1 DEF OneInv, SignalsOK
<1>7. OneAt(s)'
  <2>1. PostAt(s)'
    BY <1>2 DEF PostAt, BeforePost, Unposted
  <2>2. \A p \in Pid : ~Pending(s, p)'
    BY <1>2, <1>4 DEF Pending, InCell, InHand
  <2>. QED BY <2>1, <2>2 DEF OneAt, PendingAt
<1>8. ASSUME NEW t \in Slot \ {s} PROVE OneAt(t)'
  BY <1>2, SlotFrame DEF OneInv, InHand, InCell
<1>. QED BY <1>3, <1>5, <1>6, <1>7, <1>8 DEF OneInv

LEMMA AckOne ==
    ASSUME IndexInv, OneInv, NEW s \in Slot, Ack(s)
    PROVE  OneInv'
<1>. DEFINE h == [shm[s] EXCEPT !.cmd = "SEND", !.mode = "NONE", !.ok = TRUE]
<1>1. /\ pc[s] = "ack" /\ Leave(s) /\ shm' = [shm EXCEPT ![s] = h]
      /\ UNCHANGED <<msg_table, heap, count, pid_num, proc, sig, hpc, shmsg,
                     critical_shmem_lock>>
  BY DEF Ack, tableVars, handlerVars
<1>2. h.mode = "NONE" /\ h.cmd = "SEND"
  BY DEF IndexInv, TypeOK, ShmTypeOK, Header
<1>3. count[s] = 0
  BY <1>1 DEF OneInv, OneAt, PostAt, BeforePost
<1>. HIDE DEF h
<1>. QED BY <1>1, <1>2, <1>3, LeaveOne

\* A message nobody has counted down is not finished: its count is 1.
LEMMA FinishOne ==
    ASSUME IndexInv, OneInv, NEW s \in Slot, Finish(s)
    PROVE  OneInv'
<1>. DEFINE h == IF shm[s].mode = "BLOCK_RETURN" /\ shm[s].ok
                 THEN [shm[s] EXCEPT !.mode = "NONE"] ELSE shm[s]
<1>1. shm \in [Slot -> Header]
  BY DEF IndexInv, TypeOK, ShmTypeOK
<1>2. /\ pc[s] = "wait" /\ Leave(s) /\ shm' = [shm EXCEPT ![s] = h] /\ count[s] = 0
      /\ UNCHANGED <<msg_table, heap, count, pid_num, proc, sig, hpc, shmsg,
                     critical_shmem_lock>>
  BY <1>1 DEF Finish, tableVars, handlerVars
<1>3. ~(h.mode = "BLOCK_RETURN" /\ h.ok)
  BY <1>1 DEF Header
<1>4. h.cmd = "REGISTER" => /\ h.msg \in Interest[h.pid]
                            /\ h.mode = "BLOCK_RETURN" => "BLOCK_RETURN" \in RegMode
  BY <1>1 DEF Header, OneInv, RequestsOK
<1>. HIDE DEF h
<1>. QED BY <1>2, <1>3, <1>4, LeaveOne

\* The first search finds the entry or nothing, the second nothing.
LEMMA SearchOne ==
    ASSUME IndexInv, Distinct, OneReceiver, OneInv, NEW s \in Slot, Search(s)
    PROVE  OneInv'
<1>1. /\ pc \in [Slot -> Label] /\ m \in [Slot -> Node \cup {NoNode}]
      /\ shm[s].msg \in Msg /\ num[s] \in Nat /\ pc[s] = "search"
      /\ m' = [m EXCEPT ![s] = __emi_hsearch(shm[s].msg, num[s])]
      /\ UNCHANGED <<msg_table, heap, num, pid_ret, tmp, idx, posted, brought, count,
                     shm, pid_num, proc, sig, hpc, shmsg, critical_shmem_lock>>
  BY DEF Search, tableVars, handlerVars, ghosts, IndexInv, TypeOK, ThreadTypeOK,
         ShmTypeOK, Header
<1>2. \/ pc' = [pc EXCEPT ![s] = "wait"]
      \/ pc' = [pc EXCEPT ![s] = "index"] /\ num[s] = 0
  <2>1. num[s] # 0 => m'[s] = NoNode
    BY <1>1, SecondSearch DEF OneInv
  <2>. QED BY <2>1 DEF Search, Goto
<1>3. EntriesOK' /\ RequestsOK'
  BY <1>1, <1>2, TableFrame, RequestFrame DEF OneInv
<1>4. SignalsOK'
  BY <1>1, <1>2 DEF OneInv, SignalsOK
<1>5. OneAt(s)'
  <2>1. PostAt(s)'
    BY <1>1, <1>2 DEF OneInv, OneAt, PostAt, BeforePost, Unposted
  <2>2. num[s] = 0 => Unposted(s)
    BY <1>1 DEF OneInv, OneAt, PostAt
  <2>3. \A p \in Pid : PendingAt(s, p)'
    BY <1>1, <1>2, <2>2
       DEF OneInv, OneAt, PendingAt, AfterPost, Pending, InCell, InHand, Unposted
  <2>. QED BY <2>1, <2>3 DEF OneAt
<1>6. ASSUME NEW t \in Slot \ {s} PROVE OneAt(t)'
  BY <1>1, <1>2, SlotFrame DEF OneInv, InHand, InCell
<1>. QED BY <1>3, <1>4, <1>5, <1>6 DEF OneInv

LEMMA IndexOne ==
    ASSUME IndexInv, OneInv, NEW s \in Slot, Index(s)
    PROVE  OneInv'
<1>1. /\ pc \in [Slot -> Label] /\ pc[s] = "index" /\ idx \in [Slot -> Pid \cup {NoPid}]
      /\ pc' = [pc EXCEPT ![s] = "lock"] /\ \A t \in Slot \ {s} : idx'[t] = idx[t]
      /\ UNCHANGED <<msg_table, heap, num, pid_ret, tmp, posted, brought, count, shm,
                     pid_num, proc, sig, hpc, shmsg, critical_shmem_lock>>
  BY DEF Index, Goto, tableVars, handlerVars, ghosts, IndexInv, TypeOK, ThreadTypeOK
<1>2. EntriesOK' /\ RequestsOK'
  BY <1>1, TableFrame, RequestFrame DEF OneInv
<1>3. SignalsOK'
  BY <1>1 DEF OneInv, SignalsOK
<1>4. OneAt(s)'
  <2>1. PostAt(s)'
    BY <1>1 DEF OneInv, OneAt, PostAt, BeforePost, Unposted
  <2>2. \A p \in Pid : ~Pending(s, p)'
    BY <1>1 DEF OneInv, OneAt, PendingAt, AfterPost, Pending, InCell, InHand
  <2>. QED BY <2>1, <2>2 DEF OneAt, PendingAt
<1>5. ASSUME NEW t \in Slot \ {s} PROVE OneAt(t)'
  BY <1>1, SlotFrame DEF OneInv, InHand, InCell
<1>. QED BY <1>2, <1>3, <1>4, <1>5 DEF OneInv

\* The cells are empty when the lock is free.
LEMMA LockOne ==
    ASSUME IndexInv, OneInv, NEW s \in Slot, Lock(s)
    PROVE  OneInv'
<1>1. /\ pc \in [Slot -> Label] /\ pid_num \in [Pid -> Slot \cup {NoSlot}]
      /\ pc[s] = "lock" /\ critical_shmem_lock = NoSlot /\ idx[s] \in Pid
      /\ pc' = [pc EXCEPT ![s] = "kill"]
      /\ pid_num' = [pid_num EXCEPT ![idx[s]] = s]
      /\ UNCHANGED <<msg_table, heap, num, pid_ret, tmp, idx, posted, brought, count,
                     shm, proc, sig, hpc, shmsg>>
  BY DEF Lock, Goto, tableVars, localVars, handlerVars, ghosts, IndexInv, TypeOK,
         ThreadTypeOK, ShmTypeOK, LocalsOK, HasCell
<1>2. \A p \in Pid : pid_num[p] = NoSlot /\ ~sig[p]
  BY <1>1, SlotAssumption
     DEF IndexInv, IndexDiscipline, TypeOK, ShmTypeOK, OneInv, SignalsOK
<1>3. \A t \in Slot : pc[t] \notin Critical
  BY <1>1, SlotAssumption DEF IndexInv, LockOK
<1>4. EntriesOK' /\ RequestsOK' /\ SignalsOK'
  BY <1>1, <1>2, TableFrame, RequestFrame DEF OneInv, SignalsOK
<1>5. OneAt(s)'
  <2>1. PostAt(s)'
    BY <1>1 DEF OneInv, OneAt, PostAt, BeforePost, Unposted
  <2>2. \A p \in Pid : ~Pending(s, p)'
    BY <1>1 DEF OneInv, OneAt, PendingAt, AfterPost, Pending, InCell, InHand
  <2>. QED BY <2>1, <2>2 DEF OneAt, PendingAt
<1>6. ASSUME NEW t \in Slot \ {s} PROVE OneAt(t)'
  <2>1. \A p \in Pid : pid_num'[p] # t
    BY <1>1, <1>2, SlotAssumption
  <2>2. pc[t] # "kill" /\ pc'[t] = pc[t]
    BY <1>1, <1>3 DEF Critical
  <2>. QED BY <1>1, <2>1, <2>2, SlotFrame DEF OneInv, InHand, InCell
<1>. QED BY <1>4, <1>5, <1>6 DEF OneInv

\* The one post of a message, to whomever: its count is still 0.
LEMMA KillOne ==
    ASSUME IndexInv, OneInv, NEW s \in Slot, Kill(s)
    PROVE  OneInv'
<1>1. /\ pc \in [Slot -> Label] /\ pid_num \in [Pid -> Slot \cup {NoSlot}]
      /\ posted \in [Slot -> [Pid -> Nat]] /\ pid_ret \in [Slot -> {-1, 0}]
      /\ sig \in [Pid -> BOOLEAN]
      /\ pc[s] = "kill" /\ idx[s] \in Pid /\ m[s] \in Node /\ critical_shmem_lock = s
      /\ UNCHANGED <<msg_table, heap, num, tmp, idx, brought, count, shm, proc, hpc,
                     shmsg, critical_shmem_lock>>
  BY DEF Kill, tableVars, handlerVars, IndexInv, TypeOK, LockOK,
         ThreadTypeOK, ShmTypeOK, ProcTypeOK, GhostTypeOK, LocalsOK, HasCell, HasNode,
         Critical
<1>2. /\ pid_num[idx[s]] = s /\ Unposted(s) /\ num[s] = 0 /\ count[s] = 0
      /\ \A p \in Pid : ~InHand(s, p) /\ ~sig[p]
      /\ \A p \in Pid : pid_num[p] # NoSlot => p = idx[s]
  BY <1>1 DEF OneInv, OneAt, PostAt, PendingAt, SignalsOK, BeforePost, AfterPost,
              Pending, IndexInv, IndexDiscipline
<1>3. \A e \in ReadNode(m[s]) : e.pid \in Pid
  BY <1>1, ReadType DEF OneInv, EntriesOK, TableInv, MsgMap
<1>4. \/ /\ pc' = [pc EXCEPT ![s] = "incload"]
         /\ \E q \in Pid : /\ posted' = [posted EXCEPT ![s][q] = @ + 1]
                           /\ sig' = [sig EXCEPT ![q] = (proc[q] = "live")]
         /\ pid_ret' = [pid_ret EXCEPT ![s] = 0]
         /\ UNCHANGED pid_num
      \/ /\ pc' = [pc EXCEPT ![s] = "spin"]
         /\ pid_ret' = [pid_ret EXCEPT ![s] = -1]
         /\ pid_num' = [pid_num EXCEPT ![idx[s]] = NoSlot]
         /\ UNCHANGED <<sig, posted>>
  BY <1>3 DEF Kill, Goto
<1>5. EntriesOK' /\ RequestsOK'
  BY <1>1, <1>4, TableFrame, RequestFrame DEF OneInv
<1>6. SignalsOK'
  BY <1>1, <1>2, <1>4 DEF SignalsOK
<1>7. OneAt(s)'
  <2>1. CASE pc' = [pc EXCEPT ![s] = "incload"]
    <3>1. pid_ret'[s] = 0 /\ UNCHANGED pid_num /\ pc'[s] = "incload"
      BY <1>1, <1>4, <2>1
    <3>2. ~Unposted(s)'
      <4>1. PICK q \in Pid : posted' = [posted EXCEPT ![s][q] = @ + 1]
        BY <1>1, <1>4, <2>1
      <4>2. posted'[s][q] # 0
        BY <1>1, <4>1
      <4>. QED BY <4>2 DEF Unposted
    <3>3. PostAt(s)'
      BY <1>1, <1>2, <3>1, <3>2 DEF PostAt, BeforePost
    <3>4. \A p \in Pid : PendingAt(s, p)'
      BY <1>1, <1>2, <3>1, <3>2, SlotAssumption
         DEF PendingAt, AfterPost, Pending, InCell, InHand
    <3>. QED BY <3>3, <3>4 DEF OneAt
  <2>2. CASE pc' = [pc EXCEPT ![s] = "spin"]
    <3>1. /\ pid_ret'[s] = -1 /\ UNCHANGED posted /\ pc'[s] = "spin"
          /\ pid_num' = [pid_num EXCEPT ![idx[s]] = NoSlot]
      BY <1>1, <1>4, <2>2
    <3>2. PostAt(s)'
      BY <1>1, <1>2, <3>1 DEF PostAt, BeforePost, OneInv, OneAt, Unposted
    <3>3. \A p \in Pid : ~Pending(s, p)'
      BY <1>1, <1>2, <3>1, SlotAssumption DEF Pending, InCell, InHand
    <3>. QED BY <3>2, <3>3 DEF OneAt, PendingAt
  <2>. QED BY <1>4, <2>1, <2>2
<1>8. ASSUME NEW t \in Slot \ {s} PROVE OneAt(t)'
  <2>1. pc[t] # "kill"
    BY <1>1 DEF IndexInv, LockOK, Critical
  <2>2. /\ pc'[t] = pc[t] /\ posted'[t] = posted[t] /\ pid_ret'[t] = pid_ret[t]
        /\ \A p \in Pid : pid_num'[p] # t
    BY <1>1, <1>2, <1>4, SlotAssumption
  <2>. QED BY <1>1, <2>1, <2>2, SlotFrame DEF OneInv, InHand, InCell
<1>. QED BY <1>5, <1>6, <1>7, <1>8 DEF OneInv

\* count++ reads 0 while the message is pending ...
LEMMA IncLoadOne ==
    ASSUME IndexInv, OneInv, NEW s \in Slot, IncLoad(s)
    PROVE  OneInv'
<1>1. /\ pc \in [Slot -> Label] /\ pc[s] = "incload"
      /\ tmp \in [Slot -> 0 .. COUNT_MOD - 1]
      /\ pc' = [pc EXCEPT ![s] = "incstore"]
      /\ tmp' = [tmp EXCEPT ![s] = count[s]]
      /\ UNCHANGED <<msg_table, heap, num, pid_ret, idx, posted, brought, count, shm,
                     pid_num, proc, sig, hpc, shmsg, critical_shmem_lock>>
  BY DEF IncLoad, Goto, tableVars, handlerVars, ghosts, IndexInv, TypeOK, ThreadTypeOK
<1>2. EntriesOK' /\ RequestsOK'
  BY <1>1, TableFrame, RequestFrame DEF OneInv
<1>3. SignalsOK'
  BY <1>1 DEF OneInv, SignalsOK
<1>4. OneAt(s)'
  <2>1. PostAt(s)'
    BY <1>1 DEF OneInv, OneAt, PostAt, BeforePost, Unposted
  <2>2. \A p \in Pid : PendingAt(s, p)'
    BY <1>1 DEF OneInv, OneAt, PendingAt, AfterPost, Pending, InCell, InHand, Unposted
  <2>. QED BY <2>1, <2>2 DEF OneAt
<1>5. ASSUME NEW t \in Slot \ {s} PROVE OneAt(t)'
  BY <1>1, SlotFrame DEF OneInv, InHand, InCell
<1>. QED BY <1>2, <1>3, <1>4, <1>5 DEF OneInv

\* ... and writes 1.
LEMMA IncStoreOne ==
    ASSUME IndexInv, OneInv, NEW s \in Slot, IncStore(s)
    PROVE  OneInv'
<1>1. /\ pc \in [Slot -> Label] /\ pc[s] = "incstore"
      /\ count \in [Slot -> 0 .. COUNT_MOD - 1]
      /\ pc' = [pc EXCEPT ![s] = "spin"]
      /\ count' = [count EXCEPT ![s] = (tmp[s] + 1) % COUNT_MOD]
      /\ UNCHANGED <<msg_table, heap, num, pid_ret, tmp, idx, posted, brought, shm,
                     pid_num, proc, sig, hpc, shmsg, critical_shmem_lock>>
  BY DEF IncStore, Goto, tableVars, localVars, handlerVars, ghosts, IndexInv, TypeOK,
         ThreadTypeOK, ShmTypeOK
<1>2. tmp[s] = 0 => count'[s] = 1
  <2>1. 1 % COUNT_MOD = 1
    BY CountAssumption
  <2>2. tmp[s] = 0 => (tmp[s] + 1) % COUNT_MOD = 1 % COUNT_MOD
    OBVIOUS
  <2>. QED BY <1>1, <2>1, <2>2
<1>3. EntriesOK' /\ RequestsOK'
  BY <1>1, TableFrame, RequestFrame DEF OneInv
<1>4. SignalsOK'
  BY <1>1 DEF OneInv, SignalsOK
<1>5. OneAt(s)'
  <2>1. ~Unposted(s)
    BY <1>1 DEF OneInv, OneAt, PostAt
  <2>2. PostAt(s)'
    BY <1>1, <2>1 DEF OneInv, OneAt, PostAt, BeforePost, Unposted
  <2>3. \A p \in Pid : PendingAt(s, p)'
    BY <1>1, <1>2
       DEF OneInv, OneAt, PendingAt, AfterPost, Pending, InCell, InHand, Unposted
  <2>. QED BY <2>2, <2>3 DEF OneAt
<1>6. ASSUME NEW t \in Slot \ {s} PROVE OneAt(t)'
  BY <1>1, SlotFrame DEF OneInv, InHand, InCell
<1>. QED BY <1>3, <1>4, <1>5, <1>6 DEF OneInv

\* The thread's cell is empty, so that no signal is pending.
LEMMA SpinEndsOne ==
    ASSUME IndexInv, OneInv, NEW s \in Slot, SpinEnds(s)
    PROVE  OneInv'
<1>1. /\ pc \in [Slot -> Label] /\ pc[s] = "spin" /\ critical_shmem_lock = s
      /\ num \in [Slot -> Nat] /\ pid_ret \in [Slot -> {-1, 0}]
      /\ pid_num[idx[s]] = NoSlot
      /\ UNCHANGED <<msg_table, heap, pid_ret, tmp, idx, posted, brought, count, shm,
                     pid_num, proc, sig, hpc, shmsg>>
  BY DEF SpinEnds, tableVars, handlerVars, ghosts, IndexInv, TypeOK, ThreadTypeOK,
         LockOK, Critical
<1>2. \/ /\ pid_ret[s] < 0 /\ pc' = [pc EXCEPT ![s] = "delete"] /\ num' = num
      \/ /\ pid_ret[s] >= 0 /\ pc' = [pc EXCEPT ![s] = "search"]
         /\ num' = [num EXCEPT ![s] = @ + 1]
  BY DEF SpinEnds, Goto
<1>3. \A p \in Pid : ~sig[p]
  BY <1>1, SlotAssumption DEF OneInv, SignalsOK
<1>4. EntriesOK' /\ RequestsOK' /\ SignalsOK'
  BY <1>1, <1>2, <1>3, TableFrame, RequestFrame DEF OneInv, SignalsOK
<1>5. OneAt(s)'
  <2>1. PostAt(s)'
    BY <1>1, <1>2 DEF OneInv, OneAt, PostAt, BeforePost, Unposted
  <2>2. pid_ret[s] < 0 => Unposted(s)
    BY <1>1 DEF OneInv, OneAt, PostAt
  <2>3. \A p \in Pid : PendingAt(s, p)'
    BY <1>1, <1>2, <2>2
       DEF OneInv, OneAt, PendingAt, AfterPost, Pending, InCell, InHand, Unposted
  <2>. QED BY <2>1, <2>3 DEF OneAt
<1>6. ASSUME NEW t \in Slot \ {s} PROVE OneAt(t)'
  BY <1>1, <1>2, SlotFrame DEF OneInv, InHand, InCell
<1>. QED BY <1>4, <1>5, <1>6 DEF OneInv

\* The entry of a process that is gone, or what its node holds now, is deleted
\* without a post.
LEMMA DeleteMapOne ==
    ASSUME IndexInv, OneInv, NEW s \in Slot, DeleteMap(s)
    PROVE  OneInv'
<1>1. /\ pc \in [Slot -> Label] /\ pc[s] = "delete" /\ m[s] \in Node
      /\ num \in [Slot -> Nat]
      /\ pc' = [pc EXCEPT ![s] = "search"]
      /\ num' = [num EXCEPT ![s] = @ + 1]
      /\ UNCHANGED <<pid_ret, tmp, idx, posted, brought, count, shm, pid_num, proc, sig,
                     hpc, shmsg, critical_shmem_lock>>
  BY DEF DeleteMap, Goto, handlerVars, ghosts, IndexInv, TypeOK, ThreadTypeOK,
         LocalsOK, HasNode
<1>2. EntriesOK'
  <2>1. PICK e \in ReadNode(m[s]) : emi_hdelete(e)
    BY DEF DeleteMap
  <2>2. e \in MsgMap
    BY <1>1, ReadType DEF OneInv, EntriesOK, TableInv
  <2>3. heap' = heap \/ \E n \in Node : heap' = [heap EXCEPT ![n] = Freed]
    <3>. DEFINE b == emi_hash(e.msg)
                same == Occurrences(msg_table[b], e)
    <3>1. b \in Bucket
      BY <2>2, HashType DEF MsgMap
    <3>2. msg_table[b] \in Seq(Node)
      BY <3>1 DEF OneInv, EntriesOK, TableInv, TableTypeOK
    <3>3. CASE same = {}
      BY <2>1, <3>3 DEF emi_hdelete, tableVars
    <3>4. CASE same # {}
      <4>1. same \in SUBSET Nat /\ same \subseteq DOMAIN msg_table[b]
        BY <3>2 DEF Occurrences
      <4>2. Min(same) \in same
        BY <3>4, <4>1, MinProperties
      <4>3. msg_table[b][Min(same)] \in Node
        BY <3>2, <4>1, <4>2
      <4>. QED BY <2>1, <3>4, <4>3 DEF emi_hdelete
    <3>. QED BY <3>3, <3>4
  <2>4. \A n \in Node : heap'[n] # Freed => heap'[n].msg \in Interest[heap'[n].pid]
    BY <2>3 DEF OneInv, EntriesOK, TableInv, TableTypeOK
  <2>5. TableInv'
    BY <2>1, <2>2, DeleteInv DEF OneInv, EntriesOK
  <2>. QED BY <2>4, <2>5 DEF EntriesOK
<1>3. RequestsOK' /\ SignalsOK'
  BY <1>1, RequestFrame DEF OneInv, SignalsOK
<1>4. OneAt(s)'
  <2>1. PostAt(s)'
    BY <1>1 DEF OneInv, OneAt, PostAt, BeforePost, Unposted
  <2>2. \A p \in Pid : ~Pending(s, p)'
    BY <1>1 DEF OneInv, OneAt, PendingAt, AfterPost, Pending, InCell, InHand
  <2>. QED BY <2>1, <2>2 DEF OneAt, PendingAt
<1>5. ASSUME NEW t \in Slot \ {s} PROVE OneAt(t)'
  BY <1>1, SlotFrame DEF OneInv, InHand, InCell
<1>. QED BY <1>2, <1>3, <1>4, <1>5 DEF OneInv

LEMMA ThreadOne ==
    ASSUME IndexInv, Distinct, OneReceiver, OneInv, NEW s \in Slot, Thread(s)
    PROVE  OneInv'
BY RegistrationOne, AckOne, SearchOne, IndexOne, LockOne, KillOne, IncLoadOne,
   IncStoreOne, SpinEndsOne, DeleteMapOne, FinishOne DEF Thread

\* A message that goes from a cell to a handler is pending all along.  A handler
\* that was signalled through a dangling pointer finds nothing and leaves the
\* thread to its cell.
LEMMA PickupOne ==
    ASSUME IndexInv, OneInv, NEW p \in Pid, Pickup(p)
    PROVE  OneInv'
<1>1. /\ pid_num \in [Pid -> Slot \cup {NoSlot}] /\ sig[p] /\ hpc[p] = "main"
      /\ sig \in [Pid -> BOOLEAN] /\ shmsg \in [Pid -> Slot \cup {NoSlot}]
      /\ hpc \in [Pid -> {"main", "func", "decload", "decstore"}]
      /\ sig' = [sig EXCEPT ![p] = FALSE]
      /\ pid_num' = [pid_num EXCEPT ![p] = NoSlot]
      /\ shmsg' = [shmsg EXCEPT ![p] = pid_num[p]]
      /\ hpc' = [hpc EXCEPT ![p] = IF pid_num[p] = NoSlot THEN @ ELSE "func"]
      /\ UNCHANGED <<msg_table, heap, pc, num, pid_ret, tmp, idx, posted, brought,
                     count, shm, proc, critical_shmem_lock>>
  BY DEF Pickup, tableVars, threadVars, ghosts, IndexInv, TypeOK, ShmTypeOK, ProcTypeOK
<1>2. EntriesOK' /\ RequestsOK'
  BY <1>1, TableFrame, RequestFrame DEF OneInv
<1>3. SignalsOK'
  BY <1>1 DEF OneInv, SignalsOK
<1>4. \A t \in Slot : pc[t] # "kill"
  BY <1>1 DEF OneInv, SignalsOK, IndexInv, LockOK, Critical
<1>5. ASSUME NEW t \in Slot PROVE OneAt(t)'
  <2>1. PostAt(t)'
    BY <1>1, <1>4 DEF OneInv, OneAt, PostAt, Unposted
  <2>2. \A q \in Pid : Pending(t, q)' => Pending(t, q)
    BY <1>1, <1>4, SlotAssumption DEF Pending, InCell, InHand
  <2>3. \A q \in Pid : PendingAt(t, q)'
    <3>1. ~InCell(t, p)' /\ \A q \in Pid \ {p} : InCell(t, q)' = InCell(t, q)
                                                 /\ InHand(t, q)' = InHand(t, q)
      BY <1>1, SlotAssumption DEF InCell, InHand
    <3>. QED BY <1>1, <2>2, <3>1 DEF OneInv, OneAt, PendingAt, Unposted
  <2>. QED BY <2>1, <2>3 DEF OneAt
<1>. QED BY <1>2, <1>3, <1>5 DEF OneInv

\* The functions set SUCCEEDED of a message that is posted.
LEMMA HandleOne ==
    ASSUME IndexInv, OneInv, NEW p \in Pid, Handle(p)
    PROVE  OneInv'
<1>1. /\ shm \in [Slot -> Header] /\ shmsg[p] \in Slot /\ hpc[p] = "func"
      /\ hpc' = [hpc EXCEPT ![p] = "decload"]
      /\ \A t \in Slot \ {shmsg[p]} : shm'[t] = shm[t]
      /\ UNCHANGED <<msg_table, heap, pc, num, pid_ret, tmp, idx, posted, brought,
                     count, pid_num, proc, sig, shmsg, critical_shmem_lock>>
  BY DEF Handle, tableVars, threadVars, ghosts, IndexInv, HeadersOK, TypeOK, ShmTypeOK
<1>2. PICK s \in Slot : s = shmsg[p]
  BY <1>1
<1>3. /\ shm'[s].cmd = shm[s].cmd /\ shm'[s].msg = shm[s].msg
      /\ shm'[s].pid = shm[s].pid /\ shm'[s].mode = shm[s].mode
  <2>1. \A ok \in BOOLEAN : LET h == [shm[s] EXCEPT !.ok = ok]
                            IN  h.cmd = shm[s].cmd /\ h.msg = shm[s].msg
                                /\ h.pid = shm[s].pid /\ h.mode = shm[s].mode
    BY <1>1 DEF Header
  <2>2. CASE UNCHANGED shm
    BY <2>2
  <2>3. CASE \E ok \in BOOLEAN : shm' = [shm EXCEPT ![s].ok = ok]
    BY <1>1, <2>1, <2>3
  <2>. QED BY <1>2, <2>2, <2>3 DEF Handle
<1>4. EntriesOK'
  BY <1>1, TableFrame DEF OneInv
<1>5. RequestsOK'
  BY <1>1, <1>2, <1>3 DEF OneInv, RequestsOK
<1>6. SignalsOK'
  BY <1>1 DEF OneInv, SignalsOK
<1>7. \A t \in Slot, q \in Pid : InHand(t, q)' = InHand(t, q) /\ InCell(t, q)' = InCell(t, q)
  BY <1>1 DEF InHand, InCell, IndexInv, TypeOK, ProcTypeOK
<1>8. OneAt(s)'
  <2>1. ~Unposted(s)
    BY <1>1, <1>2 DEF OneInv, OneAt, PendingAt, Pending, InHand
  <2>2. PostAt(s)'
    BY <1>1, <2>1 DEF OneInv, OneAt, PostAt, Unposted
  <2>3. \A q \in Pid : PendingAt(s, q)'
    BY <1>1, <1>7 DEF OneInv, OneAt, PendingAt, Pending, Unposted
  <2>. QED BY <2>2, <2>3 DEF OneAt
<1>9. ASSUME NEW t \in Slot \ {s} PROVE OneAt(t)'
  BY <1>1, <1>2, <1>7, SlotFrame DEF OneInv
<1>. QED BY <1>4, <1>5, <1>6, <1>8, <1>9 DEF OneInv

LEMMA DecLoadOne ==
    ASSUME IndexInv, OneInv, NEW p \in Pid, DecLoad(p)
    PROVE  OneInv'
<1>1. /\ hpc[p] # "main" /\ hpc' = [hpc EXCEPT ![p] = "decstore"]
      /\ UNCHANGED <<msg_table, heap, pc, num, pid_ret, tmp, idx, posted, brought,
                     count, shm, pid_num, proc, sig, shmsg, critical_shmem_lock>>
  BY DEF DecLoad, tableVars, threadVars, ghosts
<1>2. EntriesOK' /\ RequestsOK' /\ SignalsOK'
  BY <1>1, TableFrame, RequestFrame DEF OneInv, SignalsOK
<1>3. ASSUME NEW t \in Slot PROVE OneAt(t)'
  BY <1>1, SlotFrame DEF OneInv, InHand, InCell, IndexInv, TypeOK, ProcTypeOK
<1>. QED BY <1>2, <1>3 DEF OneInv

\* Once the one receiver has counted down nobody has the message, whatever the
\* count is now.
LEMMA DecStoreOne ==
    ASSUME IndexInv, OneInv, NEW p \in Pid, DecStore(p)
    PROVE  OneInv'
<1>1. /\ shmsg[p] \in Slot /\ hpc[p] = "decstore"
      /\ hpc \in [Pid -> {"main", "func", "decload", "decstore"}]
      /\ hpc' = [hpc EXCEPT ![p] = "main"] /\ shmsg' = [shmsg EXCEPT ![p] = NoSlot]
      /\ \A t \in Slot \ {shmsg[p]} : count'[t] = count[t]
      /\ UNCHANGED <<msg_table, heap, pc, num, pid_ret, tmp, idx, posted, brought, shm,
                     pid_num, proc, sig, critical_shmem_lock>>
  BY DEF DecStore, tableVars, threadVars, ghosts, IndexInv, HeadersOK, TypeOK, ShmTypeOK,
         ProcTypeOK
<1>2. PICK s \in Slot : s = shmsg[p]
  BY <1>1
<1>3. EntriesOK' /\ RequestsOK' /\ SignalsOK'
  BY <1>1, TableFrame, RequestFrame DEF OneInv, SignalsOK
<1>4. /\ \A t \in Slot, q \in Pid : InHand(t, q)' => InHand(t, q)
      /\ \A t \in Slot, q \in Pid : InCell(t, q)' = InCell(t, q)
      /\ ~InHand(s, p)'
  BY <1>1 DEF InHand, InCell, IndexInv, TypeOK, ProcTypeOK
<1>5. OneAt(s)'
  <2>1. InHand(s, p)
    BY <1>1, <1>2 DEF InHand
  <2>2. ~Unposted(s) /\ ~InCell(s, p) /\ \A q \in Pid : Pending(s, q) => q = p
    BY <2>1 DEF OneInv, OneAt, PendingAt, Pending
  <2>3. PostAt(s)'
    BY <1>1, <2>2 DEF OneInv, OneAt, PostAt, Unposted
  <2>4. \A q \in Pid : ~Pending(s, q)'
    BY <1>4, <2>2 DEF Pending
  <2>. QED BY <2>3, <2>4 DEF OneAt, PendingAt
<1>6. ASSUME NEW t \in Slot \ {s} PROVE OneAt(t)'
  BY <1>1, <1>2, <1>4, SlotFrame DEF OneInv
<1>. QED BY <1>3, <1>5, <1>6 DEF OneInv

\* The library works on its list, which no delivery reads.
LEMMA LibraryOne ==
    ASSUME OneInv, NEW p \in Pid, Library(p) \/ \E k \in Msg : Unregister(p, k)
    PROVE  OneInv'
<1>1. UNCHANGED <<msg_table, heap, pc, num, pid_ret, tmp, idx, posted, brought, count,
                  shm, pid_num, proc, sig, hpc, shmsg, critical_shmem_lock>>
  BY DEF Library, ListAdd, SigAction, Unregister, tableVars, threadVars, handlerVars,
         ghosts
<1>2. EntriesOK' /\ RequestsOK' /\ SignalsOK'
  BY <1>1, TableFrame, RequestFrame DEF OneInv, SignalsOK
<1>3. ASSUME NEW t \in Slot PROVE OneAt(t)'
  BY <1>1, SlotFrame DEF OneInv, InHand, InCell
<1>. QED BY <1>2, <1>3 DEF OneInv

\* Who dies holds no message and gets no signal any more; what is in its cell
\* stays there ...
LEMMA DiesOne ==
    ASSUME IndexInv, OneInv, NEW p \in Pid, Dies(p)
    PROVE  OneInv'
<1>1. /\ hpc' = [hpc EXCEPT ![p] = "main"] /\ shmsg' = [shmsg EXCEPT ![p] = NoSlot]
      /\ sig' = [sig EXCEPT ![p] = FALSE] /\ proc' = [proc EXCEPT ![p] = "zombie"]
      /\ UNCHANGED <<msg_table, heap, pc, num, pid_ret, tmp, idx, posted, brought,
                     count, shm, pid_num, critical_shmem_lock>>
      /\ hpc \in [Pid -> {"main", "func", "decload", "decstore"}]
      /\ sig \in [Pid -> BOOLEAN] /\ proc \in [Pid -> {"live", "zombie", "gone"}]
      /\ shmsg \in [Pid -> Slot \cup {NoSlot}]
  BY DEF Dies, tableVars, threadVars, ghosts, IndexInv, TypeOK, ProcTypeOK
<1>2. EntriesOK' /\ RequestsOK'
  BY <1>1, TableFrame, RequestFrame DEF OneInv
<1>3. SignalsOK'
  BY <1>1 DEF OneInv, SignalsOK
<1>4. ASSUME NEW t \in Slot PROVE OneAt(t)'
  <2>1. \A q \in Pid : InHand(t, q)' => InHand(t, q)
    BY <1>1 DEF InHand
  <2>. QED BY <1>1, <2>1, SlotFrame DEF OneInv, InCell
<1>. QED BY <1>2, <1>3, <1>4 DEF OneInv

\* ... and its pid is given away without a signal.
LEMMA RebornOne ==
    ASSUME IndexInv, OneInv, NEW p \in Pid, Reap(p) \/ Recycle(p)
    PROVE  OneInv'
<1>1. /\ proc[p] # "live" /\ \A q \in Pid \ {p} : proc'[q] = proc[q]
      /\ UNCHANGED <<msg_table, heap, pc, num, pid_ret, tmp, idx, posted, brought,
                     count, shm, pid_num, sig, hpc, shmsg, critical_shmem_lock>>
  BY DEF Reap, Recycle, tableVars, threadVars, handlerVars, ghosts, IndexInv, TypeOK,
         ProcTypeOK
<1>2. EntriesOK' /\ RequestsOK'
  BY <1>1, TableFrame, RequestFrame DEF OneInv
<1>3. SignalsOK'
  BY <1>1 DEF OneInv, SignalsOK
<1>4. ASSUME NEW t \in Slot PROVE OneAt(t)'
  BY <1>1, SlotFrame DEF OneInv, InHand, InCell
<1>. QED BY <1>2, <1>3, <1>4 DEF OneInv

LEMMA NextOne ==
    ASSUME IndexInv, Distinct, OneReceiver, OneInv, [Next]_vars
    PROVE  OneInv'
<1>1. ASSUME NEW s \in Slot, Serve(s) \/ Thread(s) PROVE OneInv'
  BY <1>1, ServeOne, ThreadOne
<1>2. ASSUME NEW p \in Pid, Handler(p) PROVE OneInv'
  BY <1>2, PickupOne, HandleOne, DecLoadOne, DecStoreOne DEF Handler
<1>3. ASSUME NEW p \in Pid, Library(p) \/ Environment(p) PROVE OneInv'
  BY <1>3, LibraryOne, DiesOne, RebornOne DEF Environment, SigDefault, Crash
<1>4. CASE UNCHANGED vars
  <2>1. UNCHANGED <<msg_table, heap, pc, num, pid_ret, tmp, idx, posted, brought, count,
                    shm, pid_num, proc, sig, hpc, shmsg, critical_shmem_lock>>
    BY <1>4 DEF vars, tableVars, threadVars, handlerVars, ghosts
  <2>2. EntriesOK' /\ RequestsOK' /\ SignalsOK'
    BY <2>1, TableFrame, RequestFrame DEF OneInv, SignalsOK
  <2>3. ASSUME NEW t \in Slot PROVE OneAt(t)'
    BY <2>1, SlotFrame DEF OneInv, InHand, InCell
  <2>. QED BY <2>2, <2>3 DEF OneInv
<1>. QED BY <1>1, <1>2, <1>3, <1>4 DEF Next

\* OneInv holds in every state, whatever the environment does.
LEMMA OneInvCorrect ==
    ASSUME Distinct, OneReceiver
    PROVE  Spec => []OneInv
<1>1. Init => OneInv
  BY OneInit
<1>2. IndexInv /\ OneInv /\ [Next]_vars => OneInv'
  BY NextOne
<1>. QED BY <1>1, <1>2, IndexInvCorrect, PTL DEF Spec

\* Where each message has one receiver, and no two messages share a bucket, a slot
\* is not back in the pool while a handler works on the message in it, whatever
\* crashes, is reset or comes back (emi_core.c:472-476).
THEOREM NoEarlyReleaseCorrect ==
    ASSUME Distinct, OneReceiver
    PROVE  Spec => []NoEarlyRelease
<1>1. IndexInv /\ OneInv => NoEarlyRelease
  BY DEF NoEarlyRelease, IndexInv, HeadersOK, OneInv, OneAt, PendingAt, Pending, InHand,
         AfterPost
<1>. QED BY <1>1, OneInvCorrect, IndexInvCorrect, PTL

\* There the sender of a BLOCK_RETURN message is told of success only if some
\* process was posted to (emi_core.c:487-495), or its message had SUCCEEDED when
\* it came, as one does that is sent again (emi_if.c:194).
THEOREM SuccessHasReceiverCorrect ==
    ASSUME Distinct, OneReceiver
    PROVE  Spec => []SuccessHasReceiver
<1>1. IndexInv /\ OneInv => SuccessHasReceiver
  BY DEF SuccessHasReceiver, IndexInv, TypeOK, GhostTypeOK, OneInv, OneAt, PostAt,
         Unposted
<1>. QED BY <1>1, OneInvCorrect, IndexInvCorrect, PTL

-----------------------------------------------------------------------------
(***************************************************************************)
(* Proofs about EmiCore where nobody dies, connections hold, registrations *)
(* are the library's, and no message is sent before those who register it  *)
(* are ready.  OrderInv says what that gives: every entry of the table is  *)
(* of a process that asked for it (EntriesOK), who gets SIGUSR2 is alive   *)
(* and has a handler (PeopleOK), and a thread's pointer, cell and signal   *)
(* belong together on its way through the loop (ThreadsOK).                *)
(*                                                                         *)
(* On top of it: DeliveryInv, what a delivery owes to whom, and nobody is  *)
(* missed; RegInv, which thread serves which registration; OnceInv, how    *)
(* far a delivery is along a chain that nothing collides in, and nobody is *)
(* posted to twice; ListedInv, who is in the table, and nobody registered  *)
(* is lost when memory suffices.                                           *)
(***************************************************************************)

Orderly == OrderedStart /\ Env = {} /\ "BLOCK_RETURN" \notin RegMode

Finding    == {"index", "lock"} \cup Critical
Delivering == {"search"} \cup Finding

AllReady(k) == \A p \in Pid : k \in Interest[p] => Ready(p, k)

PeopleOK == \A p \in Pid : proc[p] = "live" /\ (sig[p] => handler[p])

ThreadsOK == \A s \in Slot :
    /\ pc[s] \notin {"exsearch", "exwrite", "delete"}
    /\ shm[s].cmd = "REGISTER" =>
          shm[s].mode # "BLOCK_RETURN" /\ shm[s].msg \in Interest[shm[s].pid]
    /\ pc[s] \in Delivering => AllReady(shm[s].msg)
    /\ pc[s] \in Finding => heap[m[s]] # Freed /\ heap[m[s]].msg = shm[s].msg
    /\ pc[s] \in Finding \ {"index"} => idx[s] = heap[m[s]].pid
    /\ pc[s] \in {"incload", "incstore", "spin"} => pid_ret[s] = 0
    /\ pc[s] = "kill" => pid_num[idx[s]] = s /\ ~sig[idx[s]]

OrderInv == EntriesOK /\ PeopleOK /\ ThreadsOK /\ CellAndSignalAgree

\* What a pointer that is live reads.
LEMMA LiveRead ==
    \A n \in Node : heap[n] # Freed => ReadNode(n) = {heap[n]}
BY DEF ReadNode

\* A search that finds something finds an entry of its message.
LEMMA SearchFinds ==
    ASSUME EntriesOK, NEW k \in Msg, NEW i \in Nat, __emi_hsearch(k, i) # NoNode
    PROVE  /\ __emi_hsearch(k, i) \in Node
           /\ heap[__emi_hsearch(k, i)] # Freed
           /\ heap[__emi_hsearch(k, i)].msg = k
<1>. DEFINE found == {j \in Matches(Chain(k), k) : j > i}
<1>1. TableTypeOK /\ Chain(k) = msg_table[emi_hash(k)] /\ emi_hash(k) \in Bucket
  BY HashType DEF EntriesOK, TableInv, Chain
<1>2. /\ Chain(k) \in Seq(Node)
      /\ \A j \in DOMAIN Chain(k) : heap[Chain(k)[j]] \in MsgMap
  BY <1>1 DEF TableTypeOK, EntriesOK, TableInv, NodesInPlace
<1>3. found # {} /\ __emi_hsearch(k, i) = Chain(k)[Min(found)]
  BY DEF __emi_hsearch
<1>4. found \in SUBSET Nat /\ found \subseteq DOMAIN Chain(k)
  BY <1>2 DEF Matches
<1>5. Min(found) \in found
  BY <1>3, <1>4, MinProperties
<1>. HIDE DEF found
<1>6. Min(found) \in DOMAIN Chain(k) /\ heap[Chain(k)[Min(found)]].msg = k
  BY <1>4, <1>5 DEF found, Matches
<1>. QED BY <1>2, <1>3, <1>6, FreedAssumption DEF MsgMap

-----------------------------------------------------------------------------
(* The steps                                                                *)

LEMMA OrderInit ==
    ASSUME Orderly, Init
    PROVE  OrderInv
<1>1. EntriesOK
  BY TableInitType
     DEF Init, TableInit, EntriesOK, TableInv, NodesInPlace, MapsDiffer
<1>2. PeopleOK /\ CellAndSignalAgree
  BY DEF Init, PeopleOK, CellAndSignalAgree
<1>3. ThreadsOK
  BY DEF Init, ThreadsOK, ZeroHeader, Finding, Delivering, Critical
<1>. QED BY <1>1, <1>2, <1>3 DEF OrderInv

\* A message is sent when those who asked for it are ready.
LEMMA ServeSendOrder ==
    ASSUME Orderly, IndexInv, OrderInv, NEW s \in Slot, NEW k \in SendMsg,
           NEW mode \in SendMode, NEW ok \in BOOLEAN, ServeSend(s, k, mode, ok)
    PROVE  OrderInv'
<1>1. /\ pc \in [Slot -> Label] /\ shm \in [Slot -> Header] /\ pc[s] = "idle"
      /\ shm' = [shm EXCEPT ![s] = SendHeader(k, mode, ok)]
      /\ SendHeader(k, mode, ok).cmd = "SEND" /\ SendHeader(k, mode, ok).msg = k
      /\ AllReady(k)
      /\ UNCHANGED <<msg_table, heap, num, m, idx, pid_ret, tmp, pid_num, proc, sig,
                     handler, funcs>>
  BY DEF Orderly, AllReady, ServeSend, SendHeader, ZeroHeader, tableVars, localVars,
         libVars, IndexInv, TypeOK, ThreadTypeOK, ShmTypeOK
<1>2. pc' = [pc EXCEPT ![s] = "search"]
  BY <1>1 DEF ServeSend, Dispatch, Goto
<1>3. EntriesOK' /\ PeopleOK'
  BY <1>1 DEF OrderInv, EntriesOK, PeopleOK, TableInv, TableTypeOK, NodesInPlace,
              MapsDiffer
<1>4. ThreadsOK'
  BY <1>1, <1>2
     DEF OrderInv, ThreadsOK, AllReady, Ready, Finding, Delivering, Critical
<1>5. CellAndSignalAgree'
  BY <1>1, <1>2 DEF OrderInv, CellAndSignalAgree, IndexInv, TypeOK, ShmTypeOK
<1>. QED BY <1>3, <1>4, <1>5 DEF OrderInv

\* A process asks for a message of its interest.
LEMMA ServeRegisterOrder ==
    ASSUME Orderly, IndexInv, OrderInv, NEW s \in Slot, NEW p \in Pid, NEW k \in Msg,
           NEW mode \in RegMode, ServeRegister(s, p, k, mode)
    PROVE  OrderInv'
<1>1. /\ pc \in [Slot -> Label] /\ shm \in [Slot -> Header] /\ pc[s] = "idle"
      /\ shm' = [shm EXCEPT ![s] = RegisterHeader(p, k, mode)]
      /\ RegisterHeader(p, k, mode).cmd = "REGISTER"
      /\ RegisterHeader(p, k, mode).mode # "BLOCK_RETURN"
      /\ RegisterHeader(p, k, mode).msg \in Interest[RegisterHeader(p, k, mode).pid]
      /\ UNCHANGED <<msg_table, heap, num, m, idx, pid_ret, tmp, pid_num, proc, sig,
                     handler, funcs>>
  BY DEF Orderly, ServeRegister, RegisterHeader, tableVars, localVars,
         IndexInv, TypeOK, ThreadTypeOK, ShmTypeOK
<1>2. pc' = [pc EXCEPT ![s] = "insert"]
  BY <1>1 DEF ServeRegister, Dispatch, Goto
<1>3. EntriesOK' /\ PeopleOK'
  BY <1>1 DEF OrderInv, EntriesOK, PeopleOK, TableInv, TableTypeOK, NodesInPlace,
              MapsDiffer
<1>4. ThreadsOK'
  BY <1>1, <1>2
     DEF OrderInv, ThreadsOK, AllReady, Ready, Finding, Delivering, Critical
<1>5. CellAndSignalAgree'
  BY <1>1, <1>2 DEF OrderInv, CellAndSignalAgree, IndexInv, TypeOK, ShmTypeOK
<1>. QED BY <1>3, <1>4, <1>5 DEF OrderInv

\* An insertion leaves the entries that threads point to alone.
LEMMA InsertMapOrder ==
    ASSUME Orderly, IndexInv, OrderInv, NEW s \in Slot, InsertMap(s)
    PROVE  OrderInv'
<1>. DEFINE e == msg_map_fill(shm[s].msg, shm[s].pid)
<1>1. /\ pc \in [Slot -> Label] /\ heap \in [Node -> MsgMap \cup {Freed}]
      /\ pc[s] = "insert" /\ emi_hinsert(e)
      /\ UNCHANGED <<num, m, idx, pid_ret, tmp, shm, pid_num, proc, sig, handler, funcs>>
  BY DEF InsertMap, localVars, libVars, IndexInv, TypeOK, ThreadTypeOK, TableTypeOK
<1>2. shm[s].cmd = "REGISTER" /\ e \in MsgMap /\ e.msg \in Interest[e.pid]
  BY <1>1 DEF IndexInv, HeadersOK, TypeOK, ShmTypeOK, Header, OrderInv, ThreadsOK,
              msg_map_fill, MsgMap
<1>3. pc' = [pc EXCEPT ![s] = "ack"]
  BY <1>1, <1>2 DEF InsertMap, Goto, OrderInv, ThreadsOK
<1>. HIDE DEF e
<1>4. \/ heap' = heap
      \/ \E n \in Node : heap[n] = Freed /\ heap' = [heap EXCEPT ![n] = e]
  BY <1>1 DEF emi_hinsert, __emi_hinsert, FreeNode, tableVars
<1>5. \A n \in Node : heap[n] # Freed => heap'[n] = heap[n]
  BY <1>1, <1>4
<1>6. \A n \in Node : heap'[n] # Freed => heap'[n].msg \in Interest[heap'[n].pid]
  BY <1>1, <1>2, <1>4 DEF OrderInv, EntriesOK
<1>7. EntriesOK'
  BY <1>1, <1>2, <1>6, InsertInv DEF OrderInv, EntriesOK
<1>8. PeopleOK'
  BY <1>1 DEF OrderInv, PeopleOK
<1>9. \A t \in Slot : pc[t] \in Finding => m[t] \in Node
  BY DEF IndexInv, LocalsOK, HasNode, Finding
<1>10. ThreadsOK'
  BY <1>1, <1>3, <1>5, <1>9
     DEF OrderInv, ThreadsOK, AllReady, Ready, Finding, Delivering, Critical
<1>11. CellAndSignalAgree'
  BY <1>1, <1>3 DEF OrderInv, CellAndSignalAgree, IndexInv, TypeOK, ShmTypeOK
<1>. QED BY <1>7, <1>8, <1>10, <1>11 DEF OrderInv

\* A thread that ends leaves a header without a registration.
LEMMA LeaveOrder ==
    ASSUME Orderly, IndexInv, OrderInv, NEW s \in Slot, Leave(s),
           pc[s] \in {"ack", "wait"}, NEW h, h.cmd # "REGISTER" \/ h = shm[s],
           shm' = [shm EXCEPT ![s] = h],
           UNCHANGED <<msg_table, heap, pid_num, proc, sig, handler, funcs>>
    PROVE  OrderInv'
<1>1. /\ pc \in [Slot -> Label] /\ shm \in [Slot -> Header]
      /\ m \in [Slot -> Node \cup {NoNode}] /\ idx \in [Slot -> Pid \cup {NoPid}]
      /\ pid_ret \in [Slot -> {-1, 0}]
  BY DEF IndexInv, TypeOK, ThreadTypeOK, ShmTypeOK
<1>2. /\ pc' = [pc EXCEPT ![s] = "idle"]
      /\ \A t \in Slot \ {s} : /\ m'[t] = m[t] /\ idx'[t] = idx[t]
                               /\ pid_ret'[t] = pid_ret[t] /\ shm'[t] = shm[t]
      /\ shm'[s] = h
  BY <1>1 DEF Leave, Goto
<1>3. EntriesOK' /\ PeopleOK'
  BY <1>1 DEF OrderInv, EntriesOK, PeopleOK, TableInv, TableTypeOK, NodesInPlace,
              MapsDiffer
<1>4. ThreadsOK'
  <2>. SUFFICES ASSUME NEW t \in Slot
                PROVE  /\ pc'[t] \notin {"exsearch", "exwrite", "delete"}
                       /\ shm'[t].cmd = "REGISTER" =>
                             /\ shm'[t].mode # "BLOCK_RETURN"
                             /\ shm'[t].msg \in Interest[shm'[t].pid]
                       /\ pc'[t] \in Delivering => AllReady(shm'[t].msg)
                       /\ pc'[t] \in Finding => heap[m'[t]] # Freed
                                                /\ heap[m'[t]].msg = shm'[t].msg
                       /\ pc'[t] \in Finding \ {"index"} => idx'[t] = heap[m'[t]].pid
                       /\ pc'[t] \in {"incload", "incstore", "spin"} => pid_ret'[t] = 0
                       /\ pc'[t] = "kill" => pid_num[idx'[t]] = t /\ ~sig[idx'[t]]
    BY DEF ThreadsOK, AllReady, Ready, Finding, Delivering, Critical
  <2>1. CASE t = s
    BY <1>1, <1>2, <2>1 DEF OrderInv, ThreadsOK, Finding, Delivering, Critical
  <2>2. CASE t # s
    BY <1>1, <1>2, <2>2 DEF OrderInv, ThreadsOK
  <2>. QED BY <2>1, <2>2
<1>5. CellAndSignalAgree'
  BY <1>1, <1>2 DEF OrderInv, CellAndSignalAgree, IndexInv, TypeOK, ShmTypeOK
<1>. QED BY <1>3, <1>4, <1>5 DEF OrderInv

LEMMA AckOrder ==
    ASSUME Orderly, IndexInv, OrderInv, NEW s \in Slot, Ack(s)
    PROVE  OrderInv'
<1>. DEFINE h == [shm[s] EXCEPT !.cmd = "SEND", !.mode = "NONE", !.ok = TRUE]
<1>1. /\ pc[s] = "ack" /\ Leave(s) /\ shm' = [shm EXCEPT ![s] = h]
      /\ UNCHANGED <<msg_table, heap, pid_num, proc, sig, handler, funcs>>
  BY DEF Ack, tableVars
<1>2. h.cmd # "REGISTER"
  BY DEF IndexInv, TypeOK, ShmTypeOK, Header
<1>. HIDE DEF h
<1>. QED BY <1>1, <1>2, LeaveOrder

LEMMA FinishOrder ==
    ASSUME Orderly, IndexInv, OrderInv, NEW s \in Slot, Finish(s)
    PROVE  OrderInv'
<1>. DEFINE h == IF shm[s].mode = "BLOCK_RETURN" /\ shm[s].ok
                 THEN [shm[s] EXCEPT !.mode = "NONE"] ELSE shm[s]
<1>1. shm \in [Slot -> Header]
  BY DEF IndexInv, TypeOK, ShmTypeOK
<1>2. /\ pc[s] = "wait" /\ Leave(s) /\ shm' = [shm EXCEPT ![s] = h]
      /\ UNCHANGED <<msg_table, heap, pid_num, proc, sig, handler, funcs>>
  BY <1>1 DEF Finish, tableVars, libVars
<1>3. h.cmd # "REGISTER" \/ h = shm[s]
  BY <1>1 DEF Header, OrderInv, ThreadsOK
<1>. HIDE DEF h
<1>. QED BY <1>2, <1>3, LeaveOrder

\* What is found is an entry, of somebody who is ready.
LEMMA SearchOrder ==
    ASSUME Orderly, IndexInv, OrderInv, NEW s \in Slot, Search(s)
    PROVE  OrderInv'
<1>1. /\ pc \in [Slot -> Label] /\ m \in [Slot -> Node \cup {NoNode}]
      /\ shm[s].msg \in Msg /\ num[s] \in Nat /\ pc[s] = "search"
      /\ m' = [m EXCEPT ![s] = __emi_hsearch(shm[s].msg, num[s])]
      /\ UNCHANGED <<msg_table, heap, num, idx, pid_ret, tmp, shm, pid_num, proc, sig,
                     handler, funcs>>
  BY DEF Search, tableVars, libVars, IndexInv, TypeOK, ThreadTypeOK, ShmTypeOK, Header
<1>2. \/ pc' = [pc EXCEPT ![s] = "wait"]
      \/ /\ pc' = [pc EXCEPT ![s] = "index"]
         /\ heap[m'[s]] # Freed /\ heap[m'[s]].msg = shm[s].msg
  <2>1. m'[s] = __emi_hsearch(shm[s].msg, num[s])
    BY <1>1
  <2>2. CASE m'[s] = NoNode
    BY <1>1, <2>2 DEF Search, Goto
  <2>3. CASE m'[s] # NoNode
    <3>1. pc' = [pc EXCEPT ![s] = "index"]
      BY <1>1, <2>3 DEF Search, Goto
    <3>2. EntriesOK /\ __emi_hsearch(shm[s].msg, num[s]) # NoNode
      BY <2>1, <2>3 DEF OrderInv
    <3>. QED BY <1>1, <2>1, <3>1, <3>2, SearchFinds
  <2>. QED BY <2>2, <2>3
<1>3. EntriesOK' /\ PeopleOK'
  BY <1>1 DEF OrderInv, EntriesOK, PeopleOK, TableInv, TableTypeOK, NodesInPlace,
              MapsDiffer
<1>4. ThreadsOK'
  BY <1>1, <1>2
     DEF OrderInv, ThreadsOK, AllReady, Ready, Finding, Delivering, Critical
<1>5. CellAndSignalAgree'
  BY <1>1, <1>2 DEF OrderInv, CellAndSignalAgree, IndexInv, TypeOK, ShmTypeOK
<1>. QED BY <1>3, <1>4, <1>5 DEF OrderInv

LEMMA IndexOrder ==
    ASSUME Orderly, IndexInv, OrderInv, NEW s \in Slot, Index(s)
    PROVE  OrderInv'
<1>1. /\ pc \in [Slot -> Label] /\ idx \in [Slot -> Pid \cup {NoPid}]
      /\ pc[s] = "index" /\ pc' = [pc EXCEPT ![s] = "lock"]
      /\ UNCHANGED <<msg_table, heap, num, m, pid_ret, tmp, shm, pid_num, proc, sig,
                     handler, funcs>>
  BY DEF Index, Goto, tableVars, libVars, IndexInv, TypeOK, ThreadTypeOK
<1>2. m[s] \in Node /\ heap[m[s]] # Freed
  BY <1>1 DEF IndexInv, LocalsOK, HasNode, OrderInv, ThreadsOK, Finding
<1>3. idx' = [idx EXCEPT ![s] = heap[m[s]].pid]
  BY <1>2, LiveRead DEF Index
<1>4. EntriesOK' /\ PeopleOK'
  BY <1>1 DEF OrderInv, EntriesOK, PeopleOK, TableInv, TableTypeOK, NodesInPlace,
              MapsDiffer
<1>5. ThreadsOK'
  BY <1>1, <1>3
     DEF OrderInv, ThreadsOK, AllReady, Ready, Finding, Delivering, Critical
<1>6. CellAndSignalAgree'
  BY <1>1 DEF OrderInv, CellAndSignalAgree, IndexInv, TypeOK, ShmTypeOK
<1>. QED BY <1>4, <1>5, <1>6 DEF OrderInv

\* While the lock is free all cells are empty, so that nobody has a signal.
LEMMA LockOrder ==
    ASSUME Orderly, IndexInv, OrderInv, NEW s \in Slot, Lock(s)
    PROVE  OrderInv'
<1>1. /\ pc \in [Slot -> Label] /\ pid_num \in [Pid -> Slot \cup {NoSlot}]
      /\ pc[s] = "lock" /\ critical_shmem_lock = NoSlot
      /\ pc' = [pc EXCEPT ![s] = "kill"]
      /\ pid_num' = [pid_num EXCEPT ![idx[s]] = s]
      /\ idx[s] \in Pid
      /\ UNCHANGED <<msg_table, heap, num, m, idx, pid_ret, tmp, shm, proc, sig,
                     handler, funcs>>
  BY DEF Lock, Goto, tableVars, localVars, libVars, IndexInv, TypeOK, ThreadTypeOK,
         ShmTypeOK, LocalsOK, HasCell
<1>2. \A p \in Pid : pid_num[p] = NoSlot /\ ~sig[p]
  BY <1>1, SlotAssumption
     DEF IndexInv, IndexDiscipline, TypeOK, ShmTypeOK, OrderInv, CellAndSignalAgree
<1>3. \A t \in Slot : pc[t] \notin Critical
  BY <1>1, SlotAssumption DEF IndexInv, LockOK
<1>4. EntriesOK' /\ PeopleOK'
  BY <1>1 DEF OrderInv, EntriesOK, PeopleOK, TableInv, TableTypeOK, NodesInPlace,
              MapsDiffer
<1>5. ThreadsOK'
  BY <1>1, <1>2, <1>3
     DEF OrderInv, ThreadsOK, AllReady, Ready, Finding, Delivering, Critical
<1>6. CellAndSignalAgree'
  BY <1>1, <1>2, SlotAssumption DEF CellAndSignalAgree
<1>. QED BY <1>4, <1>5, <1>6 DEF OrderInv

\* The signal is for the process of the cell, which has a handler.
LEMMA KillOrder ==
    ASSUME Orderly, IndexInv, OrderInv, NEW s \in Slot, Kill(s)
    PROVE  OrderInv'
<1>1. /\ pc \in [Slot -> Label] /\ sig \in [Pid -> BOOLEAN] /\ pc[s] = "kill"
      /\ pid_ret \in [Slot -> {-1, 0}]
      /\ m[s] \in Node /\ idx[s] \in Pid
      /\ heap[m[s]] # Freed /\ heap[m[s]].msg = shm[s].msg /\ heap[m[s]].pid = idx[s]
      /\ pid_num[idx[s]] = s /\ proc[idx[s]] = "live"
      /\ UNCHANGED <<msg_table, heap, num, m, idx, tmp, shm, proc, handler, funcs>>
  BY DEF Kill, tableVars, libVars, IndexInv, TypeOK, ThreadTypeOK, ProcTypeOK, LocalsOK,
         HasNode, HasCell, Critical, OrderInv, ThreadsOK, Finding, PeopleOK
<1>2. /\ pc' = [pc EXCEPT ![s] = "incload"]
      /\ pid_ret' = [pid_ret EXCEPT ![s] = 0]
      /\ sig' = [sig EXCEPT ![idx[s]] = TRUE]
      /\ UNCHANGED pid_num
  BY <1>1, LiveRead DEF Kill, Goto
<1>3. handler[idx[s]]
  BY <1>1 DEF OrderInv, EntriesOK, ThreadsOK, AllReady, Ready, Delivering, Finding,
              Critical
<1>4. \A t \in Slot : t # s => pc[t] # "kill"
  BY <1>1 DEF IndexInv, LockOK, Critical
<1>5. EntriesOK' /\ PeopleOK'
  BY <1>1, <1>2, <1>3 DEF OrderInv, EntriesOK, PeopleOK, TableInv, TableTypeOK,
                          NodesInPlace, MapsDiffer
<1>6. ThreadsOK'
  BY <1>1, <1>2, <1>4
     DEF OrderInv, ThreadsOK, AllReady, Ready, Finding, Delivering, Critical
<1>7. \A p \in Pid : pid_num[p] # NoSlot => p = idx[s]
  BY <1>1 DEF IndexInv, IndexDiscipline, LockOK, Critical, TypeOK, ShmTypeOK
<1>8. CellAndSignalAgree'
  BY <1>1, <1>2, <1>7, SlotAssumption DEF OrderInv, CellAndSignalAgree
<1>. QED BY <1>5, <1>6, <1>8 DEF OrderInv

LEMMA IncOrder ==
    ASSUME Orderly, IndexInv, OrderInv, NEW s \in Slot, IncLoad(s) \/ IncStore(s)
    PROVE  OrderInv'
<1>1. /\ pc \in [Slot -> Label]
      /\ \/ pc[s] = "incload" /\ pc' = [pc EXCEPT ![s] = "incstore"]
         \/ pc[s] = "incstore" /\ pc' = [pc EXCEPT ![s] = "spin"]
      /\ UNCHANGED <<msg_table, heap, num, m, idx, pid_ret, shm, pid_num, proc, sig,
                     handler, funcs>>
  BY DEF IncLoad, IncStore, Goto, tableVars, localVars, libVars, IndexInv, TypeOK,
         ThreadTypeOK
<1>2. EntriesOK' /\ PeopleOK'
  BY <1>1 DEF OrderInv, EntriesOK, PeopleOK, TableInv, TableTypeOK, NodesInPlace,
              MapsDiffer
<1>3. ThreadsOK'
  BY <1>1 DEF OrderInv, ThreadsOK, AllReady, Ready, Finding, Delivering, Critical
<1>4. CellAndSignalAgree'
  BY <1>1 DEF OrderInv, CellAndSignalAgree, IndexInv, TypeOK, ShmTypeOK
<1>. QED BY <1>2, <1>3, <1>4 DEF OrderInv

\* kill has not failed, so that the entry stays.
LEMMA SpinEndsOrder ==
    ASSUME Orderly, IndexInv, OrderInv, NEW s \in Slot, SpinEnds(s)
    PROVE  OrderInv'
<1>1. /\ pc \in [Slot -> Label] /\ pc[s] = "spin" /\ pid_ret[s] = 0
      /\ UNCHANGED <<msg_table, heap, m, idx, pid_ret, shm, pid_num, proc, sig,
                     handler, funcs>>
  BY DEF SpinEnds, tableVars, libVars, IndexInv, TypeOK, ThreadTypeOK, OrderInv,
         ThreadsOK
<1>2. pc' = [pc EXCEPT ![s] = "search"]
  BY <1>1 DEF SpinEnds, Goto
<1>3. EntriesOK' /\ PeopleOK'
  BY <1>1 DEF OrderInv, EntriesOK, PeopleOK, TableInv, TableTypeOK, NodesInPlace,
              MapsDiffer
<1>4. ThreadsOK'
  BY <1>1, <1>2
     DEF OrderInv, ThreadsOK, AllReady, Ready, Finding, Delivering, Critical
<1>5. CellAndSignalAgree'
  BY <1>1, <1>2 DEF OrderInv, CellAndSignalAgree, IndexInv, TypeOK, ShmTypeOK
<1>. QED BY <1>3, <1>4, <1>5 DEF OrderInv

\* A signal and its cell go together.
LEMMA PickupOrder ==
    ASSUME Orderly, IndexInv, OrderInv, NEW p \in Pid, Pickup(p)
    PROVE  OrderInv'
<1>1. /\ pid_num \in [Pid -> Slot \cup {NoSlot}] /\ sig \in [Pid -> BOOLEAN] /\ sig[p]
      /\ sig' = [sig EXCEPT ![p] = FALSE]
      /\ pid_num' = [pid_num EXCEPT ![p] = NoSlot]
      /\ UNCHANGED <<msg_table, heap, pc, num, m, idx, pid_ret, tmp, shm, proc,
                     handler, funcs>>
  BY DEF Pickup, tableVars, threadVars, libVars, IndexInv, TypeOK, ShmTypeOK, ProcTypeOK
<1>2. \A s \in Slot : pc[s] = "kill" => idx[s] \in Pid /\ idx[s] # p
  BY <1>1 DEF IndexInv, LocalsOK, HasCell, Critical, OrderInv, ThreadsOK
<1>3. EntriesOK' /\ PeopleOK'
  BY <1>1 DEF OrderInv, EntriesOK, PeopleOK, TableInv, TableTypeOK, NodesInPlace,
              MapsDiffer
<1>4. ThreadsOK'
  BY <1>1, <1>2
     DEF OrderInv, ThreadsOK, AllReady, Ready, Finding, Delivering, Critical
<1>5. CellAndSignalAgree'
  BY <1>1 DEF OrderInv, CellAndSignalAgree
<1>. QED BY <1>3, <1>4, <1>5 DEF OrderInv

\* Functions change nothing of a header but SUCCEEDED.
LEMMA HandleOrder ==
    ASSUME Orderly, IndexInv, OrderInv, NEW p \in Pid, Handle(p)
    PROVE  OrderInv'
<1>1. /\ shm \in [Slot -> Header] /\ shmsg[p] \in Slot
      /\ UNCHANGED <<msg_table, heap, pc, num, m, idx, pid_ret, tmp, pid_num, proc, sig,
                     handler, funcs>>
  BY DEF Handle, tableVars, threadVars, libVars, IndexInv, TypeOK, ShmTypeOK, HeadersOK
<1>2. \A t \in Slot : /\ shm'[t].cmd = shm[t].cmd /\ shm'[t].mode = shm[t].mode
                      /\ shm'[t].msg = shm[t].msg /\ shm'[t].pid = shm[t].pid
  <2>1. \A t \in Slot, ok \in BOOLEAN :
           LET h == [shm[t] EXCEPT !.ok = ok]
           IN  h.cmd = shm[t].cmd /\ h.mode = shm[t].mode /\ h.msg = shm[t].msg
               /\ h.pid = shm[t].pid
    BY <1>1 DEF Header
  <2>2. CASE UNCHANGED shm
    BY <2>2
  <2>3. CASE \E ok \in BOOLEAN : shm' = [shm EXCEPT ![shmsg[p]].ok = ok]
    BY <1>1, <2>1, <2>3
  <2>. QED BY <2>2, <2>3 DEF Handle
<1>3. EntriesOK' /\ PeopleOK'
  BY <1>1 DEF OrderInv, EntriesOK, PeopleOK, TableInv, TableTypeOK, NodesInPlace,
              MapsDiffer
<1>4. ThreadsOK'
  BY <1>1, <1>2
     DEF OrderInv, ThreadsOK, AllReady, Ready, Finding, Delivering, Critical
<1>5. CellAndSignalAgree'
  BY <1>1 DEF OrderInv, CellAndSignalAgree
<1>. QED BY <1>3, <1>4, <1>5 DEF OrderInv

\* The rest of a process's steps make it no less ready.
LEMMA ProcessOrder ==
    ASSUME Orderly, IndexInv, OrderInv, NEW p \in Pid,
           DecLoad(p) \/ DecStore(p) \/ ListAdd(p) \/ SigAction(p)
    PROVE  OrderInv'
<1>1. UNCHANGED <<msg_table, heap, pc, num, m, idx, pid_ret, tmp, shm, pid_num, proc, sig>>
  BY DEF DecLoad, DecStore, ListAdd, SigAction, tableVars, threadVars
<1>2. \A q \in Pid : funcs[q] \subseteq funcs'[q] /\ (handler[q] => handler'[q])
  BY DEF DecLoad, DecStore, ListAdd, SigAction, libVars, IndexInv, TypeOK, ProcTypeOK
<1>3. EntriesOK' /\ PeopleOK'
  BY <1>1, <1>2 DEF OrderInv, EntriesOK, PeopleOK, TableInv, TableTypeOK, NodesInPlace,
                    MapsDiffer
<1>4. ThreadsOK'
  BY <1>1, <1>2
     DEF OrderInv, ThreadsOK, AllReady, Ready, Finding, Delivering, Critical
<1>5. CellAndSignalAgree'
  BY <1>1 DEF OrderInv, CellAndSignalAgree
<1>. QED BY <1>3, <1>4, <1>5 DEF OrderInv

LEMMA OrderStutter ==
    ASSUME OrderInv, UNCHANGED vars
    PROVE  OrderInv'
<1>1. UNCHANGED <<msg_table, heap, pc, m, idx, pid_ret, shm, pid_num, proc, sig,
                  handler, funcs>>
  BY DEF vars, tableVars, threadVars, libVars
<1>2. EntriesOK' /\ PeopleOK'
  BY <1>1 DEF OrderInv, EntriesOK, PeopleOK, TableInv, TableTypeOK, NodesInPlace,
              MapsDiffer
<1>3. ThreadsOK' /\ CellAndSignalAgree'
  BY <1>1 DEF OrderInv, ThreadsOK, AllReady, Ready, CellAndSignalAgree
<1>. QED BY <1>2, <1>3 DEF OrderInv

\* Nothing happens to processes.
LEMMA NobodyDies ==
    ASSUME Orderly, OrderInv, NEW p \in Pid
    PROVE  ~Environment(p)
BY DEF Environment, SigDefault, Crash, Reap, Recycle, Unregister, Orderly, OrderInv,
       PeopleOK

LEMMA OrderNext ==
    ASSUME Orderly, IndexInv, OrderInv, [Next]_vars
    PROVE  OrderInv'
<1>1. ASSUME NEW s \in Slot, Serve(s) PROVE OrderInv'
  BY <1>1, ServeSendOrder, ServeRegisterOrder
     DEF Serve, Carried, Orderly, ShortData, ReadFails
<1>2. ASSUME NEW s \in Slot, Thread(s) PROVE OrderInv'
  <2>1. ~(ExclusiveSearch(s) \/ ExclusiveWrite(s) \/ DeleteMap(s))
    BY DEF OrderInv, ThreadsOK, ExclusiveSearch, ExclusiveWrite, DeleteMap
  <2>. QED BY <1>2, <2>1, InsertMapOrder, AckOrder, SearchOrder, IndexOrder, LockOrder,
              KillOrder, IncOrder, SpinEndsOrder, FinishOrder DEF Thread
<1>3. ASSUME NEW p \in Pid, Handler(p) PROVE OrderInv'
  BY <1>3, PickupOrder, HandleOrder, ProcessOrder DEF Handler
<1>4. ASSUME NEW p \in Pid, Library(p) PROVE OrderInv'
  BY <1>4, ProcessOrder DEF Library
<1>5. ASSUME NEW p \in Pid PROVE ~Environment(p)
  BY NobodyDies
<1>6. CASE UNCHANGED vars
  BY <1>6, OrderStutter
<1>. QED BY <1>1, <1>2, <1>3, <1>4, <1>5, <1>6 DEF Next

THEOREM OrderInvCorrect ==
    ASSUME Orderly
    PROVE  Spec => []OrderInv
<1>1. Init => OrderInv
  BY OrderInit
<1>2. IndexInv /\ OrderInv /\ [Next]_vars => OrderInv'
  BY OrderNext
<1>. QED BY <1>1, <1>2, IndexInvCorrect, PTL DEF Spec

\* The pointer a thread keeps after it has released msg_map_lock points to an
\* entry of its message (emi_core.c:446, 452 and 467), for every number of
\* threads, processes, messages and collisions.
THEOREM PointerIsLiveCorrect ==
    ASSUME Orderly
    PROVE  Spec => []PointerIsLive
<1>1. OrderInv => PointerIsLive
  BY DEF OrderInv, ThreadsOK, PointerIsLive, Finding, Critical
<1>. QED BY <1>1, OrderInvCorrect, PTL

\* No handler runs without a message in its cell, and no message waits in a cell
\* without a signal (emi_core.c:451-461, emi_if.c:213-219).
THEOREM CellAndSignalAgreeCorrect ==
    ASSUME Orderly
    PROVE  Spec => []CellAndSignalAgree
<1>1. OrderInv => CellAndSignalAgree
  BY DEF OrderInv
<1>. QED BY <1>1, OrderInvCorrect, PTL

-----------------------------------------------------------------------------
(* Deliveries.  A place in a chain is a number of entries from its head, and *)
(* chains grow at the head meanwhile: DeliveryInv says which entries a thread*)
(* has passed.                                                               *)

Posting == {"incload", "incstore", "spin"}

Of(s) == Chain(shm[s].msg)

\* The i-th entry of its chain is behind thread s.
Passed(s, i) ==
    \/ pc[s] = "wait" \/ i <= num[s]
    \/ i = num[s] + 1 /\ (pc[s] \in Posting \/ (pc[s] \in Finding /\ m[s] # Of(s)[i]))

\* Those to whom the message is due are in the chain, and have got it if they
\* are passed.
DueAt(s) ==
    pc[s] \in Delivering \cup {"wait"} =>
        \A p \in due[s] : \E i \in DOMAIN Of(s) :
            /\ heap[Of(s)[i]] = msg_map_fill(shm[s].msg, p)
            /\ Passed(s, i) => posted[s][p] > 0

FreshAt(s) == pc[s] \in {"idle", "insert", "ack"} =>
                  num[s] = 0 /\ \A p \in Pid : posted[s][p] = 0

DeliveryInv == \A s \in Slot : FreshAt(s) /\ DueAt(s)

\* What a search returns: the first entry of its message behind the place n.
LEMMA SearchMeaning ==
    ASSUME TableTypeOK, NEW k \in Msg, NEW n \in Nat
    PROVE  /\ __emi_hsearch(k, n) = NoNode =>
                  \A i \in DOMAIN Chain(k) : heap[Chain(k)[i]].msg = k => i <= n
           /\ __emi_hsearch(k, n) # NoNode =>
                  \E j \in DOMAIN Chain(k) :
                      /\ __emi_hsearch(k, n) = Chain(k)[j]
                      /\ j > n /\ heap[Chain(k)[j]].msg = k
                      /\ \A i \in DOMAIN Chain(k) :
                             heap[Chain(k)[i]].msg = k => i <= n \/ j <= i
<1>. DEFINE found == {j \in Matches(Chain(k), k) : j > n}
<1>1. Chain(k) \in Seq(Node)
  BY HashType DEF TableTypeOK, Chain
<1>2. found \in SUBSET Nat /\ DOMAIN Chain(k) \subseteq Nat
  BY <1>1 DEF Matches
<1>3. CASE found = {}
  <2>1. __emi_hsearch(k, n) = NoNode
    BY <1>3 DEF __emi_hsearch
  <2>2. \A i \in DOMAIN Chain(k) : heap[Chain(k)[i]].msg = k => i <= n
    BY <1>2, <1>3 DEF Matches
  <2>. QED BY <2>1, <2>2
<1>4. CASE found # {}
  <2>1. Min(found) \in found /\ \A i \in found : Min(found) <= i
    BY <1>2, <1>4, MinProperties
  <2>2. __emi_hsearch(k, n) = Chain(k)[Min(found)]
    BY <1>4 DEF __emi_hsearch
  <2>. DEFINE j == Min(found)
  <2>3. j \in DOMAIN Chain(k) /\ j > n /\ heap[Chain(k)[j]].msg = k
    BY <2>1 DEF Matches
  <2>4. \A i \in DOMAIN Chain(k) : heap[Chain(k)[i]].msg = k => i <= n \/ j <= i
    <3>. HIDE DEF j
    <3>. SUFFICES ASSUME NEW i \in DOMAIN Chain(k), heap[Chain(k)[i]].msg = k, ~(i <= n)
                  PROVE  j <= i
      OBVIOUS
    <3>1. i \in found
      BY <1>2 DEF Matches
    <3>. QED BY <2>1, <3>1 DEF j
  <2>5. Chain(k)[j] # NoNode
    BY <1>1, <2>3, NodeAssumption
  <2>. QED BY <2>2, <2>3, <2>4, <2>5
<1>. QED BY <1>3, <1>4

\* A connection's step is its own.
LEMMA OthersUntouched ==
    ASSUME Orderly, IndexInv, OrderInv, NEW s \in Slot, NEW t \in Slot \ {s},
           Serve(s) \/ Thread(s)
    PROVE  /\ pc'[t] = pc[t] /\ num'[t] = num[t] /\ m'[t] = m[t]
           /\ due'[t] = due[t] /\ posted'[t] = posted[t] /\ shm'[t] = shm[t]
<1>. USE DEF IndexInv, TypeOK, ThreadTypeOK, ShmTypeOK, GhostTypeOK, Goto, localVars, ghosts
<1>1. CASE Serve(s)
  <2>1. ASSUME NEW k \in SendMsg, NEW mode \in SendMode, NEW ok \in Carried(mode),
               ServeSend(s, k, mode, ok)
        PROVE  UNCHANGED <<num, m, posted>> /\ pc'[t] = pc[t] /\ due'[t] = due[t]
               /\ shm'[t] = shm[t]
    BY <2>1 DEF ServeSend, Dispatch
  <2>2. ASSUME NEW p \in Pid, NEW k \in Msg, NEW mode \in RegMode,
               ServeRegister(s, p, k, mode)
        PROVE  UNCHANGED <<num, m, posted>> /\ pc'[t] = pc[t] /\ due'[t] = due[t]
               /\ shm'[t] = shm[t]
    BY <2>2 DEF ServeRegister, Dispatch
  <2>. QED BY <1>1, <2>1, <2>2 DEF Serve, ShortData, ReadFails, Orderly
<1>2. CASE InsertMap(s) \/ Ack(s) \/ Finish(s)
  BY <1>2 DEF InsertMap, Ack, Finish, Leave
<1>3. CASE Search(s) \/ Index(s) \/ Lock(s) \/ IncLoad(s) \/ IncStore(s) \/ SpinEnds(s)
  BY <1>3 DEF Search, Index, Lock, IncLoad, IncStore, SpinEnds
<1>4. CASE Kill(s)
  BY <1>4 DEF Kill
<1>5. CASE ExclusiveSearch(s) \/ ExclusiveWrite(s) \/ DeleteMap(s)
  BY <1>5 DEF ExclusiveSearch, ExclusiveWrite, DeleteMap
<1>. QED BY <1>1, <1>2, <1>3, <1>4, <1>5 DEF Thread

\* The steps of processes touch no thread, and of a header only SUCCEEDED.
LEMMA ProcessUntouched ==
    ASSUME Orderly, IndexInv, OrderInv, NEW p \in Pid, Handler(p) \/ Library(p)
    PROVE  /\ UNCHANGED <<msg_table, heap, pc, num, m, due, posted>>
           /\ \A t \in Slot : /\ shm'[t].cmd = shm[t].cmd /\ shm'[t].mode = shm[t].mode
                              /\ shm'[t].msg = shm[t].msg /\ shm'[t].pid = shm[t].pid
<1>1. CASE Handle(p)
  <2>1. /\ shm \in [Slot -> Header] /\ shmsg[p] \in Slot
        /\ UNCHANGED <<msg_table, heap, pc, num, m, due, posted>>
    BY <1>1 DEF Handle, tableVars, threadVars, ghosts, IndexInv, TypeOK, ShmTypeOK,
                HeadersOK
  <2>2. \A t \in Slot, ok \in BOOLEAN :
           LET h == [shm[t] EXCEPT !.ok = ok]
           IN  h.cmd = shm[t].cmd /\ h.mode = shm[t].mode /\ h.msg = shm[t].msg
               /\ h.pid = shm[t].pid
    BY <2>1 DEF Header
  <2>3. CASE UNCHANGED shm
    BY <2>1, <2>3
  <2>4. CASE \E ok \in BOOLEAN : shm' = [shm EXCEPT ![shmsg[p]].ok = ok]
    BY <2>1, <2>2, <2>4
  <2>. QED BY <1>1, <2>3, <2>4 DEF Handle
<1>2. CASE Pickup(p) \/ DecLoad(p) \/ DecStore(p)
  BY <1>2 DEF Pickup, DecLoad, DecStore, tableVars, threadVars, ghosts
<1>3. CASE ListAdd(p) \/ SigAction(p)
  BY <1>3 DEF ListAdd, SigAction, tableVars, threadVars, ghosts
<1>. QED BY <1>1, <1>2, <1>3 DEF Handler, Library

\* What is unchanged around a thread leaves its delivery as it is.
LEMMA SameDelivery ==
    ASSUME NEW s \in Slot, FreshAt(s), DueAt(s), UNCHANGED <<msg_table, heap>>,
           pc'[s] = pc[s], num'[s] = num[s], m'[s] = m[s], due'[s] = due[s],
           posted'[s] = posted[s], shm'[s].msg = shm[s].msg
    PROVE  FreshAt(s)' /\ DueAt(s)'
BY DEF FreshAt, DueAt, Passed, Of, Chain, msg_map_fill

\* An insertion moves the entries of one chain away from its head.
LEMMA InsertMoves ==
    ASSUME TableInv, NEW e \in MsgMap, emi_hinsert(e), NEW k \in Msg,
           NEW i \in DOMAIN Chain(k)
    PROVE  \E j \in DOMAIN Chain(k)' : /\ j \in {i, i + 1} /\ Chain(k)'[j] = Chain(k)[i]
                                       /\ heap'[Chain(k)[i]] = heap[Chain(k)[i]]
<1>1. /\ emi_hash(k) \in Bucket /\ emi_hash(e.msg) \in Bucket
      /\ Chain(k) \in Seq(Node) /\ TableTypeOK
      /\ heap[Chain(k)[i]] \in MsgMap
  BY HashType DEF TableInv, TableTypeOK, NodesInPlace, Chain, MsgMap
<1>2. CASE UNCHANGED tableVars
  BY <1>1, <1>2 DEF tableVars, Chain, emi_hash
<1>3. CASE __emi_hinsert(e) /\ ~UNCHANGED tableVars
  <2>1. PICK n \in FreeNode :
            /\ heap' = [heap EXCEPT ![n] = e]
            /\ msg_table' = [msg_table EXCEPT ![emi_hash(e.msg)] = <<n>> \o @]
    BY <1>3 DEF __emi_hinsert
  <2>2. n \in Node /\ heap[n] = Freed /\ Chain(k)[i] \in Node /\ Chain(k)[i] # n
    BY <1>1, FreedAssumption DEF FreeNode, MsgMap
  <2>3. heap'[Chain(k)[i]] = heap[Chain(k)[i]]
    BY <1>1, <2>1, <2>2 DEF TableTypeOK
  <2>4. CASE emi_hash(e.msg) = emi_hash(k)
    <3>1. Chain(k)' = <<n>> \o Chain(k)
      BY <1>1, <2>1, <2>4 DEF Chain, TableTypeOK, emi_hash
    <3>2. i + 1 \in DOMAIN Chain(k)' /\ Chain(k)'[i + 1] = Chain(k)[i]
      BY <1>1, <2>2, <3>1, PushProperties
    <3>. QED BY <2>3, <3>2
  <2>5. CASE emi_hash(e.msg) # emi_hash(k)
    <3>1. Chain(k)' = Chain(k)
      BY <1>1, <2>1, <2>5 DEF Chain, TableTypeOK, emi_hash
    <3>. QED BY <2>3, <3>1
  <2>. QED BY <2>4, <2>5
<1>. QED BY <1>2, <1>3 DEF emi_hinsert

LEMMA InsertDelivery ==
    ASSUME Orderly, IndexInv, OrderInv, DeliveryInv, NEW s \in Slot, InsertMap(s)
    PROVE  DeliveryInv'
<1>. DEFINE e == msg_map_fill(shm[s].msg, shm[s].pid)
<1>1. /\ emi_hinsert(e) /\ e \in MsgMap /\ pc[s] = "insert"
      /\ UNCHANGED <<num, m, shm, due, posted>>
  BY DEF InsertMap, localVars, ghosts, IndexInv, HeadersOK, TypeOK, ShmTypeOK, Header,
         msg_map_fill, MsgMap
<1>2. pc' = [pc EXCEPT ![s] = "ack"] /\ pc \in [Slot -> Label]
  BY DEF InsertMap, Goto, OrderInv, ThreadsOK, IndexInv, HeadersOK, TypeOK, ThreadTypeOK
<1>. HIDE DEF e
<1>3. FreshAt(s)' /\ DueAt(s)'
  BY <1>1, <1>2 DEF DeliveryInv, FreshAt, DueAt, Finding, Delivering, Critical
<1>4. ASSUME NEW t \in Slot \ {s} PROVE FreshAt(t)' /\ DueAt(t)'
  <2>1. pc'[t] = pc[t] /\ FreshAt(t)'
    BY <1>1, <1>2 DEF DeliveryInv, FreshAt
  <2>2. ASSUME pc[t] \in Delivering \cup {"wait"}, NEW p \in due[t]
        PROVE  \E i \in DOMAIN Of(t)' :
                  /\ heap'[Of(t)'[i]] = msg_map_fill(shm[t].msg, p)
                  /\ Passed(t, i)' => posted[t][p] > 0
    <3>1. PICK i \in DOMAIN Of(t) :
              /\ heap[Of(t)[i]] = msg_map_fill(shm[t].msg, p)
              /\ Passed(t, i) => posted[t][p] > 0
      BY <2>2 DEF DeliveryInv, DueAt
    <3>2. shm[t].msg \in Msg /\ num[t] \in Nat /\ TableInv
      BY DEF IndexInv, TypeOK, ShmTypeOK, ThreadTypeOK, Header, OrderInv, EntriesOK
    <3>3. PICK j \in DOMAIN Of(t)' : j \in {i, i + 1} /\ Of(t)'[j] = Of(t)[i]
                                     /\ heap'[Of(t)[i]] = heap[Of(t)[i]]
      BY <1>1, <3>2, InsertMoves DEF Of, Chain
    <3>4. i \in Nat
      BY <3>2, HashType DEF Of, Chain, TableInv, TableTypeOK
    <3>5. Passed(t, j)' => Passed(t, i)
      BY <1>1, <2>1, <3>2, <3>3, <3>4 DEF Passed
    <3>. QED BY <3>1, <3>3, <3>5
  <2>3. DueAt(t)'
    BY <1>1, <2>1, <2>2 DEF DueAt, msg_map_fill
  <2>. QED BY <2>1, <2>3
<1>. QED BY <1>3, <1>4 DEF DeliveryInv

LEMMA ServeDelivery ==
    ASSUME Orderly, IndexInv, OrderInv, DeliveryInv, NEW s \in Slot, Serve(s)
    PROVE  DeliveryInv'
<1>1. /\ pc[s] = "idle" /\ num[s] = 0
      /\ UNCHANGED <<msg_table, heap, num, posted>>
      /\ \/ pc'[s] = "insert"
         \/ pc'[s] = "search" /\ due'[s] = Registrants(shm'[s].msg)
  <2>. USE DEF IndexInv, TypeOK, ThreadTypeOK, ShmTypeOK, GhostTypeOK, Goto, localVars,
               tableVars, Orderly, Serve, Dispatch, DeliveryInv, FreshAt
  <2>1. CASE \E k \in SendMsg, mode \in SendMode : \E ok \in Carried(mode) :
                ServeSend(s, k, mode, ok)
    BY <2>1 DEF ServeSend
  <2>2. CASE \E p \in Pid, k \in Msg, mode \in RegMode : ServeRegister(s, p, k, mode)
    BY <2>2 DEF ServeRegister
  <2>. QED BY <2>1, <2>2 DEF ShortData, ReadFails
<1>2. FreshAt(s)'
  BY <1>1 DEF DeliveryInv, FreshAt
<1>3. DueAt(s)'
  <2>1. CASE pc'[s] = "insert"
    BY <2>1 DEF DueAt, Delivering, Finding, Critical
  <2>2. CASE pc'[s] = "search" /\ due'[s] = Registrants(shm'[s].msg)
    <3>. SUFFICES ASSUME NEW p \in due'[s]
                  PROVE  \E i \in DOMAIN Of(s)' :
                            /\ heap'[Of(s)'[i]] = msg_map_fill(shm'[s].msg, p)
                            /\ Passed(s, i)' => posted'[s][p] > 0
      BY DEF DueAt, msg_map_fill
    <3>. DEFINE k == shm'[s].msg
    <3>1. k \in Msg
      BY NextInv DEF Next, IndexInv, TypeOK, ShmTypeOK, Header
    <3>2. /\ Of(s)' = msg_table'[emi_hash(k)]
          /\ p \in Registrants(k) /\ pc'[s] = "search" /\ num'[s] = 0
      BY <1>1, <2>2 DEF Of, Chain, emi_hash
    <3>. HIDE DEF k
    <3>3. PICK i \in DOMAIN Chain(k) : heap[Chain(k)[i]] = msg_map_fill(k, p)
      BY <3>2 DEF Registrants, Registered, Occurrences
    <3>4. i \in Nat \ {0}
      BY <3>1, HashType DEF Chain, OrderInv, EntriesOK, TableInv, TableTypeOK
    <3>5. Of(s)' = Chain(k) /\ heap' = heap
      BY <1>1, <3>2 DEF Chain
    <3>6. ~Passed(s, i)'
      BY <1>1, <3>2, <3>4 DEF Passed, Posting, Finding, Critical
    <3>. QED BY <3>3, <3>5, <3>6 DEF k
  <2>. QED BY <1>1, <2>1, <2>2
<1>4. ASSUME NEW t \in Slot \ {s} PROVE FreshAt(t)' /\ DueAt(t)'
  BY <1>1, <1>4, OthersUntouched, SameDelivery DEF DeliveryInv
<1>. QED BY <1>2, <1>3, <1>4 DEF DeliveryInv

\* A search passes nobody: what it skips is passed, and what it finds is first.
LEMMA SearchDelivery ==
    ASSUME Orderly, IndexInv, OrderInv, DeliveryInv, NEW s \in Slot, Search(s)
    PROVE  DeliveryInv'
<1>. DEFINE k == shm[s].msg
<1>1. /\ pc \in [Slot -> Label] /\ k \in Msg /\ num[s] \in Nat /\ pc[s] = "search"
      /\ m'[s] = __emi_hsearch(k, num[s])
      /\ pc'[s] = (IF m'[s] = NoNode THEN "wait" ELSE "index")
      /\ UNCHANGED <<msg_table, heap, num, shm, due, posted>>
  BY DEF Search, Goto, tableVars, ghosts, IndexInv, TypeOK, ThreadTypeOK, ShmTypeOK,
         Header
<1>2. FreshAt(s)'
  BY <1>1 DEF FreshAt
<1>3. ASSUME NEW p \in due[s]
      PROVE  \E i \in DOMAIN Of(s) : /\ heap[Of(s)[i]] = msg_map_fill(k, p)
                                     /\ Passed(s, i)' => posted[s][p] > 0
  <2>1. PICK i \in DOMAIN Of(s) : /\ heap[Of(s)[i]] = msg_map_fill(k, p)
                                  /\ Passed(s, i) => posted[s][p] > 0
    BY <1>1 DEF DeliveryInv, DueAt, Delivering
  <2>2. Passed(s, i)' => i <= num[s]
    <3>1. Of(s)' = Of(s) /\ Of(s) = Chain(k) /\ heap[Chain(k)[i]].msg = k /\ i \in Nat
      BY <1>1, <2>1, HashType
         DEF Of, Chain, msg_map_fill, OrderInv, EntriesOK, TableInv, TableTypeOK
    <3>2. TableTypeOK
      BY DEF IndexInv, TypeOK
    <3>. HIDE DEF k
    <3>3. CASE m'[s] = NoNode
      BY <1>1, <2>1, <3>1, <3>2, <3>3, SearchMeaning
    <3>4. CASE m'[s] # NoNode
      <4>1. PICK j \in DOMAIN Chain(k) :
                /\ m'[s] = Chain(k)[j] /\ j > num[s]
                /\ i <= num[s] \/ j <= i
        BY <1>1, <2>1, <3>1, <3>2, <3>4, SearchMeaning
      <4>2. j \in Nat
        BY <1>1, <3>2, HashType DEF Chain, TableTypeOK
      <4>3. pc'[s] = "index"
        BY <1>1, <3>4
      <4>. QED BY <1>1, <3>1, <4>1, <4>2, <4>3 DEF Passed, Posting, Finding, Critical
    <3>. QED BY <3>3, <3>4
  <2>3. i <= num[s] => Passed(s, i)
    BY DEF Passed
  <2>. QED BY <2>1, <2>2, <2>3
<1>4. DueAt(s)'
  BY <1>1, <1>3 DEF DueAt, Of, Chain, msg_map_fill
<1>5. ASSUME NEW t \in Slot \ {s} PROVE FreshAt(t)' /\ DueAt(t)'
  BY <1>1, <1>5, OthersUntouched, SameDelivery DEF DeliveryInv, Thread
<1>. QED BY <1>2, <1>4, <1>5 DEF DeliveryInv

\* On its way from the search to the next one a thread passes the entry it found,
\* when it has posted to its process.
LEMMA LoopDelivery ==
    ASSUME Orderly, IndexInv, OrderInv, DeliveryInv, NEW s \in Slot, Thread(s),
           UNCHANGED <<msg_table, heap, m, shm, due>>,
           pc[s] \in Finding, pc'[s] \in Delivering,
           \A i \in Nat : Passed(s, i)' =>
               \/ Passed(s, i)
               \/ i = num[s] + 1 /\ m[s] = Of(s)[i] /\ posted'[s][heap[m[s]].pid] > 0,
           \A p \in Pid : posted[s][p] > 0 => posted'[s][p] > 0
    PROVE  DeliveryInv'
<1>1. FreshAt(s)'
  BY DEF FreshAt, Delivering, Finding, Critical
<1>2. ASSUME NEW p \in due[s]
      PROVE  \E i \in DOMAIN Of(s) : /\ heap[Of(s)[i]] = msg_map_fill(shm[s].msg, p)
                                     /\ Passed(s, i)' => posted'[s][p] > 0
  <2>1. PICK i \in DOMAIN Of(s) : /\ heap[Of(s)[i]] = msg_map_fill(shm[s].msg, p)
                                  /\ Passed(s, i) => posted[s][p] > 0
    BY <1>2 DEF DeliveryInv, DueAt, Delivering
  <2>2. i \in Nat /\ heap[Of(s)[i]].pid = p /\ p \in Pid
    BY <2>1, HashType DEF Of, Chain, msg_map_fill, IndexInv, TypeOK, TableTypeOK,
                          ShmTypeOK, Header, GhostTypeOK
  <2>. QED BY <2>1, <2>2
<1>3. DueAt(s)'
  BY <1>2 DEF DueAt, Of, Chain, msg_map_fill
<1>4. ASSUME NEW t \in Slot \ {s} PROVE FreshAt(t)' /\ DueAt(t)'
  BY <1>4, OthersUntouched, SameDelivery DEF DeliveryInv
<1>. QED BY <1>1, <1>3, <1>4 DEF DeliveryInv

LEMMA PostDelivery ==
    ASSUME Orderly, IndexInv, OrderInv, DeliveryInv, NEW s \in Slot,
           Index(s) \/ Lock(s) \/ Kill(s) \/ IncLoad(s) \/ IncStore(s) \/ SpinEnds(s)
    PROVE  DeliveryInv'
<1>. USE DEF Goto, tableVars, ghosts, localVars
<1>1. /\ pc \in [Slot -> Label] /\ num \in [Slot -> Nat] /\ Thread(s)
      /\ posted \in [Slot -> [Pid -> Nat]]
  BY DEF IndexInv, TypeOK, ThreadTypeOK, GhostTypeOK, Thread
<1>2. CASE Index(s) \/ Lock(s)
  <2>1. /\ UNCHANGED <<msg_table, heap, m, shm, due, num, posted>>
        /\ pc[s] \in {"index", "lock"} /\ pc'[s] \in {"lock", "kill"}
    BY <1>1, <1>2 DEF Index, Lock
  <2>2. \A i \in Nat : Passed(s, i)' => Passed(s, i)
    BY <1>1, <2>1 DEF Passed, Posting, Finding, Critical, Of, Chain, emi_hash
  <2>3. pc[s] \in Finding /\ pc'[s] \in Delivering
    BY <2>1 DEF Delivering, Finding, Critical
  <2>4. \A p \in Pid : posted[s][p] > 0 => posted'[s][p] > 0
    BY <2>1
  <2>. QED BY <1>1, <2>1, <2>2, <2>3, <2>4, LoopDelivery
<1>3. CASE Kill(s)
  <2>1. m[s] \in Node /\ heap[m[s]] # Freed /\ heap[m[s]].pid \in Pid /\ pc[s] = "kill"
        /\ proc[heap[m[s]].pid] = "live"
    BY <1>3 DEF Kill, IndexInv, LocalsOK, HasNode, HasCell, Critical, OrderInv,
                ThreadsOK, Finding, PeopleOK
  <2>2. /\ UNCHANGED <<msg_table, heap, m, shm, due, num>> /\ pc'[s] = "incload"
        /\ posted' = [posted EXCEPT ![s][heap[m[s]].pid] = @ + 1]
    BY <1>1, <1>3, <2>1, LiveRead DEF Kill
  <2>3. /\ posted'[s][heap[m[s]].pid] > 0
        /\ \A p \in Pid : posted[s][p] > 0 => posted'[s][p] > 0
    BY <1>1, <2>1, <2>2
  <2>4. \A i \in Nat : Passed(s, i)' =>
            Passed(s, i) \/ (i = num[s] + 1 /\ m[s] = Of(s)[i])
    BY <1>1, <2>1, <2>2 DEF Passed, Posting, Finding, Critical, Of, Chain, emi_hash
  <2>. QED BY <1>1, <2>1, <2>2, <2>3, <2>4, LoopDelivery DEF Delivering, Finding, Critical
<1>4. CASE IncLoad(s) \/ IncStore(s)
  <2>1. /\ UNCHANGED <<msg_table, heap, m, shm, due, num, posted>>
        /\ pc[s] \in Posting /\ pc'[s] \in Posting
    BY <1>1, <1>4 DEF IncLoad, IncStore, Posting
  <2>2. \A i \in Nat : Passed(s, i)' => Passed(s, i)
    BY <1>1, <2>1 DEF Passed, Posting, Finding, Critical, Of, Chain, emi_hash
  <2>3. pc[s] \in Finding /\ pc'[s] \in Delivering
    BY <2>1 DEF Delivering, Finding, Critical, Posting
  <2>4. \A p \in Pid : posted[s][p] > 0 => posted'[s][p] > 0
    BY <2>1
  <2>. QED BY <1>1, <2>1, <2>2, <2>3, <2>4, LoopDelivery
<1>5. CASE SpinEnds(s)
  <2>1. pc[s] = "spin" /\ pid_ret[s] = 0
    BY <1>5 DEF SpinEnds, OrderInv, ThreadsOK
  <2>2. /\ UNCHANGED <<msg_table, heap, m, shm, due, posted>>
        /\ pc'[s] = "search" /\ num'[s] = num[s] + 1
    BY <1>1, <1>5, <2>1 DEF SpinEnds
  <2>3. \A i \in Nat : Passed(s, i)' => Passed(s, i)
    BY <1>1, <2>1, <2>2 DEF Passed, Posting, Finding, Critical, Of, Chain, emi_hash
  <2>4. pc[s] \in Finding /\ pc'[s] \in Delivering
    BY <2>1, <2>2 DEF Delivering, Finding, Critical
  <2>5. \A p \in Pid : posted[s][p] > 0 => posted'[s][p] > 0
    BY <2>2
  <2>. QED BY <1>1, <2>2, <2>3, <2>4, <2>5, LoopDelivery
<1>. QED BY <1>2, <1>3, <1>4, <1>5

LEMMA LeaveDelivery ==
    ASSUME Orderly, IndexInv, OrderInv, DeliveryInv, NEW s \in Slot, Ack(s) \/ Finish(s)
    PROVE  DeliveryInv'
<1>1. /\ Leave(s) /\ UNCHANGED <<msg_table, heap>>
      /\ pc \in [Slot -> Label] /\ num \in [Slot -> Nat]
      /\ posted \in [Slot -> [Pid -> Nat]]
  BY DEF Ack, Finish, tableVars, IndexInv, TypeOK, ThreadTypeOK, GhostTypeOK
<1>2. pc'[s] = "idle" /\ num'[s] = 0 /\ \A p \in Pid : posted'[s][p] = 0
  BY <1>1 DEF Leave, Goto
<1>3. FreshAt(s)' /\ DueAt(s)'
  BY <1>2 DEF FreshAt, DueAt, Delivering, Finding, Critical
<1>4. ASSUME NEW t \in Slot \ {s} PROVE FreshAt(t)' /\ DueAt(t)'
  BY <1>1, <1>4, OthersUntouched, SameDelivery DEF DeliveryInv, Thread
<1>. QED BY <1>3, <1>4 DEF DeliveryInv

LEMMA DeliveryNext ==
    ASSUME Orderly, IndexInv, OrderInv, DeliveryInv, [Next]_vars
    PROVE  DeliveryInv'
<1>1. ASSUME NEW s \in Slot, Serve(s) PROVE DeliveryInv'
  BY <1>1, ServeDelivery
<1>2. ASSUME NEW s \in Slot, Thread(s) PROVE DeliveryInv'
  <2>1. ~(ExclusiveSearch(s) \/ ExclusiveWrite(s) \/ DeleteMap(s))
    BY DEF OrderInv, ThreadsOK, ExclusiveSearch, ExclusiveWrite, DeleteMap
  <2>. QED BY <1>2, <2>1, InsertDelivery, SearchDelivery, PostDelivery, LeaveDelivery
           DEF Thread
<1>3. ASSUME NEW p \in Pid, Handler(p) \/ Library(p) PROVE DeliveryInv'
  BY <1>3, ProcessUntouched, SameDelivery DEF DeliveryInv
<1>4. ASSUME NEW p \in Pid PROVE ~Environment(p)
  BY NobodyDies
<1>5. CASE UNCHANGED vars
  BY <1>5, SameDelivery DEF vars, tableVars, threadVars, ghosts, DeliveryInv
<1>. QED BY <1>1, <1>2, <1>3, <1>4, <1>5 DEF Next

\* Everybody who had registered a message when its delivery began has got it when
\* the loop is over (emi_core.c:425-470), whoever registers colliding messages
\* meanwhile and whatever other deliveries do.
THEOREM NoRegistrantMissedCorrect ==
    ASSUME Orderly
    PROVE  Spec => []NoRegistrantMissed
<1>1. Init => DeliveryInv
  BY DEF Init, DeliveryInv, FreshAt, DueAt, Delivering, Finding, Critical
<1>2. IndexInv /\ OrderInv /\ DeliveryInv /\ [Next]_vars => DeliveryInv'
  BY DeliveryNext
<1>3. DeliveryInv => NoRegistrantMissed
  BY DEF DeliveryInv, DueAt, Passed, NoRegistrantMissed
<1>. QED BY <1>1, <1>2, <1>3, IndexInvCorrect, OrderInvCorrect, PTL DEF Spec

-----------------------------------------------------------------------------
(* Registrations under way: RegInv ties each to the one thread that serves it. *)

Registering == {"insert", "ack"}

ThreadsRegister == \A s \in Slot : pc[s] \in Registering =>
    /\ shm[s].cmd = "REGISTER"
    /\ reg[shm[s].pid] = [step |-> "sent", msg |-> shm[s].msg, sd |-> s]

ProcessesRegister == \A p \in Pid :
    /\ reg[p].step = "sent" =>
          /\ reg[p].sd \in Slot /\ pc[reg[p].sd] \in Registering
          /\ shm[reg[p].sd].pid = p
    /\ reg[p].step # "sent" => reg[p].sd = NoSlot
    /\ reg[p].step \in {"sent", "acked"} => reg[p].msg \in asked[p] \ funcs[p]
    /\ reg[p].step = "listed" => reg[p].msg \in funcs[p]
    /\ funcs[p] \subseteq asked[p]

RegInv == ThreadsRegister /\ ProcessesRegister

\* Steps that neither begin, serve nor end a registration.
LEMMA RegSame ==
    ASSUME RegInv, UNCHANGED <<reg, asked, funcs>>,
           \A t \in Slot : pc'[t] \in Registering <=> pc[t] \in Registering,
           \A t \in Slot : pc[t] \in Registering =>
               shm'[t].cmd = shm[t].cmd /\ shm'[t].msg = shm[t].msg
               /\ shm'[t].pid = shm[t].pid
    PROVE  RegInv'
BY DEF RegInv, ThreadsRegister, ProcessesRegister

LEMMA ServeRegisterReg ==
    ASSUME Orderly, IndexInv, OrderInv, RegInv, NEW s \in Slot, NEW p \in Pid,
           NEW k \in Msg, NEW mode \in RegMode, ServeRegister(s, p, k, mode)
    PROVE  RegInv'
<1>1. /\ pc \in [Slot -> Label] /\ shm \in [Slot -> Header] /\ reg \in [Pid -> Reg]
      /\ asked \in [Pid -> SUBSET Msg] /\ pc[s] = "idle" /\ reg[p].step = "main"
      /\ k \notin asked[p] /\ asked' = [asked EXCEPT ![p] = @ \cup {k}]
      /\ reg' = [reg EXCEPT ![p] = [step |-> "sent", msg |-> k, sd |-> s]]
      /\ shm' = [shm EXCEPT ![s] = RegisterHeader(p, k, mode)]
      /\ funcs' = funcs
  BY DEF ServeRegister, IndexInv, TypeOK, ThreadTypeOK, ShmTypeOK, ProcTypeOK
<1>2. /\ RegisterHeader(p, k, mode).cmd = "REGISTER"
      /\ RegisterHeader(p, k, mode).pid = p /\ RegisterHeader(p, k, mode).msg = k
  BY DEF RegisterHeader
<1>3. pc' = [pc EXCEPT ![s] = "insert"]
  BY <1>1, <1>2 DEF ServeRegister, Dispatch, Goto
<1>4. \A t \in Slot : pc[t] \in Registering => shm[t].pid # p /\ t # s
  <2>. SUFFICES ASSUME NEW t \in Slot, pc[t] \in Registering
                PROVE  shm[t].pid # p /\ t # s
    OBVIOUS
  <2>1. reg[shm[t].pid] = [step |-> "sent", msg |-> shm[t].msg, sd |-> t]
    BY DEF RegInv, ThreadsRegister
  <2>. QED BY <1>1, <2>1 DEF Registering
<1>5. ThreadsRegister'
  <2>. SUFFICES ASSUME NEW t \in Slot, pc'[t] \in Registering
                PROVE  /\ shm'[t].cmd = "REGISTER"
                       /\ reg'[shm'[t].pid] = [step |-> "sent", msg |-> shm'[t].msg,
                                               sd |-> t]
    BY DEF ThreadsRegister
  <2>1. CASE t = s
    BY <1>1, <1>2, <2>1
  <2>2. CASE t # s
    <3>1. /\ pc[t] \in Registering /\ shm'[t] = shm[t] /\ shm[t].cmd = "REGISTER"
          /\ shm[t].pid \in Pid
      BY <1>1, <1>3, <2>2 DEF RegInv, ThreadsRegister, IndexInv, HeadersOK
    <3>. QED BY <1>1, <1>4, <3>1 DEF RegInv, ThreadsRegister
  <2>. QED BY <2>1, <2>2
<1>6. ProcessesRegister'
  <2>. SUFFICES ASSUME NEW q \in Pid
                PROVE  /\ reg'[q].step = "sent" =>
                             /\ reg'[q].sd \in Slot /\ pc'[reg'[q].sd] \in Registering
                             /\ shm'[reg'[q].sd].pid = q
                       /\ reg'[q].step # "sent" => reg'[q].sd = NoSlot
                       /\ reg'[q].step \in {"sent", "acked"} =>
                             reg'[q].msg \in asked'[q] \ funcs[q]
                       /\ reg'[q].step = "listed" => reg'[q].msg \in funcs[q]
                       /\ funcs[q] \subseteq asked'[q]
    BY <1>1 DEF ProcessesRegister
  <2>1. CASE q = p
    BY <1>1, <1>2, <1>3, <2>1 DEF RegInv, ProcessesRegister, Registering
  <2>2. CASE q # p
    BY <1>1, <1>3, <1>4, <2>2 DEF RegInv, ProcessesRegister
  <2>. QED BY <2>1, <2>2
<1>. QED BY <1>5, <1>6 DEF RegInv

LEMMA InsertReg ==
    ASSUME Orderly, IndexInv, OrderInv, RegInv, NEW s \in Slot, InsertMap(s)
    PROVE  RegInv'
<1>1. /\ pc \in [Slot -> Label] /\ pc[s] = "insert"
      /\ UNCHANGED <<reg, asked, funcs, shm>>
  BY DEF InsertMap, libVars, IndexInv, TypeOK, ThreadTypeOK
<1>2. pc' = [pc EXCEPT ![s] = "ack"]
  BY <1>1 DEF InsertMap, Goto, OrderInv, ThreadsOK, IndexInv, HeadersOK
<1>. QED BY <1>1, <1>2, RegSame DEF Registering

\* The answer ends the registration of the thread's own process.
LEMMA AckReg ==
    ASSUME Orderly, IndexInv, OrderInv, RegInv, NEW s \in Slot, Ack(s)
    PROVE  RegInv'
<1>1. /\ pc \in [Slot -> Label] /\ shm \in [Slot -> Header] /\ reg \in [Pid -> Reg]
      /\ pc[s] = "ack" /\ pc' = [pc EXCEPT ![s] = "idle"]
      /\ \A t \in Slot \ {s} : shm'[t] = shm[t]
      /\ UNCHANGED <<asked, funcs>>
  BY DEF Ack, Leave, Goto, IndexInv, TypeOK, ThreadTypeOK, ShmTypeOK, ProcTypeOK
<1>2. reg' = [p \in Pid |-> IF reg[p].sd # s THEN reg[p]
                            ELSE [reg[p] EXCEPT !.step = "acked", !.sd = NoSlot]]
  <2>1. PICK lost \in {FALSE, "reset" \in Env} :
            reg' = [p \in Pid |->
                       IF reg[p].sd # s THEN reg[p]
                       ELSE IF lost THEN NoReg
                       ELSE [reg[p] EXCEPT !.step = "acked", !.sd = NoSlot]]
    BY DEF Ack
  <2>2. ~lost
    BY Zenon DEF Orderly
  <2>. QED BY <2>1, <2>2
<1>3. \A p \in Pid : reg[p].sd # s => reg'[p] = reg[p]
  BY <1>2
<1>4. \A p \in Pid : reg[p].sd = s =>
          /\ reg[p].step = "sent" /\ reg'[p].step = "acked"
          /\ reg'[p].sd = NoSlot /\ reg'[p].msg = reg[p].msg
  <2>. SUFFICES ASSUME NEW p \in Pid, reg[p].sd = s
                PROVE  /\ reg[p].step = "sent" /\ reg'[p].step = "acked"
                       /\ reg'[p].sd = NoSlot /\ reg'[p].msg = reg[p].msg
    OBVIOUS
  <2>1. reg[p].step = "sent"
    BY SlotAssumption DEF RegInv, ProcessesRegister
  <2>2. reg'[p] = [reg[p] EXCEPT !.step = "acked", !.sd = NoSlot]
    BY <1>2
  <2>. QED BY <1>1, <2>1, <2>2 DEF Reg
<1>5. ThreadsRegister'
  <2>. SUFFICES ASSUME NEW t \in Slot, pc'[t] \in Registering
                PROVE  /\ shm'[t].cmd = "REGISTER"
                       /\ reg'[shm'[t].pid] = [step |-> "sent", msg |-> shm'[t].msg,
                                               sd |-> t]
    BY DEF ThreadsRegister
  <2>1. /\ t # s /\ pc[t] \in Registering /\ shm'[t] = shm[t]
        /\ shm[t].cmd = "REGISTER" /\ shm[t].pid \in Pid
    BY <1>1 DEF Registering, RegInv, ThreadsRegister, IndexInv, HeadersOK
  <2>2. reg[shm[t].pid] = [step |-> "sent", msg |-> shm[t].msg, sd |-> t]
    BY <2>1 DEF RegInv, ThreadsRegister
  <2>. QED BY <1>3, <2>1, <2>2
<1>6. ProcessesRegister'
  <2>. SUFFICES ASSUME NEW q \in Pid
                PROVE  /\ reg'[q].step = "sent" =>
                             /\ reg'[q].sd \in Slot /\ pc'[reg'[q].sd] \in Registering
                             /\ shm'[reg'[q].sd].pid = q
                       /\ reg'[q].step # "sent" => reg'[q].sd = NoSlot
                       /\ reg'[q].step \in {"sent", "acked"} =>
                             reg'[q].msg \in asked[q] \ funcs[q]
                       /\ reg'[q].step = "listed" => reg'[q].msg \in funcs[q]
                       /\ funcs[q] \subseteq asked[q]
    BY <1>1 DEF ProcessesRegister
  <2>1. CASE reg[q].sd = s
    BY <1>4, <2>1 DEF RegInv, ProcessesRegister
  <2>2. CASE reg[q].sd # s
    BY <1>1, <1>3, <2>2 DEF RegInv, ProcessesRegister
  <2>. QED BY <2>1, <2>2
<1>. QED BY <1>5, <1>6 DEF RegInv

\* A process lists what was answered, and its registration ends.
LEMMA LibraryReg ==
    ASSUME Orderly, IndexInv, OrderInv, RegInv, NEW p \in Pid, Library(p)
    PROVE  RegInv'
<1>1. /\ reg \in [Pid -> Reg] /\ funcs \in [Pid -> SUBSET Msg]
      /\ UNCHANGED <<pc, shm, asked>>
  BY DEF Library, ListAdd, SigAction, threadVars, IndexInv, TypeOK, ProcTypeOK
<1>2. reg[p].step # "sent" /\ reg'[p].step # "sent" /\ reg'[p].sd = NoSlot
  BY <1>1 DEF Library, ListAdd, SigAction, Reg, NoReg, RegInv, ProcessesRegister
<1>3. \A q \in Pid \ {p} : reg'[q] = reg[q] /\ funcs'[q] = funcs[q]
  BY <1>1 DEF Library, ListAdd, SigAction
<1>4. /\ reg'[p].step \notin {"sent", "acked"}
      /\ reg'[p].step = "listed" => reg'[p].msg \in funcs'[p]
      /\ funcs'[p] \subseteq asked[p]
  BY <1>1 DEF Library, ListAdd, SigAction, Reg, NoReg, RegInv, ProcessesRegister
<1>5. ThreadsRegister'
  BY <1>1, <1>2, <1>3 DEF RegInv, ThreadsRegister, IndexInv, HeadersOK
<1>6. ProcessesRegister'
  BY <1>1, <1>2, <1>3, <1>4 DEF RegInv, ProcessesRegister
<1>. QED BY <1>5, <1>6 DEF RegInv

LEMMA LoopReg ==
    ASSUME Orderly, IndexInv, OrderInv, RegInv, NEW s \in Slot,
           \/ \E k \in SendMsg, mode \in SendMode : \E ok \in Carried(mode) :
                  ServeSend(s, k, mode, ok)
           \/ Search(s) \/ Index(s) \/ Lock(s) \/ Kill(s) \/ IncLoad(s) \/ IncStore(s)
           \/ SpinEnds(s) \/ Finish(s)
    PROVE  RegInv'
<1>. USE DEF IndexInv, TypeOK, ThreadTypeOK, ShmTypeOK, Goto, libVars, Registering
<1>1. /\ pc[s] \notin Registering /\ pc'[s] \notin Registering
      /\ UNCHANGED <<reg, asked, funcs>>
      /\ \A t \in Slot \ {s} : pc'[t] = pc[t] /\ shm'[t] = shm[t]
  <2>1. CASE \E k \in SendMsg, mode \in SendMode : \E ok \in Carried(mode) :
                ServeSend(s, k, mode, ok)
    <3>1. PICK k \in SendMsg, mode \in SendMode, ok \in BOOLEAN : ServeSend(s, k, mode, ok)
      BY <2>1 DEF Carried
    <3>2. /\ pc[s] = "idle" /\ shm' = [shm EXCEPT ![s] = SendHeader(k, mode, ok)]
          /\ SendHeader(k, mode, ok).cmd = "SEND"
      BY <3>1 DEF ServeSend, SendHeader, ZeroHeader
    <3>3. pc' = [pc EXCEPT ![s] = "search"]
      BY <3>1, <3>2 DEF ServeSend, Dispatch
    <3>. QED BY <3>1, <3>2, <3>3 DEF ServeSend
  <2>2. CASE Search(s) \/ Index(s) \/ Lock(s) \/ IncLoad(s) \/ IncStore(s)
    BY <2>2 DEF Search, Index, Lock, IncLoad, IncStore
  <2>3. CASE Kill(s)
    BY <2>3 DEF Kill
  <2>4. CASE SpinEnds(s) \/ Finish(s)
    BY <2>4 DEF SpinEnds, Finish, Leave
  <2>. QED BY <2>1, <2>2, <2>3, <2>4
<1>. QED BY <1>1, RegSame

LEMMA RegNext ==
    ASSUME Orderly, IndexInv, OrderInv, RegInv, [Next]_vars
    PROVE  RegInv'
<1>1. ASSUME NEW s \in Slot, Serve(s) PROVE RegInv'
  BY <1>1, ServeRegisterReg, LoopReg DEF Serve, Orderly, ShortData, ReadFails
<1>2. ASSUME NEW s \in Slot, Thread(s) PROVE RegInv'
  <2>1. ~(ExclusiveSearch(s) \/ ExclusiveWrite(s) \/ DeleteMap(s))
    BY DEF OrderInv, ThreadsOK, ExclusiveSearch, ExclusiveWrite, DeleteMap
  <2>. QED BY <1>2, <2>1, InsertReg, AckReg, LoopReg DEF Thread
<1>3. ASSUME NEW p \in Pid, Handler(p) PROVE RegInv'
  <2>1. UNCHANGED <<reg, asked, funcs>>
    BY <1>3 DEF Handler, Pickup, Handle, DecLoad, DecStore, libVars
  <2>. QED BY <1>3, <2>1, ProcessUntouched, RegSame
<1>4. ASSUME NEW p \in Pid, Library(p) PROVE RegInv'
  BY <1>4, LibraryReg
<1>5. ASSUME NEW p \in Pid PROVE ~Environment(p)
  BY NobodyDies
<1>6. CASE UNCHANGED vars
  BY <1>6, RegSame DEF vars, threadVars, libVars
<1>. QED BY <1>1, <1>2, <1>3, <1>4, <1>5, <1>6 DEF Next

LEMMA RegInit == Init => RegInv
BY DEF Init, RegInv, ThreadsRegister, ProcessesRegister, Registering, NoReg

-----------------------------------------------------------------------------
(* Without collisions nothing joins the chain a thread walks along: who asks  *)
(* for its message is in that chain already.  OnceInv counts along the chain. *)

Behind(s, i) == i <= num[s] \/ (i = num[s] + 1 /\ pc[s] \in Posting)

PlaceAt(s) == pc[s] \in Finding =>
                  num[s] + 1 \in DOMAIN Of(s) /\ m[s] = Of(s)[num[s] + 1]

OnceAt(s) ==
    /\ pc[s] = "wait" => \A p \in Pid : posted[s][p] <= 1
    /\ pc[s] \in Delivering => \A p \in Pid : posted[s][p] # 0 =>
          /\ posted[s][p] = 1
          /\ \E i \in DOMAIN Of(s) : Behind(s, i)
                                     /\ heap[Of(s)[i]] = msg_map_fill(shm[s].msg, p)

OnceInv == \A s \in Slot : PlaceAt(s) /\ OnceAt(s)

LEMMA SameOnce ==
    ASSUME NEW s \in Slot, PlaceAt(s), OnceAt(s), Of(s)' = Of(s),
           \A i \in DOMAIN Of(s) : heap'[Of(s)[i]] = heap[Of(s)[i]],
           pc'[s] = pc[s], num'[s] = num[s], m'[s] = m[s], posted'[s] = posted[s],
           shm'[s].msg = shm[s].msg
    PROVE  PlaceAt(s)' /\ OnceAt(s)'
BY DEF PlaceAt, OnceAt, Behind, msg_map_fill

\* An insertion does not touch the chain of a delivery.
LEMMA InsertElsewhere ==
    ASSUME Orderly, Distinct, IndexInv, OrderInv, RegInv, NEW s \in Slot, InsertMap(s),
           NEW t \in Slot, pc[t] \in Delivering
    PROVE  Of(t)' = Of(t) /\ \A i \in DOMAIN Of(t) : heap'[Of(t)[i]] = heap[Of(t)[i]]
<1>. DEFINE e == msg_map_fill(shm[s].msg, shm[s].pid)
<1>1. /\ emi_hinsert(e) /\ pc[s] = "insert" /\ shm' = shm
      /\ shm[s].cmd = "REGISTER" /\ shm[s].pid \in Pid
      /\ shm[s].msg \in Msg /\ shm[t].msg \in Msg /\ e.msg = shm[s].msg
  BY DEF InsertMap, IndexInv, HeadersOK, TypeOK, ShmTypeOK, Header, msg_map_fill
<1>2. shm[t].msg # shm[s].msg
  <2>1. reg[shm[s].pid] = [step |-> "sent", msg |-> shm[s].msg, sd |-> s]
    BY <1>1 DEF RegInv, ThreadsRegister, Registering
  <2>2. shm[s].msg \notin funcs[shm[s].pid]
    BY <1>1, <2>1 DEF RegInv, ProcessesRegister
  <2>3. shm[s].msg \in Interest[shm[s].pid]
    BY <1>1 DEF OrderInv, ThreadsOK
  <2>. QED BY <1>1, <2>2, <2>3 DEF OrderInv, ThreadsOK, AllReady, Ready
<1>3. /\ emi_hash(shm[t].msg) \in Bucket /\ TableTypeOK
      /\ Of(t) = msg_table[emi_hash(shm[t].msg)]
      /\ Of(t)' = msg_table'[emi_hash(shm[t].msg)]
  BY <1>1, HashType DEF Of, Chain, emi_hash, IndexInv, TypeOK
<1>4. emi_hash(e.msg) # emi_hash(shm[t].msg)
  BY <1>1, <1>2 DEF Distinct
<1>. HIDE DEF e
<1>5. CASE UNCHANGED tableVars
  BY <1>3, <1>5 DEF tableVars
<1>6. CASE __emi_hinsert(e) /\ ~UNCHANGED tableVars
  <2>1. PICK n \in FreeNode :
            /\ heap' = [heap EXCEPT ![n] = e]
            /\ msg_table' = [msg_table EXCEPT ![emi_hash(e.msg)] = <<n>> \o @]
    BY <1>6 DEF __emi_hinsert
  <2>2. \A i \in DOMAIN Of(t) : Of(t)[i] \in Node /\ heap[Of(t)[i]] # Freed
    BY <1>3, FreedAssumption
       DEF OrderInv, EntriesOK, TableInv, NodesInPlace, TableTypeOK, MsgMap
  <2>. QED BY <1>3, <1>4, <2>1, <2>2 DEF FreeNode, TableTypeOK
<1>. QED BY <1>1, <1>5, <1>6 DEF emi_hinsert

LEMMA InsertOnce ==
    ASSUME Orderly, Distinct, IndexInv, OrderInv, RegInv, OnceInv, NEW s \in Slot,
           InsertMap(s)
    PROVE  OnceInv'
<1>1. /\ pc[s] = "insert" /\ UNCHANGED <<num, m, shm, posted>>
      /\ pc' = [pc EXCEPT ![s] = "ack"] /\ pc \in [Slot -> Label]
  BY DEF InsertMap, Goto, localVars, ghosts, OrderInv, ThreadsOK, IndexInv, HeadersOK,
         TypeOK, ThreadTypeOK
<1>2. ASSUME NEW t \in Slot PROVE PlaceAt(t)' /\ OnceAt(t)'
  <2>1. CASE t = s
    BY <1>1, <2>1 DEF PlaceAt, OnceAt, Delivering, Finding, Critical
  <2>2. CASE t # s /\ pc[t] \in Delivering
    BY <1>1, <2>2, InsertElsewhere, SameOnce DEF OnceInv
  <2>3. CASE t # s /\ pc[t] \notin Delivering
    BY <1>1, <2>3 DEF OnceInv, PlaceAt, OnceAt, Delivering
  <2>. QED BY <2>1, <2>2, <2>3
<1>. QED BY <1>2 DEF OnceInv

\* A connection's step that leaves the table alone is about its own delivery.
LEMMA OthersOnce ==
    ASSUME Orderly, IndexInv, OrderInv, OnceInv, NEW s \in Slot, Serve(s) \/ Thread(s),
           UNCHANGED <<msg_table, heap>>, PlaceAt(s)', OnceAt(s)'
    PROVE  OnceInv'
<1>1. ASSUME NEW t \in Slot \ {s} PROVE PlaceAt(t)' /\ OnceAt(t)'
  <2>1. Of(t)' = Of(t) /\ shm'[t] = shm[t]
    BY OthersUntouched DEF Of, Chain, emi_hash
  <2>. QED BY <2>1, OthersUntouched, SameOnce DEF OnceInv
<1>. QED BY <1>1 DEF OnceInv

LEMMA ServeOnce ==
    ASSUME Orderly, IndexInv, OrderInv, DeliveryInv, OnceInv, NEW s \in Slot, Serve(s)
    PROVE  OnceInv'
<1>1. /\ pc[s] = "idle" /\ pc'[s] \in {"insert", "search"}
      /\ UNCHANGED <<msg_table, heap, posted>>
  <2>. USE DEF IndexInv, TypeOK, ThreadTypeOK, ShmTypeOK, Goto, localVars,
               tableVars, Orderly, Serve, Dispatch
  <2>1. CASE \E k \in SendMsg, mode \in SendMode : \E ok \in Carried(mode) :
                ServeSend(s, k, mode, ok)
    BY <2>1 DEF ServeSend
  <2>2. CASE \E p \in Pid, k \in Msg, mode \in RegMode : ServeRegister(s, p, k, mode)
    BY <2>2 DEF ServeRegister
  <2>. QED BY <2>1, <2>2 DEF ShortData, ReadFails
<1>2. \A p \in Pid : posted'[s][p] = 0
  BY <1>1 DEF DeliveryInv, FreshAt
<1>3. PlaceAt(s)' /\ OnceAt(s)'
  BY <1>1, <1>2 DEF PlaceAt, OnceAt, Finding, Critical
<1>. QED BY <1>1, <1>3, OthersOnce

\* Every entry of the chain is of the message, so that the search returns the next.
LEMMA SearchOnce ==
    ASSUME Orderly, Distinct, IndexInv, OrderInv, OnceInv, NEW s \in Slot, Search(s)
    PROVE  OnceInv'
<1>. DEFINE k == shm[s].msg
<1>1. /\ k \in Msg /\ num[s] \in Nat /\ pc[s] = "search"
      /\ m'[s] = __emi_hsearch(k, num[s])
      /\ pc'[s] = (IF m'[s] = NoNode THEN "wait" ELSE "index")
      /\ UNCHANGED <<msg_table, heap, num, shm, posted>>
      /\ posted \in [Slot -> [Pid -> Nat]]
  BY DEF Search, Goto, tableVars, ghosts, IndexInv, TypeOK, ThreadTypeOK, ShmTypeOK,
         Header, GhostTypeOK
<1>2. Of(s)' = Of(s) /\ Of(s) = Chain(k)
  BY <1>1 DEF Of, Chain, emi_hash
<1>3. PlaceAt(s)'
  <2>. SUFFICES ASSUME m'[s] # NoNode
                PROVE  num[s] + 1 \in DOMAIN Of(s) /\ m'[s] = Of(s)[num[s] + 1]
    BY <1>1, <1>2 DEF PlaceAt, Finding, Critical
  <2>1. TableTypeOK /\ Chain(k) \in Seq(Node)
    BY <1>1, HashType DEF IndexInv, TypeOK, TableTypeOK, Chain
  <2>2. \A i \in DOMAIN Chain(k) : heap[Chain(k)[i]].msg = k
    BY <1>1, HashType
       DEF Distinct, OrderInv, EntriesOK, TableInv, NodesInPlace, MsgMap, Chain
  <2>. HIDE DEF k
  <2>3. PICK j \in DOMAIN Chain(k) :
            /\ m'[s] = Chain(k)[j] /\ j > num[s]
            /\ \A i \in DOMAIN Chain(k) :
                   heap[Chain(k)[i]].msg = k => i <= num[s] \/ j <= i
    BY <1>1, <2>1, SearchMeaning
  <2>4. num[s] + 1 \in DOMAIN Chain(k)
    BY <1>1, <2>1, <2>3
  <2>5. j = num[s] + 1
    BY <1>1, <2>1, <2>2, <2>3, <2>4
  <2>. QED BY <1>2, <2>3, <2>4, <2>5
<1>4. OnceAt(s)'
  <2>1. \A p \in Pid : posted[s][p] # 0 =>
            /\ posted[s][p] = 1
            /\ \E i \in DOMAIN Of(s) : i <= num[s] /\ heap[Of(s)[i]] = msg_map_fill(k, p)
    BY <1>1 DEF OnceInv, OnceAt, Behind, Delivering, Posting
  <2>2. \A p \in Pid : posted'[s][p] <= 1
    BY <1>1, <2>1
  <2>3. pc'[s] \in Delivering => \A p \in Pid : posted'[s][p] # 0 =>
            /\ posted'[s][p] = 1
            /\ \E i \in DOMAIN Of(s)' :
                   Behind(s, i)' /\ heap'[Of(s)'[i]] = msg_map_fill(shm'[s].msg, p)
    BY <1>1, <1>2, <2>1 DEF Behind
  <2>. QED BY <2>2, <2>3 DEF OnceAt, msg_map_fill
<1>. QED BY <1>1, <1>3, <1>4, OthersOnce DEF Thread

\* The entry a thread comes to is of a process it has not posted to: maps differ.
LEMMA KillOnce ==
    ASSUME Orderly, IndexInv, OrderInv, OnceInv, NEW s \in Slot, Kill(s)
    PROVE  OnceInv'
<1>. DEFINE q == heap[m[s]].pid
<1>1. m[s] \in Node /\ heap[m[s]] # Freed /\ q \in Pid /\ pc[s] = "kill"
      /\ proc[q] = "live" /\ heap[m[s]].msg = shm[s].msg
  BY DEF Kill, IndexInv, LocalsOK, HasNode, HasCell, Critical, OrderInv,
         ThreadsOK, Finding, PeopleOK
<1>2. /\ UNCHANGED <<msg_table, heap, m, shm, num>> /\ pc'[s] = "incload"
      /\ posted' = [posted EXCEPT ![s][q] = @ + 1]
      /\ posted \in [Slot -> [Pid -> Nat]] /\ num[s] \in Nat
  BY <1>1, LiveRead
     DEF Kill, Goto, tableVars, IndexInv, TypeOK, ThreadTypeOK, GhostTypeOK
<1>3. /\ num[s] + 1 \in DOMAIN Of(s) /\ m[s] = Of(s)[num[s] + 1] /\ Of(s)' = Of(s)
      /\ heap[m[s]] = msg_map_fill(shm[s].msg, q)
  <2>1. heap[m[s]] \in MsgMap
    BY <1>1 DEF IndexInv, TypeOK, TableTypeOK
  <2>. QED BY <1>1, <1>2, <2>1 DEF OnceInv, PlaceAt, Finding, Critical, Of, Chain, emi_hash,
                                   msg_map_fill, MsgMap
<1>. HIDE DEF q
<1>4. \A p \in Pid : posted[s][p] # 0 =>
          /\ posted[s][p] = 1
          /\ \E i \in DOMAIN Of(s) : i <= num[s]
                                     /\ heap[Of(s)[i]] = msg_map_fill(shm[s].msg, p)
  BY <1>1 DEF OnceInv, OnceAt, Behind, Delivering, Finding, Critical, Posting
<1>5. posted[s][q] = 0
  <2>. SUFFICES ASSUME posted[s][q] # 0 PROVE FALSE
    OBVIOUS
  <2>1. PICK i \in DOMAIN Of(s) : i <= num[s]
                                  /\ heap[Of(s)[i]] = msg_map_fill(shm[s].msg, q)
    BY <1>1, <1>4
  <2>2. i = num[s] + 1
    BY <1>3, <2>1, HashType DEF OrderInv, EntriesOK, TableInv, MapsDiffer, Of, Chain,
                                IndexInv, TypeOK, ShmTypeOK, Header
  <2>. QED BY <1>2, <2>1, <2>2
<1>6. PlaceAt(s)'
  BY <1>2, <1>3 DEF PlaceAt
<1>7. OnceAt(s)'
  <2>1. ASSUME NEW p \in Pid, posted'[s][p] # 0
        PROVE  /\ posted'[s][p] = 1
               /\ \E i \in DOMAIN Of(s) :
                     /\ i <= num[s] \/ i = num[s] + 1
                     /\ heap[Of(s)[i]] = msg_map_fill(shm[s].msg, p)
    <3>1. CASE p = q
      BY <1>1, <1>2, <1>3, <1>5, <3>1
    <3>2. CASE p # q
      BY <1>1, <1>2, <1>4, <2>1, <3>2
    <3>. QED BY <3>1, <3>2
  <2>. QED BY <1>2, <1>3, <2>1 DEF OnceAt, Behind, Posting, msg_map_fill
<1>. QED BY <1>2, <1>6, <1>7, OthersOnce DEF Thread

LEMMA LoopOnce ==
    ASSUME Orderly, IndexInv, OrderInv, OnceInv, NEW s \in Slot,
           Index(s) \/ Lock(s) \/ IncLoad(s) \/ IncStore(s) \/ SpinEnds(s)
    PROVE  OnceInv'
<1>. USE DEF Goto, tableVars, ghosts, localVars
<1>1. pc \in [Slot -> Label] /\ num \in [Slot -> Nat] /\ Thread(s)
  BY DEF IndexInv, TypeOK, ThreadTypeOK, Thread
<1>2. UNCHANGED <<msg_table, heap, m, shm, posted>>
  BY DEF Index, Lock, IncLoad, IncStore, SpinEnds
<1>3. Of(s)' = Of(s)
  BY <1>2 DEF Of, Chain, emi_hash
<1>4. CASE Index(s) \/ Lock(s) \/ IncLoad(s) \/ IncStore(s)
  <2>1. /\ pc[s] \in Finding /\ pc'[s] \in Finding /\ num'[s] = num[s]
        /\ pc[s] \in Posting <=> pc'[s] \in Posting
    BY <1>1, <1>4 DEF Index, Lock, IncLoad, IncStore, Finding, Critical, Posting
  <2>2. PlaceAt(s)'
    BY <1>2, <1>3, <2>1 DEF OnceInv, PlaceAt
  <2>3. pc'[s] # "wait" /\ pc[s] \in Delivering
    BY <2>1 DEF Delivering, Finding, Critical
  <2>4. OnceAt(s)'
    BY <1>2, <1>3, <2>1, <2>3 DEF OnceInv, OnceAt, Behind, msg_map_fill
  <2>. QED BY <1>1, <1>2, <2>2, <2>4, OthersOnce
<1>5. CASE SpinEnds(s)
  <2>1. pc[s] = "spin" /\ pid_ret[s] = 0
    BY <1>5 DEF SpinEnds, OrderInv, ThreadsOK
  <2>2. pc'[s] = "search" /\ num'[s] = num[s] + 1
    BY <1>1, <1>5, <2>1 DEF SpinEnds
  <2>3. PlaceAt(s)'
    BY <2>2 DEF PlaceAt, Finding, Critical
  <2>4. \A i \in Nat : Behind(s, i) => Behind(s, i)'
    BY <1>1, <2>2 DEF Behind
  <2>5. Of(s) \in Seq(Node)
    BY HashType DEF Of, Chain, IndexInv, TypeOK, TableTypeOK, ShmTypeOK, Header
  <2>6. OnceAt(s)'
    BY <1>2, <1>3, <2>1, <2>2, <2>4, <2>5
       DEF OnceInv, OnceAt, msg_map_fill, Delivering, Finding, Critical
  <2>. QED BY <1>1, <1>2, <2>3, <2>6, OthersOnce
<1>. QED BY <1>4, <1>5

LEMMA LeaveOnce ==
    ASSUME Orderly, IndexInv, OrderInv, OnceInv, NEW s \in Slot, Ack(s) \/ Finish(s)
    PROVE  OnceInv'
<1>1. pc'[s] = "idle" /\ UNCHANGED <<msg_table, heap>>
  BY DEF Ack, Finish, Leave, Goto, tableVars, IndexInv, TypeOK, ThreadTypeOK
<1>2. PlaceAt(s)' /\ OnceAt(s)'
  BY <1>1 DEF PlaceAt, OnceAt, Delivering, Finding, Critical
<1>. QED BY <1>1, <1>2, OthersOnce DEF Thread

LEMMA OnceNext ==
    ASSUME Orderly, Distinct, IndexInv, OrderInv, DeliveryInv, RegInv, OnceInv,
           [Next]_vars
    PROVE  OnceInv'
<1>1. ASSUME NEW s \in Slot, Serve(s) PROVE OnceInv'
  BY <1>1, ServeOnce
<1>2. ASSUME NEW s \in Slot, Thread(s) PROVE OnceInv'
  <2>1. ~(ExclusiveSearch(s) \/ ExclusiveWrite(s) \/ DeleteMap(s))
    BY DEF OrderInv, ThreadsOK, ExclusiveSearch, ExclusiveWrite, DeleteMap
  <2>. QED BY <1>2, <2>1, InsertOnce, SearchOnce, KillOnce, LoopOnce, LeaveOnce
           DEF Thread
<1>3. ASSUME NEW p \in Pid, Handler(p) \/ Library(p) PROVE OnceInv'
  <2>1. \A s \in Slot : Of(s)' = Of(s)
    BY <1>3, ProcessUntouched DEF Of, Chain, emi_hash
  <2>. QED BY <1>3, <2>1, ProcessUntouched, SameOnce DEF OnceInv
<1>4. ASSUME NEW p \in Pid PROVE ~Environment(p)
  BY NobodyDies
<1>5. CASE UNCHANGED vars
  <2>1. \A s \in Slot : Of(s)' = Of(s)
    BY <1>5 DEF Of, Chain, emi_hash, vars, tableVars
  <2>. QED BY <1>5, <2>1, SameOnce DEF OnceInv, vars, tableVars, threadVars, ghosts
<1>. QED BY <1>1, <1>2, <1>3, <1>4, <1>5 DEF Next

\* A delivery posts to each process at most once (msg_pos->count counts processes,
\* emi.h:69), for every number of threads, processes and messages that do not
\* collide in the table.
THEOREM PostedOnceCorrect ==
    ASSUME Orderly, Distinct
    PROVE  Spec => []PostedOnce
<1>1. Init => DeliveryInv
  BY DEF Init, DeliveryInv, FreshAt, DueAt, Delivering, Finding, Critical
<1>2. Init => OnceInv
  BY DEF Init, OnceInv, PlaceAt, OnceAt, Delivering, Finding, Critical
<1>3. IndexInv /\ OrderInv /\ DeliveryInv /\ [Next]_vars => DeliveryInv'
  BY DeliveryNext
<1>4. IndexInv /\ OrderInv /\ RegInv /\ [Next]_vars => RegInv'
  BY RegNext
<1>5. IndexInv /\ OrderInv /\ DeliveryInv /\ RegInv /\ OnceInv /\ [Next]_vars => OnceInv'
  BY OnceNext
<1>6. IndexInv /\ OrderInv /\ DeliveryInv /\ OnceInv => PostedOnce
  <2>. SUFFICES ASSUME IndexInv, OrderInv, DeliveryInv, OnceInv,
                       NEW s \in Slot, NEW p \in Pid
                PROVE  posted[s][p] <= 1
    BY DEF PostedOnce
  <2>1. CASE pc[s] \in {"idle", "insert", "ack"}
    BY <2>1 DEF DeliveryInv, FreshAt
  <2>2. CASE pc[s] \in Delivering
    BY <2>2 DEF OnceInv, OnceAt
  <2>3. CASE pc[s] = "wait"
    BY <2>3 DEF OnceInv, OnceAt
  <2>. QED BY <2>1, <2>2, <2>3 DEF OrderInv, ThreadsOK, IndexInv, TypeOK, ThreadTypeOK,
                                   Label, Delivering, Finding, Critical
<1>. QED BY <1>1, <1>2, <1>3, <1>4, <1>5, <1>6, RegInit, IndexInvCorrect,
            OrderInvCorrect, PTL DEF Spec

-----------------------------------------------------------------------------
(* With enough memory a registration that is answered is in the table.       *)

Asks == {e \in MsgMap : e.msg \in Interest[e.pid]}

\* malloc does not fail while every map that may be asked for has an address.
Enough == /\ IsFiniteSet(Asks)
          /\ IsFiniteSet(Node) => Cardinality(Asks) <= Cardinality(Node)

ListedInv ==
    /\ AllLinked
    /\ \A s \in Slot : pc[s] = "ack" => Registered(shm[s].msg, shm[s].pid)
    /\ \A p \in Pid : /\ reg[p].step = "acked" => Registered(reg[p].msg, p)
                      /\ \A k \in funcs[p] : Registered(k, p)

\* When no address is free, one map per address are all maps there are.
LEMMA FullHasAll ==
    ASSUME Enough, EntriesOK, AllLinked, FreeNode = {}, NEW e \in Asks
    PROVE  Registered(e.msg, e.pid)
<1>. DEFINE f == [n \in Node |-> heap[n]]
<1>1. \A n \in Node : /\ heap[n] \in Asks
                      /\ \E i \in DOMAIN msg_table[emi_hash(heap[n].msg)] :
                             msg_table[emi_hash(heap[n].msg)][i] = n
  BY DEF FreeNode, EntriesOK, TableInv, TableTypeOK, AllLinked, Asks
<1>2. \A x, y \in Node : heap[x] = heap[y] => x = y
  BY <1>1, HashType DEF EntriesOK, TableInv, MapsDiffer, Asks, MsgMap
<1>3. f \in Injection(Node, Asks)
  BY <1>1, <1>2 DEF Injection, IsInjective
<1>4. IsFiniteSet(Node) /\ Cardinality(Node) <= Cardinality(Asks)
      /\ (Cardinality(Node) = Cardinality(Asks) <=> f \in Surjection(Node, Asks))
  <2>. HIDE DEF f
  <2>. QED BY <1>3, FS_Injection DEF Enough
<1>5. Cardinality(Node) = Cardinality(Asks)
  BY <1>4, FS_CardinalityType DEF Enough
<1>6. PICK n \in Node : heap[n] = e
  BY <1>4, <1>5 DEF Surjection
<1>7. PICK i \in DOMAIN Chain(e.msg) : heap[Chain(e.msg)[i]] = e
  BY <1>1, <1>6 DEF Chain
<1>8. e = msg_map_fill(e.msg, e.pid)
  BY DEF Asks, MsgMap, msg_map_fill
<1>. QED BY <1>7, <1>8 DEF Registered, Occurrences

LEMMA InsertLists ==
    ASSUME Enough, EntriesOK, AllLinked, NEW e \in Asks, emi_hinsert(e)
    PROVE  Registered(e.msg, e.pid)'
<1>1. TableTypeOK /\ e \in MsgMap /\ emi_hash(e.msg) \in Bucket
      /\ e = msg_map_fill(e.msg, e.pid)
  BY HashType DEF EntriesOK, TableInv, Asks, MsgMap, msg_map_fill
<1>2. CASE Registered(e.msg, e.pid) /\ UNCHANGED tableVars
  BY <1>2 DEF tableVars, Registered, Occurrences, Chain, emi_hash, msg_map_fill
<1>3. CASE FreeNode = {} /\ UNCHANGED tableVars
  BY <1>2, <1>3, FullHasAll
<1>4. ASSUME NEW n \in FreeNode,
             heap' = [heap EXCEPT ![n] = e],
             msg_table' = [msg_table EXCEPT ![emi_hash(e.msg)] = <<n>> \o @]
      PROVE  Registered(e.msg, e.pid)'
  <2>1. n \in Node /\ heap'[n] = e
    BY <1>1, <1>4 DEF FreeNode, TableTypeOK
  <2>2. Chain(e.msg)' = <<n>> \o Chain(e.msg) /\ Chain(e.msg) \in Seq(Node)
    BY <1>1, <1>4 DEF Chain, TableTypeOK, emi_hash
  <2>3. 1 \in DOMAIN Chain(e.msg)' /\ Chain(e.msg)'[1] = n
    BY <2>1, <2>2, PushProperties
  <2>4. heap'[Chain(e.msg)'[1]] = msg_map_fill(e.msg, e.pid)
    BY <1>1, <2>1, <2>3
  <2>. QED BY <2>3, <2>4 DEF Registered, Occurrences, msg_map_fill
<1>. QED BY <1>2, <1>3, <1>4 DEF emi_hinsert, __emi_hinsert

LEMMA KeepListed ==
    ASSUME TableInv, NEW e \in MsgMap, emi_hinsert(e), NEW k \in Msg, NEW p \in Pid,
           Registered(k, p)
    PROVE  Registered(k, p)'
<1>1. PICK i \in DOMAIN Chain(k) : heap[Chain(k)[i]] = msg_map_fill(k, p)
  BY DEF Registered, Occurrences
<1>2. PICK j \in DOMAIN Chain(k)' : /\ Chain(k)'[j] = Chain(k)[i]
                                    /\ heap'[Chain(k)[i]] = heap[Chain(k)[i]]
  BY InsertMoves
<1>. QED BY <1>1, <1>2 DEF Registered, Occurrences, msg_map_fill

LEMMA SameListed ==
    ASSUME ListedInv, UNCHANGED <<msg_table, heap, funcs>>,
           \A t \in Slot : pc'[t] = "ack" => pc[t] = "ack" /\ shm'[t].msg = shm[t].msg
                                             /\ shm'[t].pid = shm[t].pid,
           \A p \in Pid : reg'[p].step = "acked" =>
                              reg[p].step = "acked" /\ reg'[p].msg = reg[p].msg
    PROVE  ListedInv'
<1>1. \A k, p : Registered(k, p) => Registered(k, p)'
  BY DEF Registered, Occurrences, Chain, emi_hash, msg_map_fill
<1>2. AllLinked'
  BY DEF ListedInv, AllLinked, emi_hash
<1>3. \A s \in Slot : pc'[s] = "ack" => Registered(shm[s].msg, shm[s].pid)'
  <2>1. ASSUME NEW s \in Slot, pc'[s] = "ack"
        PROVE  Registered(shm'[s].msg, shm'[s].pid)
    BY <2>1 DEF ListedInv
  <2>. QED BY <2>1 DEF Registered, Occurrences, Chain, emi_hash, msg_map_fill
<1>4. \A p \in Pid : /\ reg'[p].step = "acked" => Registered(reg[p].msg, p)'
                     /\ \A k \in funcs'[p] : Registered(k, p)'
  <2>. SUFFICES ASSUME NEW p \in Pid
                PROVE  /\ reg'[p].step = "acked" => Registered(reg[p].msg, p)'
                       /\ \A k \in funcs'[p] : Registered(k, p)'
    OBVIOUS
  <2>1. \A k \in funcs'[p] : Registered(k, p)'
    BY <1>1 DEF ListedInv
  <2>2. ASSUME reg'[p].step = "acked" PROVE Registered(reg'[p].msg, p)
    BY <2>2 DEF ListedInv
  <2>. QED BY <2>1, <2>2 DEF Registered, Occurrences, Chain, emi_hash, msg_map_fill
<1>. QED BY <1>2, <1>3, <1>4 DEF ListedInv

LEMMA InsertListed ==
    ASSUME Orderly, Enough, IndexInv, OrderInv, RegInv, ListedInv, NEW s \in Slot,
           InsertMap(s)
    PROVE  ListedInv'
<1>0. PICK l, q : l = shm[s].msg /\ q = shm[s].pid
  OBVIOUS
<1>. DEFINE e == msg_map_fill(l, q)
<1>1. /\ emi_hinsert(e) /\ pc[s] = "insert" /\ UNCHANGED <<shm, reg, funcs>>
      /\ l \in Msg /\ q \in Pid /\ l \in Interest[q]
  BY <1>0 DEF InsertMap, libVars, IndexInv, HeadersOK, TypeOK, ShmTypeOK, Header,
              OrderInv, ThreadsOK
<1>2. pc' = [pc EXCEPT ![s] = "ack"] /\ pc \in [Slot -> Label]
  BY DEF InsertMap, Goto, OrderInv, ThreadsOK, IndexInv, HeadersOK, TypeOK, ThreadTypeOK
<1>3. e \in Asks /\ e \in MsgMap /\ e.msg = l /\ e.pid = q
  BY <1>1 DEF Asks, MsgMap, msg_map_fill
<1>. HIDE DEF e
<1>4. TableInv /\ EntriesOK /\ AllLinked
  BY DEF OrderInv, EntriesOK, ListedInv
<1>5. AllLinked'
  BY <1>1, <1>3, <1>4, InsertLinks
<1>6. Registered(shm[s].msg, shm[s].pid)'
  <2>1. Registered(e.msg, e.pid)'
    BY <1>1, <1>3, <1>4, InsertLists
  <2>. QED BY <1>0, <1>1, <1>3, <2>1
           DEF Registered, Occurrences, Chain, emi_hash, msg_map_fill
<1>7. ASSUME NEW k \in Msg, NEW p \in Pid, Registered(k, p)
      PROVE  Registered(k, p)'
  BY <1>1, <1>3, <1>4, <1>7, KeepListed
<1>8. ASSUME NEW t \in Slot, pc'[t] = "ack" PROVE Registered(shm[t].msg, shm[t].pid)'
  <2>1. CASE t = s
    BY <1>6, <2>1
  <2>2. CASE t # s
    <3>1. /\ pc[t] = "ack" /\ shm[t].msg \in Msg /\ shm[t].pid \in Pid
          /\ Registered(shm[t].msg, shm[t].pid)
      BY <1>2, <1>8, <2>2 DEF ListedInv, RegInv, ThreadsRegister, Registering,
                              IndexInv, HeadersOK, TypeOK, ShmTypeOK, Header
    <3>2. PICK k \in Msg, p \in Pid : k = shm[t].msg /\ p = shm[t].pid
      BY <3>1
    <3>3. Registered(k, p)'
      BY <1>7, <3>1, <3>2
    <3>. QED BY <1>1, <3>2, <3>3
             DEF Registered, Occurrences, Chain, emi_hash, msg_map_fill
  <2>. QED BY <2>1, <2>2
<1>9. ASSUME NEW p \in Pid
      PROVE  /\ reg'[p].step = "acked" => Registered(reg[p].msg, p)'
             /\ \A k \in funcs'[p] : Registered(k, p)'
  <2>1. reg[p].msg \in Msg /\ funcs[p] \subseteq Msg
    BY DEF IndexInv, TypeOK, ProcTypeOK, Reg
  <2>2. reg[p].step = "acked" => Registered(reg[p].msg, p)'
    <3>1. PICK k \in Msg : k = reg[p].msg
      BY <2>1
    <3>2. reg[p].step = "acked" => Registered(k, p)'
      BY <1>7, <3>1 DEF ListedInv
    <3>. QED BY <1>1, <3>1, <3>2
             DEF Registered, Occurrences, Chain, emi_hash, msg_map_fill
  <2>3. \A k \in funcs[p] : Registered(k, p)'
    BY <1>7, <2>1 DEF ListedInv
  <2>. QED BY <1>1, <2>2, <2>3
<1>. QED BY <1>5, <1>8, <1>9 DEF ListedInv

LEMMA AckListed ==
    ASSUME Orderly, IndexInv, OrderInv, RegInv, ListedInv, NEW s \in Slot, Ack(s)
    PROVE  ListedInv'
<1>1. /\ pc[s] = "ack" /\ pc' = [pc EXCEPT ![s] = "idle"] /\ pc \in [Slot -> Label]
      /\ \A t \in Slot \ {s} : shm'[t] = shm[t]
      /\ UNCHANGED <<msg_table, heap, funcs>>
      /\ reg \in [Pid -> Reg]
  BY DEF Ack, Leave, Goto, tableVars, IndexInv, TypeOK, ThreadTypeOK, ShmTypeOK,
         ProcTypeOK
<1>2. \A p \in Pid : \/ reg'[p] = reg[p]
                     \/ reg[p].sd = s /\ reg'[p].msg = reg[p].msg
  <2>1. PICK lost \in {FALSE, "reset" \in Env} :
            reg' = [p \in Pid |->
                       IF reg[p].sd # s THEN reg[p]
                       ELSE IF lost THEN NoReg
                       ELSE [reg[p] EXCEPT !.step = "acked", !.sd = NoSlot]]
    BY DEF Ack
  <2>2. ~lost
    BY Zenon DEF Orderly
  <2>. QED BY <1>1, <2>1, <2>2 DEF Reg
<1>3. \A k, p : Registered(k, p) => Registered(k, p)'
  BY <1>1 DEF Registered, Occurrences, Chain, emi_hash, msg_map_fill
<1>4. AllLinked'
  BY <1>1 DEF ListedInv, AllLinked, emi_hash
<1>5. ASSUME NEW t \in Slot, pc'[t] = "ack" PROVE Registered(shm[t].msg, shm[t].pid)'
  <2>1. pc[t] = "ack" /\ shm'[t] = shm[t]
    BY <1>1, <1>5
  <2>2. Registered(shm[t].msg, shm[t].pid)
    BY <2>1 DEF ListedInv
  <2>. QED BY <1>1, <2>1, <2>2
           DEF Registered, Occurrences, Chain, emi_hash, msg_map_fill
<1>6. ASSUME NEW p \in Pid
      PROVE  /\ reg'[p].step = "acked" => Registered(reg[p].msg, p)'
             /\ \A k \in funcs'[p] : Registered(k, p)'
  <2>1. \A k \in funcs'[p] : Registered(k, p)'
    BY <1>1, <1>3 DEF ListedInv
  <2>2. ASSUME reg'[p].step = "acked" PROVE Registered(reg'[p].msg, p)
    <3>1. CASE reg'[p] = reg[p]
      BY <2>2, <3>1 DEF ListedInv
    <3>2. CASE reg[p].sd = s /\ reg'[p].msg = reg[p].msg
      <4>1. shm[s].pid = p
        BY <3>2, SlotAssumption DEF RegInv, ProcessesRegister
      <4>2. reg[p] = [step |-> "sent", msg |-> shm[s].msg, sd |-> s]
        BY <1>1, <4>1 DEF RegInv, ThreadsRegister, Registering
      <4>3. Registered(shm[s].msg, p)
        BY <1>1, <4>1 DEF ListedInv
      <4>. QED BY <3>2, <4>2, <4>3
    <3>. QED BY <1>2, <3>1, <3>2
  <2>. QED BY <1>1, <2>1, <2>2
           DEF Registered, Occurrences, Chain, emi_hash, msg_map_fill
<1>. QED BY <1>4, <1>5, <1>6 DEF ListedInv

LEMMA ListAddListed ==
    ASSUME IndexInv, ListedInv, NEW p \in Pid, ListAdd(p)
    PROVE  ListedInv'
<1>1. /\ UNCHANGED <<msg_table, heap, pc, shm>> /\ reg[p].step = "acked"
      /\ \A q \in Pid \ {p} : reg'[q] = reg[q] /\ funcs'[q] = funcs[q]
      /\ funcs'[p] = funcs[p] \cup {reg[p].msg} /\ reg'[p].step = "listed"
  BY DEF ListAdd, tableVars, threadVars, IndexInv, TypeOK, ProcTypeOK, Reg
<1>2. \A k, q : Registered(k, q) => Registered(k, q)'
  BY <1>1 DEF Registered, Occurrences, Chain, emi_hash, msg_map_fill
<1>3. AllLinked'
  BY <1>1 DEF ListedInv, AllLinked, emi_hash
<1>4. \A t \in Slot : pc'[t] = "ack" => Registered(shm[t].msg, shm[t].pid)'
  <2>1. \A t \in Slot : pc[t] = "ack" => Registered(shm[t].msg, shm[t].pid)
    BY DEF ListedInv
  <2>. QED BY <1>1, <2>1 DEF Registered, Occurrences, Chain, emi_hash, msg_map_fill
<1>5. \A q \in Pid : \A k \in funcs'[q] : Registered(k, q)'
  BY <1>1, <1>2 DEF ListedInv
<1>6. \A q \in Pid : reg'[q].step = "acked" => Registered(reg[q].msg, q)'
  <2>1. \A q \in Pid : reg'[q].step = "acked" => Registered(reg'[q].msg, q)
    BY <1>1 DEF ListedInv
  <2>. QED BY <1>1, <2>1 DEF Registered, Occurrences, Chain, emi_hash, msg_map_fill
<1>. QED BY <1>3, <1>4, <1>5, <1>6 DEF ListedInv

\* Steps other than an insertion, an answer and an entry in the library's list.
LEMMA OtherListed ==
    ASSUME Orderly, IndexInv, OrderInv, ListedInv, NEW s \in Slot,
           \/ Serve(s) \/ Search(s) \/ Index(s) \/ Lock(s) \/ Kill(s) \/ IncLoad(s)
           \/ IncStore(s) \/ SpinEnds(s) \/ Finish(s)
    PROVE  ListedInv'
<1>. USE DEF IndexInv, TypeOK, ThreadTypeOK, ShmTypeOK, ProcTypeOK, Goto, libVars,
             tableVars
<1>1. /\ pc'[s] # "ack" /\ UNCHANGED <<msg_table, heap, funcs>>
      /\ \A t \in Slot \ {s} : pc'[t] = pc[t] /\ shm'[t] = shm[t]
      /\ \A p \in Pid : reg'[p] = reg[p] \/ reg'[p].step = "sent"
  <2>1. CASE Serve(s)
    <3>. USE DEF Serve, Orderly, Dispatch, localVars
    <3>1. CASE \E k \in SendMsg, mode \in SendMode : \E ok \in Carried(mode) :
                ServeSend(s, k, mode, ok)
      BY <3>1 DEF ServeSend
    <3>2. CASE \E p \in Pid, k \in Msg, mode \in RegMode : ServeRegister(s, p, k, mode)
      BY <3>2 DEF ServeRegister
    <3>. QED BY <2>1, <3>1, <3>2 DEF ShortData, ReadFails
  <2>2. CASE Search(s) \/ Index(s) \/ Lock(s) \/ IncLoad(s) \/ IncStore(s)
    BY <2>2 DEF Search, Index, Lock, IncLoad, IncStore
  <2>3. CASE Kill(s)
    BY <2>3 DEF Kill
  <2>4. CASE SpinEnds(s) \/ Finish(s)
    BY <2>4 DEF SpinEnds, Finish, Leave
  <2>. QED BY <2>1, <2>2, <2>3, <2>4
<1>. QED BY <1>1, SameListed

LEMMA ListedNext ==
    ASSUME Orderly, Enough, IndexInv, OrderInv, RegInv, ListedInv, [Next]_vars
    PROVE  ListedInv'
<1>1. ASSUME NEW s \in Slot, Serve(s) \/ Thread(s) PROVE ListedInv'
  <2>1. ~(ExclusiveSearch(s) \/ ExclusiveWrite(s) \/ DeleteMap(s))
    BY DEF OrderInv, ThreadsOK, ExclusiveSearch, ExclusiveWrite, DeleteMap
  <2>. QED BY <1>1, <2>1, InsertListed, AckListed, OtherListed DEF Thread
<1>2. ASSUME NEW p \in Pid, Handler(p) PROVE ListedInv'
  <2>1. UNCHANGED <<reg, funcs>>
    BY <1>2 DEF Handler, Pickup, Handle, DecLoad, DecStore, libVars
  <2>. QED BY <1>2, <2>1, ProcessUntouched, SameListed
<1>3. ASSUME NEW p \in Pid, Library(p) PROVE ListedInv'
  <2>1. CASE SigAction(p)
    <3>1. /\ UNCHANGED <<msg_table, heap, funcs, pc, shm>>
          /\ \A q \in Pid : reg'[q] = reg[q] \/ reg'[q].step = "main"
      BY <2>1 DEF SigAction, tableVars, threadVars, NoReg, IndexInv, TypeOK, ProcTypeOK
    <3>. QED BY <3>1, SameListed
  <2>. QED BY <1>3, <2>1, ListAddListed DEF Library
<1>4. ASSUME NEW p \in Pid PROVE ~Environment(p)
  BY NobodyDies
<1>5. CASE UNCHANGED vars
  BY <1>5, SameListed DEF vars, tableVars, threadVars, libVars
<1>. QED BY <1>1, <1>2, <1>3, <1>4, <1>5 DEF Next

\* A process whose emi_msg_register succeeded is in the table (emiif.h:77), whoever
\* registers what at the same time, for every number of processes, messages and
\* collisions, when malloc does not fail.
THEOREM RegisteredIsListedCorrect ==
    ASSUME Orderly, Enough
    PROVE  Spec => []RegisteredIsListed
<1>1. Init => ListedInv
  BY DEF Init, TableInit, ListedInv, AllLinked, NoReg
<1>2. IndexInv /\ OrderInv /\ RegInv /\ [Next]_vars => RegInv'
  BY RegNext
<1>3. IndexInv /\ OrderInv /\ RegInv /\ ListedInv /\ [Next]_vars => ListedInv'
  BY ListedNext
<1>4. ListedInv => RegisteredIsListed
  BY DEF ListedInv, RegisteredIsListed, Ready
<1>. QED BY <1>1, <1>2, <1>3, <1>4, RegInit, IndexInvCorrect, OrderInvCorrect, PTL
         DEF Spec


-----------------------------------------------------------------------------
(* Counting modulo the width of a count                                     *)

LEMMA ModSmall ==
    ASSUME NEW r \in 0 .. COUNT_MOD - 1
    PROVE  r % COUNT_MOD = r
BY CountAssumption

LEMMA ModUnique ==
    ASSUME NEW q \in Int, NEW r \in 0 .. COUNT_MOD - 1
    PROVE  (COUNT_MOD * q + r) % COUNT_MOD = r
BY CountAssumption

LEMMA ModDiv ==
    ASSUME NEW n \in Nat
    PROVE  \E q \in Int, r \in 0 .. COUNT_MOD - 1 :
               n = COUNT_MOD * q + r /\ n % COUNT_MOD = r
<1>1. n \div COUNT_MOD \in Int
  BY CountAssumption
<1>2. n % COUNT_MOD \in 0 .. COUNT_MOD - 1
  BY CountAssumption
<1>3. n = COUNT_MOD * (n \div COUNT_MOD) + (n % COUNT_MOD)
  BY CountAssumption
<1>. WITNESS n \div COUNT_MOD \in Int, n % COUNT_MOD \in 0 .. COUNT_MOD - 1
<1>. QED BY <1>3

LEMMA ModWrap ==
    ASSUME NEW q \in Int, NEW r \in 0 .. COUNT_MOD - 1
    PROVE  (COUNT_MOD * q + r + COUNT_MOD) % COUNT_MOD = r
<1>1. COUNT_MOD * (q + 1) = COUNT_MOD * q + COUNT_MOD
  BY CountAssumption
<1>2. COUNT_MOD * q + r + COUNT_MOD = COUNT_MOD * (q + 1) + r
  BY <1>1, CountAssumption
<1>3. q + 1 \in Int
  OBVIOUS
<1>4. (COUNT_MOD * (q + 1) + r) % COUNT_MOD = r
  BY <1>3, ModUnique
<1>. QED BY <1>2, <1>4

LEMMA ModAdd ==
    ASSUME NEW n \in Nat
    PROVE  (n + COUNT_MOD) % COUNT_MOD = n % COUNT_MOD
<1>1. PICK q \in Int, r \in 0 .. COUNT_MOD - 1 :
          n = COUNT_MOD * q + r /\ n % COUNT_MOD = r
  BY ModDiv
<1>2. n + COUNT_MOD = COUNT_MOD * q + r + COUNT_MOD
  BY <1>1, CountAssumption
<1>. QED BY <1>1, <1>2, ModWrap

\* count++ counts.
LEMMA ModInc ==
    ASSUME NEW n \in Nat
    PROVE  ((n % COUNT_MOD) + 1) % COUNT_MOD = (n + 1) % COUNT_MOD
<1>1. PICK q \in Int, r \in 0 .. COUNT_MOD - 1 :
          n = COUNT_MOD * q + r /\ n % COUNT_MOD = r
  BY ModDiv
<1>2. CASE r + 1 < COUNT_MOD
  <2>1. r + 1 \in 0 .. COUNT_MOD - 1
    BY <1>2, CountAssumption
  <2>2. (r + 1) % COUNT_MOD = r + 1
    BY <2>1, ModSmall
  <2>3. (COUNT_MOD * q + (r + 1)) % COUNT_MOD = r + 1
    BY <2>1, ModUnique
  <2>4. n + 1 = COUNT_MOD * q + (r + 1)
    BY <1>1, CountAssumption
  <2>. QED BY <1>1, <2>2, <2>3, <2>4
<1>3. CASE r + 1 = COUNT_MOD
  <2>1. 0 \in 0 .. COUNT_MOD - 1
    BY CountAssumption
  <2>2. (COUNT_MOD * q + 0 + COUNT_MOD) % COUNT_MOD = 0
    BY <2>1, ModWrap
  <2>3. n + 1 = COUNT_MOD * q + 0 + COUNT_MOD
    BY <1>1, <1>3, CountAssumption
  <2>4. (COUNT_MOD * 0 + 0 + COUNT_MOD) % COUNT_MOD = 0
    BY <2>1, ModWrap
  <2>5. r + 1 = COUNT_MOD * 0 + 0 + COUNT_MOD
    BY <1>3, CountAssumption
  <2>. QED BY <1>1, <2>2, <2>3, <2>4, <2>5
<1>. QED BY <1>2, <1>3, CountAssumption

\* count-- undoes count++.
LEMMA ModDec ==
    ASSUME NEW n \in Nat
    PROVE  (((n + 1) % COUNT_MOD) + COUNT_MOD - 1) % COUNT_MOD = n % COUNT_MOD
<1>1. PICK r \in 0 .. COUNT_MOD - 1 : n % COUNT_MOD = r
  BY ModDiv
<1>2. (n + 1) % COUNT_MOD = (r + 1) % COUNT_MOD
  BY ModInc, <1>1
<1>3. r \in Nat /\ r % COUNT_MOD = r
  BY CountAssumption, ModSmall
<1>4. CASE r + 1 < COUNT_MOD
  <2>1. r + 1 \in 0 .. COUNT_MOD - 1
    BY <1>4, CountAssumption
  <2>2. (r + 1) % COUNT_MOD = r + 1
    BY <2>1, ModSmall
  <2>3. (r + 1) + COUNT_MOD - 1 = r + COUNT_MOD
    BY CountAssumption
  <2>4. (r + COUNT_MOD) % COUNT_MOD = r
    BY <1>3, ModAdd
  <2>. QED BY <2>2, <2>3, <2>4, <1>1, <1>2
<1>5. CASE r + 1 = COUNT_MOD
  <2>1. (0 + COUNT_MOD) % COUNT_MOD = 0
    <3>1. 0 \in Nat /\ 0 % COUNT_MOD = 0
      BY CountAssumption
    <3>. QED BY <3>1, ModAdd
  <2>2. 0 + COUNT_MOD = COUNT_MOD /\ 0 + COUNT_MOD - 1 = r
    BY <1>5, CountAssumption
  <2>3. (r + 1) % COUNT_MOD = 0
    BY <2>1, <2>2, <1>5
  <2>. QED BY <2>2, <2>3, <1>1, <1>2, <1>3
<1>. QED BY <1>4, <1>5, CountAssumption

-----------------------------------------------------------------------------
(* What a count counts                                                      *)

Askers(k) == {p \in Pid : k \in Interest[p]}

\* Fewer processes than a count can count register one message.
Few == \A k \in Msg : IsFiniteSet(Askers(k)) /\ Cardinality(Askers(k)) < COUNT_MOD

\* A message in a cell is not in a handler yet, and is counted after the post.
InCells(s)   == IF pc[s] \in Critical /\ pid_num[idx[s]] = s THEN 1 ELSE 0
Uncounted(s) == IF pc[s] \in {"kill", "incload", "incstore"} THEN 1 ELSE 0

\* A receiver may count down before the thread has counted up.
Balance(s) == InCells(s) + COUNT_MOD - Uncounted(s)
Owed(s)    == Cardinality(Receiving(s)) + Balance(s)

LoadsOK(s) ==
    /\ pc[s] = "incstore" => tmp[s] = count[s]
    /\ \A p \in Receiving(s) : hpc[p] = "decstore" => htmp[p] = count[s]

ReceivingOK(s) ==
    /\ pc[s] \in {"idle", "insert", "ack"} => Receiving(s) = {}
    /\ \A p \in Receiving(s) : shm[s].msg \in Interest[p]

CountAt(s) == count[s] = Owed(s) % COUNT_MOD /\ LoadsOK(s) /\ ReceivingOK(s)
CountInv == \A s \in Slot : CountAt(s)

LEMMA OwedType ==
    ASSUME Few, IndexInv, NEW s \in Slot, ReceivingOK(s)
    PROVE  /\ IsFiniteSet(Receiving(s))
           /\ Cardinality(Receiving(s)) \in 0 .. COUNT_MOD - 1
           /\ Owed(s) \in Nat
           /\ InCells(s) \in {0, 1} /\ Uncounted(s) \in {0, 1}
<1>1. shm[s].msg \in Msg
  BY DEF IndexInv, TypeOK, ShmTypeOK, Header
<1>2. Receiving(s) \subseteq Askers(shm[s].msg)
  BY DEF ReceivingOK, Receiving, Askers
<1>3. /\ IsFiniteSet(Receiving(s))
      /\ Cardinality(Receiving(s)) <= Cardinality(Askers(shm[s].msg))
  BY <1>1, <1>2, FS_Subset DEF Few
<1>4. Cardinality(Receiving(s)) \in Nat /\ Cardinality(Askers(shm[s].msg)) \in Nat
  BY <1>1, <1>3, FS_CardinalityType DEF Few
<1>5. Cardinality(Receiving(s)) \in 0 .. COUNT_MOD - 1
  BY <1>1, <1>3, <1>4, CountAssumption DEF Few
<1>6. InCells(s) \in {0, 1} /\ Uncounted(s) \in {0, 1}
  BY DEF InCells, Uncounted
<1>. QED BY <1>3, <1>5, <1>6, CountAssumption DEF Owed, Balance

LEMMA CountInit ==
    ASSUME Init
    PROVE  CountInv
<1>. SUFFICES ASSUME NEW s \in Slot PROVE CountAt(s)
  BY DEF CountInv
<1>1. Receiving(s) = {} /\ InCells(s) = 0 /\ Uncounted(s) = 0 /\ pc[s] = "idle"
  BY DEF Init, Receiving, InCells, Uncounted, Critical
<1>2. Owed(s) = 0 + COUNT_MOD /\ count[s] = 0
  BY <1>1, FS_EmptySet, CountAssumption DEF Owed, Balance, Init
<1>3. (0 + COUNT_MOD) % COUNT_MOD = 0 % COUNT_MOD /\ 0 % COUNT_MOD = 0
  BY ModAdd, CountAssumption
<1>. QED BY <1>1, <1>2, <1>3 DEF CountAt, LoadsOK, ReceivingOK

\* A step that changes none of this leaves a count right.
LEMMA CountFrame ==
    ASSUME NEW t \in Slot, CountAt(t),
           Receiving(t)' = Receiving(t), Balance(t)' = Balance(t),
           count'[t] = count[t], LoadsOK(t)',
           shm'[t].msg = shm[t].msg \/ Receiving(t) = {},
           pc'[t] \in {"idle", "insert", "ack"} => Receiving(t) = {}
    PROVE  CountAt(t)'
<1>1. Owed(t)' = Owed(t)
  BY DEF Owed
<1>2. ReceivingOK(t)'
  BY DEF CountAt, ReceivingOK
<1>. QED BY <1>1, <1>2 DEF CountAt

\* Connections leave handlers alone ...
LEMMA ThreadReceiving ==
    ASSUME NEW s \in Slot, Serve(s) \/ Thread(s)
    PROVE  UNCHANGED <<hpc, shmsg, htmp>> /\ \A t \in Slot : Receiving(t)' = Receiving(t)
<1>1. UNCHANGED <<hpc, shmsg, htmp>>
  BY DEF Serve, Thread, ServeSend, ServeRegister, ShortData, ReadFails, InsertMap,
         ExclusiveSearch, ExclusiveWrite, Ack, Search, Index, Lock, Kill, IncLoad,
         IncStore, SpinEnds, DeleteMap, Finish, handlerVars
<1>. QED BY <1>1 DEF Receiving

\* ... and the counts of others.
LEMMA OthersCounted ==
    ASSUME Orderly, IndexInv, OrderInv, CountInv,
           NEW s \in Slot, NEW t \in Slot \ {s}, Serve(s) \/ Thread(s)
    PROVE  CountAt(t)'
<1>1. /\ pc'[t] = pc[t] /\ shm'[t] = shm[t]
      /\ UNCHANGED <<hpc, shmsg, htmp>> /\ Receiving(t)' = Receiving(t)
  BY OthersUntouched, ThreadReceiving
<1>2. tmp'[t] = tmp[t] /\ count'[t] = count[t] /\ idx'[t] = idx[t]
  <2>. USE DEF IndexInv, TypeOK, ThreadTypeOK, ShmTypeOK, localVars, Goto
  <2>1. CASE Serve(s)
    BY <2>1 DEF Serve, ServeSend, ServeRegister, ShortData, ReadFails, Orderly
  <2>2. CASE InsertMap(s) \/ Ack(s) \/ Finish(s)
    BY <2>2 DEF InsertMap, Ack, Finish, Leave
  <2>3. CASE Search(s) \/ Index(s) \/ Lock(s) \/ Kill(s) \/ IncLoad(s) \/ IncStore(s)
             \/ SpinEnds(s)
    BY <2>3 DEF Search, Index, Lock, Kill, IncLoad, IncStore, SpinEnds
  <2>4. CASE ExclusiveSearch(s) \/ ExclusiveWrite(s) \/ DeleteMap(s)
    BY <2>4 DEF ExclusiveSearch, ExclusiveWrite, DeleteMap
  <2>. QED BY <2>1, <2>2, <2>3, <2>4 DEF Thread
<1>3. pid_num' = pid_num \/ pc[t] \notin Critical
  <2>1. CASE Lock(s)
    BY <2>1, SlotAssumption DEF Lock, IndexInv, LockOK
  <2>2. CASE Kill(s)
    BY <2>2 DEF Kill, IndexInv, LockOK, Critical
  <2>. QED BY <2>1, <2>2
     DEF Serve, Thread, ServeSend, ServeRegister, ShortData, ReadFails, InsertMap,
         ExclusiveSearch, ExclusiveWrite, Ack, Search, Index, IncLoad,
         IncStore, SpinEnds, DeleteMap, Finish
<1>4. Balance(t)' = Balance(t)
  BY <1>1, <1>2, <1>3 DEF Balance, InCells, Uncounted
<1>5. CountAt(t)
  BY DEF CountInv
<1>6. LoadsOK(t)'
  BY <1>1, <1>2, <1>5 DEF CountAt, LoadsOK
<1>7. pc'[t] \in {"idle", "insert", "ack"} => Receiving(t) = {}
  BY <1>1, <1>5 DEF CountAt, ReceivingOK
<1>. QED BY <1>1, <1>2, <1>4, <1>5, <1>6, <1>7, CountFrame

\* A message comes into a slot that no handler has.
LEMMA CountReset ==
    ASSUME NEW s \in Slot, Receiving(s)' = {}, count'[s] = 0, pc'[s] \notin Critical
    PROVE  CountAt(s)'
<1>1. InCells(s)' = 0 /\ Uncounted(s)' = 0 /\ pc'[s] # "incstore"
  BY DEF InCells, Uncounted, Critical
<1>2. Owed(s)' = 0 + COUNT_MOD
  BY <1>1, FS_EmptySet, CountAssumption DEF Owed, Balance
<1>3. (0 + COUNT_MOD) % COUNT_MOD = 0 % COUNT_MOD /\ 0 % COUNT_MOD = 0
  BY ModAdd, CountAssumption
<1>. QED BY <1>1, <1>2, <1>3 DEF CountAt, LoadsOK, ReceivingOK

LEMMA ServeCount ==
    ASSUME Orderly, IndexInv, CountInv, NEW s \in Slot, Serve(s)
    PROVE  CountAt(s)'
<1>1. /\ pc[s] = "idle" /\ pc \in [Slot -> Label] /\ count' = [count EXCEPT ![s] = 0]
      /\ count \in [Slot -> 0 .. COUNT_MOD - 1]
      /\ pc' = [pc EXCEPT ![s] = "insert"] \/ pc' = [pc EXCEPT ![s] = "search"]
  BY DEF Serve, ServeSend, ServeRegister, ShortData, ReadFails, Orderly, Dispatch, Goto,
         IndexInv, TypeOK, ThreadTypeOK, ShmTypeOK
<1>2. count'[s] = 0 /\ pc'[s] \notin Critical
  BY <1>1 DEF Critical
<1>3. Receiving(s)' = {}
  BY <1>1, ThreadReceiving DEF CountInv, CountAt, ReceivingOK
<1>. QED BY <1>2, <1>3, CountReset

\* When everybody was posted to the count is the number of those not done.
LEMMA WaitCount ==
    ASSUME Few, IndexInv, NEW s \in Slot, CountAt(s), pc[s] = "wait"
    PROVE  count[s] = Cardinality(Receiving(s))
<1>1. Cardinality(Receiving(s)) \in 0 .. COUNT_MOD - 1
  BY OwedType DEF CountAt
<1>2. InCells(s) = 0 /\ Uncounted(s) = 0
  BY DEF InCells, Uncounted, Critical
<1>3. Owed(s) = Cardinality(Receiving(s)) + COUNT_MOD
  BY <1>1, <1>2, CountAssumption DEF Owed, Balance
<1>4. Cardinality(Receiving(s)) % COUNT_MOD = Cardinality(Receiving(s))
  BY <1>1, ModSmall
<1>5. (Cardinality(Receiving(s)) + COUNT_MOD) % COUNT_MOD
          = Cardinality(Receiving(s)) % COUNT_MOD
  <2>1. Cardinality(Receiving(s)) \in Nat
    BY <1>1, CountAssumption
  <2>. QED BY <2>1, ModAdd
<1>6. count[s] = (Cardinality(Receiving(s)) + COUNT_MOD) % COUNT_MOD
  BY <1>3 DEF CountAt
<1>. QED BY <1>4, <1>5, <1>6

\* The steps of a connection that store nothing in the count.
LEMMA QuietCount ==
    ASSUME Few, Orderly, IndexInv, OrderInv, CountInv, NEW s \in Slot,
           InsertMap(s) \/ Ack(s) \/ Search(s) \/ Index(s) \/ Lock(s) \/ Kill(s)
           \/ IncLoad(s) \/ SpinEnds(s) \/ Finish(s)
    PROVE  CountAt(s)'
<1>. USE DEF IndexInv, TypeOK, ThreadTypeOK, ShmTypeOK, localVars, Goto
<1>1. /\ UNCHANGED <<hpc, shmsg, htmp>> /\ Receiving(s)' = Receiving(s)
      /\ CountAt(s) /\ count' = count
  BY ThreadReceiving
     DEF Thread, CountInv, InsertMap, Ack, Search, Index, Lock, Kill, IncLoad, SpinEnds,
         Finish
<1>2. \A p \in Receiving(s)' : hpc'[p] = "decstore" => htmp'[p] = count'[s]
  BY <1>1 DEF CountAt, LoadsOK
<1>3. CASE InsertMap(s)
  <2>1. pc[s] = "insert" /\ pc'[s] = "ack" /\ shm' = shm
    BY <1>3 DEF InsertMap, OrderInv, ThreadsOK, HeadersOK
  <2>2. Balance(s)' = Balance(s) /\ LoadsOK(s)'
    BY <1>2, <2>1 DEF Balance, InCells, Uncounted, Critical, LoadsOK
  <2>3. Receiving(s) = {}
    BY <1>1, <2>1 DEF CountAt, ReceivingOK
  <2>. QED BY <1>1, <2>1, <2>2, <2>3, CountFrame
<1>4. CASE Ack(s) \/ Finish(s)
  <2>1. pc[s] \in {"ack", "wait"} /\ pc'[s] = "idle"
    BY <1>4 DEF Ack, Finish, Leave
  <2>2. Balance(s)' = Balance(s) /\ LoadsOK(s)'
    BY <1>2, <2>1 DEF Balance, InCells, Uncounted, Critical, LoadsOK
  <2>3. Receiving(s) = {}
    <3>1. CASE pc[s] = "ack"
      BY <1>1, <3>1 DEF CountAt, ReceivingOK
    <3>2. CASE pc[s] = "wait"
      <4>1. Cardinality(Receiving(s)) = 0
        BY <1>1, <1>4, <3>2, WaitCount DEF Ack, Finish
      <4>2. IsFiniteSet(Receiving(s))
        BY <1>1, OwedType DEF CountAt
      <4>. QED BY <4>1, <4>2, FS_EmptySet
    <3>. QED BY <2>1, <3>1, <3>2
  <2>. QED BY <1>1, <2>2, <2>3, CountFrame
<1>5. CASE Search(s) \/ Index(s)
  <2>1. pc[s] \in {"search", "index"} /\ pc'[s] \in {"wait", "index", "lock"} /\ shm' = shm
    BY <1>5 DEF Search, Index
  <2>2. Balance(s)' = Balance(s) /\ LoadsOK(s)'
    BY <1>2, <2>1 DEF Balance, InCells, Uncounted, Critical, LoadsOK
  <2>. QED BY <1>1, <2>1, <2>2, CountFrame
<1>6. CASE Lock(s)
  <2>1. /\ pc[s] = "lock" /\ pc'[s] = "kill" /\ shm' = shm /\ idx' = idx
        /\ idx[s] \in Pid /\ pid_num'[idx[s]] = s
    BY <1>6 DEF Lock, LocalsOK, HasCell
  <2>2. InCells(s) = 0 /\ InCells(s)' = 1 /\ Uncounted(s) = 0 /\ Uncounted(s)' = 1
    BY <2>1 DEF InCells, Uncounted, Critical
  <2>3. Balance(s)' = Balance(s)
    BY <2>2, CountAssumption DEF Balance
  <2>4. LoadsOK(s)'
    BY <1>2, <2>1 DEF LoadsOK
  <2>. QED BY <1>1, <2>1, <2>3, <2>4, CountFrame
<1>7. CASE Kill(s)
  <2>1. /\ pc[s] = "kill" /\ m[s] \in Node /\ heap[m[s]] # Freed
        /\ heap[m[s]].pid \in Pid /\ proc[heap[m[s]].pid] # "gone"
    BY <1>7 DEF Kill, OrderInv, ThreadsOK, PeopleOK, Finding, Critical, LocalsOK, HasNode,
                TableTypeOK, MsgMap
  <2>2. pc'[s] = "incload" /\ shm' = shm /\ idx' = idx /\ pid_num' = pid_num
    BY <1>7, <2>1, LiveRead DEF Kill
  <2>3. Balance(s)' = Balance(s) /\ LoadsOK(s)'
    BY <1>2, <2>1, <2>2 DEF Balance, InCells, Uncounted, Critical, LoadsOK
  <2>. QED BY <1>1, <2>2, <2>3, CountFrame
<1>8. CASE IncLoad(s)
  <2>1. /\ pc[s] = "incload" /\ pc'[s] = "incstore" /\ tmp'[s] = count[s]
        /\ shm' = shm /\ idx' = idx /\ pid_num' = pid_num
    BY <1>8 DEF IncLoad
  <2>2. Balance(s)' = Balance(s)
    BY <2>1 DEF Balance, InCells, Uncounted, Critical
  <2>3. LoadsOK(s)'
    BY <1>1, <1>2, <2>1 DEF LoadsOK
  <2>. QED BY <1>1, <2>1, <2>2, <2>3, CountFrame
<1>9. CASE SpinEnds(s)
  <2>1. /\ pc[s] = "spin" /\ pid_num[idx[s]] = NoSlot /\ pc'[s] = "search" /\ shm' = shm
    BY <1>9 DEF SpinEnds, OrderInv, ThreadsOK
  <2>2. Balance(s)' = Balance(s) /\ LoadsOK(s)'
    BY <1>2, <2>1, SlotAssumption DEF Balance, InCells, Uncounted, Critical, LoadsOK
  <2>. QED BY <1>1, <2>1, <2>2, CountFrame
<1>. QED BY <1>3, <1>4, <1>5, <1>6, <1>7, <1>8, <1>9

\* count++, while nobody counts down.
LEMMA IncStoreCount ==
    ASSUME Few, IndexInv, CountInv, UpdatesApart, NEW s \in Slot, IncStore(s)
    PROVE  CountAt(s)'
<1>1. /\ pc[s] = "incstore" /\ pc'[s] = "spin" /\ count'[s] = (tmp[s] + 1) % COUNT_MOD
      /\ UNCHANGED <<shm, idx, pid_num, hpc, shmsg, htmp>>
      /\ Receiving(s)' = Receiving(s)
  BY ThreadReceiving
     DEF IncStore, Thread, Goto, localVars, handlerVars, IndexInv, TypeOK, ThreadTypeOK,
         ShmTypeOK
<1>2. CountAt(s) /\ tmp[s] = Owed(s) % COUNT_MOD
  BY <1>1 DEF CountInv, CountAt, LoadsOK
<1>3. /\ Owed(s) \in Nat /\ InCells(s) \in {0, 1}
      /\ Cardinality(Receiving(s)) \in 0 .. COUNT_MOD - 1
  BY <1>2, OwedType DEF CountAt
<1>4. InCells(s)' = InCells(s) /\ Uncounted(s) = 1 /\ Uncounted(s)' = 0
  BY <1>1 DEF InCells, Uncounted, Critical
<1>5. Owed(s)' = Owed(s) + 1
  BY <1>1, <1>3, <1>4, CountAssumption DEF Owed, Balance
<1>6. count'[s] = Owed(s)' % COUNT_MOD
  BY <1>1, <1>2, <1>3, <1>5, ModInc
<1>7. LoadsOK(s)'
  BY <1>1 DEF LoadsOK, UpdatesApart
<1>8. ReceivingOK(s)'
  BY <1>1, <1>2 DEF CountAt, ReceivingOK
<1>. QED BY <1>6, <1>7, <1>8 DEF CountAt

-----------------------------------------------------------------------------
(* Handlers                                                                 *)

\* A message goes from the cell to the handler.
LEMMA PickupCount ==
    ASSUME Few, IndexInv, OrderInv, CountInv, NEW p \in Pid, Pickup(p)
    PROVE  CountInv'
<1>0. pid_num[p] \in Slot
  BY DEF Pickup, OrderInv, CellAndSignalAgree, IndexInv, TypeOK, ShmTypeOK
<1>. PICK s \in Slot : s = pid_num[p]
  BY <1>0
<1>1. /\ pid_num[p] = s /\ pc[s] \in Critical /\ idx[s] = p
      /\ hpc[p] = "main" /\ hpc' = [hpc EXCEPT ![p] = "func"]
      /\ shmsg' = [shmsg EXCEPT ![p] = s] /\ pid_num' = [pid_num EXCEPT ![p] = NoSlot]
      /\ hpc \in [Pid -> {"main", "func", "decload", "decstore"}]
      /\ shmsg \in [Pid -> Slot \cup {NoSlot}]
      /\ pid_num \in [Pid -> Slot \cup {NoSlot}]
      /\ UNCHANGED <<pc, idx, tmp, shm, count, htmp>>
  BY DEF Pickup, OrderInv, CellAndSignalAgree, IndexInv, IndexDiscipline, LockOK, TypeOK,
         ProcTypeOK, ShmTypeOK, threadVars
<1>2. ASSUME NEW t \in Slot \ {s} PROVE CountAt(t)'
  <2>1. Receiving(t)' = Receiving(t)
    BY <1>1 DEF Receiving
  <2>2. \A q \in Pid : pid_num'[q] = t <=> pid_num[q] = t
    BY <1>1, SlotAssumption
  <2>3. Balance(t)' = Balance(t)
    <3>1. pc[t] \in Critical => idx[t] \in Pid
      BY DEF IndexInv, LocalsOK, HasCell
    <3>. QED BY <1>1, <2>2, <3>1 DEF Balance, InCells, Uncounted
  <2>4. CountAt(t)
    BY DEF CountInv
  <2>5. LoadsOK(t)'
    BY <1>1, <2>1, <2>4 DEF CountAt, LoadsOK, Receiving
  <2>. QED BY <1>1, <2>1, <2>3, <2>4, <2>5, CountFrame DEF CountAt, ReceivingOK
<1>3. CountAt(s)'
  <2>1. CountAt(s)
    BY <1>1 DEF CountInv
  <2>2. p \notin Receiving(s) /\ Receiving(s)' = Receiving(s) \cup {p}
    BY <1>1 DEF Receiving
  <2>3. IsFiniteSet(Receiving(s)) /\ Cardinality(Receiving(s)) \in 0 .. COUNT_MOD - 1
    BY <1>1, <2>1, OwedType DEF CountAt
  <2>4. Cardinality(Receiving(s)') = Cardinality(Receiving(s)) + 1
    BY <2>2, <2>3, FS_AddElement
  <2>5. InCells(s) = 1 /\ InCells(s)' = 0 /\ Uncounted(s)' = Uncounted(s)
    BY <1>1, SlotAssumption DEF InCells, Uncounted
  <2>6. Uncounted(s) \in {0, 1}
    BY DEF Uncounted
  <2>7. Owed(s)' = Owed(s)
    BY <2>3, <2>4, <2>5, <2>6, CountAssumption DEF Owed, Balance
  <2>8. LoadsOK(s)'
    BY <1>1, <2>1, <2>2 DEF CountAt, LoadsOK, Receiving
  <2>9. shm[s].msg \in Interest[p]
    <3>1. /\ pc[s] \in Finding \ {"index"} /\ heap[m[s]] # Freed
          /\ heap[m[s]].msg = shm[s].msg /\ idx[s] = heap[m[s]].pid /\ m[s] \in Node
      BY <1>1 DEF OrderInv, ThreadsOK, Finding, Critical, IndexInv, LocalsOK, HasNode
    <3>. QED BY <1>1, <3>1 DEF OrderInv, EntriesOK
  <2>10. ReceivingOK(s)'
    BY <1>1, <2>1, <2>2, <2>9 DEF CountAt, ReceivingOK, Critical
  <2>. QED BY <1>1, <2>1, <2>7, <2>8, <2>10 DEF CountAt
<1>. QED BY <1>2, <1>3 DEF CountInv

LEMMA HandleCount ==
    ASSUME Orderly, IndexInv, OrderInv, CountInv, NEW p \in Pid, Handle(p) \/ DecLoad(p)
    PROVE  CountInv'
<1>1. /\ UNCHANGED <<pc, idx, tmp, count, pid_num, shmsg>>
      /\ hpc[p] \in {"func", "decload"} /\ hpc \in [Pid -> {"main", "func", "decload", "decstore"}]
      /\ htmp \in [Pid -> 0 .. COUNT_MOD - 1]
      /\ \A q \in Pid \ {p} : hpc'[q] = hpc[q] /\ htmp'[q] = htmp[q]
      /\ hpc'[p] # "main" /\ (hpc'[p] = "decstore" => htmp'[p] = count[shmsg[p]])
  BY DEF Handle, DecLoad, threadVars, IndexInv, TypeOK, ProcTypeOK
<1>. SUFFICES ASSUME NEW t \in Slot PROVE CountAt(t)'
  BY DEF CountInv
<1>2. CountAt(t) /\ shm'[t].msg = shm[t].msg
  BY ProcessUntouched DEF CountInv, Handler
<1>3. Receiving(t)' = Receiving(t)
  BY <1>1 DEF Receiving
<1>4. Balance(t)' = Balance(t)
  BY <1>1 DEF Balance, InCells, Uncounted
<1>5. LoadsOK(t)'
  BY <1>1, <1>2, <1>3 DEF CountAt, LoadsOK, Receiving
<1>. QED BY <1>1, <1>2, <1>3, <1>4, <1>5, CountFrame DEF CountAt, ReceivingOK

\* count--, while nobody else counts.
LEMMA DecStoreCount ==
    ASSUME Few, IndexInv, CountInv, UpdatesApart, NEW p \in Pid, DecStore(p)
    PROVE  CountInv'
<1>0. shmsg[p] \in Slot
  BY DEF DecStore, IndexInv, HeadersOK
<1>. PICK s \in Slot : s = shmsg[p]
  BY <1>0
<1>1. /\ shmsg[p] = s /\ hpc[p] = "decstore" /\ hpc' = [hpc EXCEPT ![p] = "main"]
      /\ shmsg' = [shmsg EXCEPT ![p] = NoSlot] /\ htmp' = [htmp EXCEPT ![p] = 0]
      /\ count' = [count EXCEPT ![s] = (htmp[p] + COUNT_MOD - 1) % COUNT_MOD]
      /\ hpc \in [Pid -> {"main", "func", "decload", "decstore"}]
      /\ shmsg \in [Pid -> Slot \cup {NoSlot}]
      /\ htmp \in [Pid -> 0 .. COUNT_MOD - 1] /\ count \in [Slot -> 0 .. COUNT_MOD - 1]
      /\ UNCHANGED <<pc, idx, tmp, shm, pid_num>>
  BY DEF DecStore, IndexInv, HeadersOK, TypeOK, ProcTypeOK, ShmTypeOK, threadVars
<1>2. \A t \in Slot : Balance(t)' = Balance(t)
  BY <1>1 DEF Balance, InCells, Uncounted
<1>3. ASSUME NEW t \in Slot \ {s} PROVE CountAt(t)'
  <2>1. Receiving(t)' = Receiving(t) /\ p \notin Receiving(t)
    BY <1>1 DEF Receiving
  <2>2. CountAt(t) /\ count'[t] = count[t]
    BY <1>1 DEF CountInv
  <2>3. LoadsOK(t)'
    BY <1>1, <2>1, <2>2 DEF CountAt, LoadsOK, Receiving
  <2>. QED BY <1>1, <1>2, <2>1, <2>2, <2>3, CountFrame DEF CountAt, ReceivingOK
<1>4. CountAt(s)'
  <2>1. CountAt(s) /\ p \in Receiving(s) /\ Receiving(s)' = Receiving(s) \ {p}
    BY <1>1 DEF CountInv, Receiving
  <2>2. /\ IsFiniteSet(Receiving(s)) /\ Cardinality(Receiving(s)) \in 0 .. COUNT_MOD - 1
        /\ InCells(s) \in {0, 1} /\ Uncounted(s) \in {0, 1}
    BY <1>1, <2>1, OwedType DEF CountAt
  <2>3. Cardinality(Receiving(s)') = Cardinality(Receiving(s)) - 1
    BY <2>1, <2>2, FS_RemoveElement
  <2>4. Cardinality(Receiving(s)') \in Nat
    BY <2>1, <2>2, FS_RemoveElement, FS_CardinalityType
  <2>5. Owed(s)' \in Nat /\ Owed(s) = Owed(s)' + 1
    BY <1>1, <1>2, <2>2, <2>3, <2>4, CountAssumption DEF Owed, Balance
  <2>6. htmp[p] = Owed(s) % COUNT_MOD
    BY <1>1, <2>1 DEF CountAt, LoadsOK
  <2>7. count'[s] = (((Owed(s)' + 1) % COUNT_MOD) + COUNT_MOD - 1) % COUNT_MOD
    BY <1>1, <2>5, <2>6
  <2>8. count'[s] = Owed(s)' % COUNT_MOD
    BY <2>5, <2>7, ModDec
  <2>9. pc[s] # "incstore" /\ \A q \in Receiving(s) : hpc[q] = "decstore" => q = p
    BY <1>1, <2>1 DEF UpdatesApart
  <2>10. LoadsOK(s)'
    BY <1>1, <2>1, <2>9 DEF LoadsOK, Receiving
  <2>11. ReceivingOK(s)'
    BY <1>1, <2>1 DEF CountAt, ReceivingOK
  <2>. QED BY <2>8, <2>10, <2>11 DEF CountAt
<1>. QED BY <1>3, <1>4 DEF CountInv

LEMMA CountStutter ==
    ASSUME CountInv, UNCHANGED <<pc, idx, tmp, shm, count, pid_num, hpc, shmsg, htmp>>
    PROVE  CountInv'
<1>. SUFFICES ASSUME NEW t \in Slot PROVE CountAt(t)'
  BY DEF CountInv
<1>1. CountAt(t)
  BY DEF CountInv
<1>2. Receiving(t)' = Receiving(t)
  BY DEF Receiving
<1>3. Balance(t)' = Balance(t)
  BY DEF Balance, InCells, Uncounted
<1>4. LoadsOK(t)'
  BY <1>1, <1>2 DEF CountAt, LoadsOK
<1>. QED BY <1>1, <1>2, <1>3, <1>4, CountFrame DEF CountAt, ReceivingOK

LEMMA CountNext ==
    ASSUME Few, Orderly, IndexInv, OrderInv, CountInv, UpdatesApart, [Next]_vars
    PROVE  CountInv'
<1>1. ASSUME NEW s \in Slot, Serve(s) \/ Thread(s) PROVE CountInv'
  <2>1. ~(ExclusiveSearch(s) \/ ExclusiveWrite(s) \/ DeleteMap(s))
    BY DEF OrderInv, ThreadsOK, ExclusiveSearch, ExclusiveWrite, DeleteMap
  <2>2. CountAt(s)'
    BY <1>1, <2>1, ServeCount, QuietCount, IncStoreCount DEF Thread
  <2>. QED BY <1>1, <2>2, OthersCounted DEF CountInv
<1>2. ASSUME NEW p \in Pid, Handler(p) PROVE CountInv'
  BY <1>2, PickupCount, HandleCount, DecStoreCount DEF Handler
<1>3. ASSUME NEW p \in Pid, Library(p) PROVE CountInv'
  BY <1>3, CountStutter DEF Library, ListAdd, SigAction, threadVars, handlerVars
<1>4. ASSUME NEW p \in Pid PROVE ~Environment(p)
  BY NobodyDies
<1>5. CASE UNCHANGED vars
  BY <1>5, CountStutter DEF vars, threadVars, handlerVars
<1>. QED BY <1>1, <1>2, <1>3, <1>4, <1>5 DEF Next

\* A thread that is not after the lock goes on, or its receiver does.
LEMMA OthersServe ==
    ASSUME Few, IndexInv, OrderInv, CountInv,
           NEW s \in Slot, pc[s] \notin {"idle", "lock"}
    PROVE  Served(s)
<1>1. CASE pc[s] \notin {"spin", "wait"}
  BY <1>1 DEF Served, ThreadMoves
<1>2. CASE pc[s] = "spin"
  <2>1. idx[s] \in Pid /\ critical_shmem_lock = s
    BY <1>2 DEF IndexInv, LocalsOK, HasCell, LockOK, Critical
  <2>2. CASE pid_num[idx[s]] = NoSlot
    BY <1>2, <2>2 DEF Served, ThreadMoves
  <2>3. CASE pid_num[idx[s]] # NoSlot
    <3>1. pid_num[idx[s]] = s
      BY <2>1, <2>3 DEF IndexInv, IndexDiscipline
    <3>2. proc[idx[s]] = "live" /\ sig[idx[s]] /\ handler[idx[s]]
      BY <1>2, <2>1, <2>3, <3>1 DEF OrderInv, CellAndSignalAgree, PeopleOK
    <3>. QED BY <1>2, <3>2 DEF Served, HandlerMoves, Running
  <2>. QED BY <2>2, <2>3
<1>3. CASE pc[s] = "wait"
  <2>1. CASE count[s] = 0
    BY <1>3, <2>1 DEF Served, ThreadMoves
  <2>2. CASE count[s] # 0
    <3>1. Cardinality(Receiving(s)) # 0
      BY <1>3, <2>2, WaitCount DEF CountInv
    <3>2. PICK p : p \in Receiving(s)
      BY <3>1, FS_EmptySet
    <3>3. HandlerMoves(p)
      BY <3>2 DEF HandlerMoves, Running, Receiving, OrderInv, PeopleOK
    <3>. QED BY <1>3, <3>2, <3>3 DEF Served
  <2>. QED BY <2>1, <2>2
<1>. QED BY <1>1, <1>2, <1>3

LEMMA NobodyWaits ==
    ASSUME Few, IndexInv, OrderInv, RegInv, CountInv
    PROVE  NobodyWaitsInVain
<1>1. ASSUME NEW s \in Slot, pc[s] = "lock", critical_shmem_lock # NoSlot
      PROVE  critical_shmem_lock # s /\ Served(critical_shmem_lock)
  <2>1. PICK t \in Slot : critical_shmem_lock = t
    BY <1>1 DEF IndexInv, TypeOK, ThreadTypeOK
  <2>2. pc[t] \in Critical /\ pc[s] \notin Critical
    BY <1>1, <2>1 DEF IndexInv, LockOK, Critical
  <2>3. t # s /\ pc[t] \notin {"idle", "lock"}
    BY <2>2 DEF Critical
  <2>. QED BY <2>1, <2>3, OthersServe
<1>2. ASSUME NEW s \in Slot, pc[s] = "lock", critical_shmem_lock = NoSlot
      PROVE  Served(s)
  BY <1>2 DEF Served, ThreadMoves
<1>3. ASSUME NEW p \in Pid, reg[p].step = "sent" PROVE ThreadMoves(reg[p].sd)
  <2>1. pc[reg[p].sd] \in {"insert", "ack"}
    BY <1>3 DEF RegInv, ProcessesRegister, Registering
  <2>. QED BY <2>1 DEF ThreadMoves
<1>. QED BY <1>1, <1>2, <1>3, OthersServe DEF NobodyWaitsInVain

\* However many processes register a message, in whatever order they are posted
\* to, interrupted and done, emi_core waits for those that have not finished and
\* for nobody else, and each of them goes on, unless two updates of a count
\* overlap (emi_core.c:448-463, 472-476, emi_if.c:250, 481).
THEOREM WaitsUntilOverlapCorrect ==
    ASSUME Orderly, Few
    PROVE  Spec => WaitsUntilOverlap
<1>1. Init => RegInv /\ CountInv
  BY RegInit, CountInit
<1>2. IndexInv /\ OrderInv /\ RegInv /\ [Next]_vars => RegInv'
  BY RegNext
<1>3. IndexInv /\ OrderInv /\ UpdatesApart /\ CountInv /\ [Next]_vars => CountInv'
  BY CountNext
<1>4. IndexInv /\ OrderInv /\ RegInv /\ CountInv => CountsReceivers /\ NobodyWaitsInVain
  BY WaitCount, NobodyWaits DEF CountsReceivers, CountInv, CountAt, ReceivingOK
<1>. QED BY <1>1, <1>2, <1>3, <1>4, IndexInvCorrect, OrderInvCorrect, PTL
     DEF Spec, WaitsUntilOverlap
=============================================================================
