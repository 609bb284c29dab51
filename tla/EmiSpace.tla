------------------------------ MODULE EmiSpace ------------------------------
(****************************************************************************)
(* The pool of emi_msg areas (shmem.h:33-104, emi_shmem.c:29-68, list.h): a *)
(* circular doubly linked list of struct emi_transfer_buf.  A free area is  *)
(* taken from the head and moved to the tail, a returned one is searched    *)
(* for from the tail and moved to the head.                                 *)
(*                                                                          *)
(* Pointer writes happen under __emi_msg_space_lock; the head is looked at, *)
(* and the list is walked, without it.  An operation reads prev pointers or *)
(* the head's next pointer, never both, so that the writes of one step here *)
(* (one of each kind at most) cannot be told apart by a reader.  A buf is   *)
(* the number of its area and an address is counted from the segment's      *)
(* base, as ShmLayout has it.  __num_busy_msg, which nothing reads, is left *)
(* out.                                                                     *)
(****************************************************************************)
EXTENDS ShmLayout, FiniteSets

CONSTANTS
    Thread,    \* threads that run emi_recieve_operation
    HEAD,      \* __msg_list
    NULL

\* The struct emi_transfer_buf's that emi_init_msg_space makes.
Buf == AreaNumber

ASSUME HeadAssumption == HEAD \notin Buf /\ NULL \notin Nat \cup {HEAD}
\* With one area the head could be taken for an area while that one is moved.
ASSUME BufAssumption  == EMI_MAX_MSG > 1

VARIABLES
    next, prev,             \* [Cell -> Cell]
    busy,                   \* [Buf -> BOOLEAN]: SPACE_BUSY
    addr,                   \* [Buf -> Nat \cup {NULL}]: the area's address, once set
    __emi_msg_space_lock,
    pc,                     \* [Thread -> Label]
    buf,                    \* the local buf, or lh
    before,                 \* the prev argument of __list_add
    msg_pos,                \* [Thread -> Nat \cup {NULL}]: what the thread obtained
    overlap                 \* history: two operations were once under way together

listVars == <<next, prev>>
vars == <<next, prev, busy, addr, __emi_msg_space_lock, pc, buf, before, msg_pos,
          overlap>>

Cell  == Buf \cup {HEAD}
Label == {"idle", "peek", "olock", "ounlink", "olink", "odone", "oaddr",
          "using", "scan", "rlock", "runlink", "rlink", "rdone", "rfree"}

\* emi_init_space appends the bufs one after the other (emi_shmem.c:51-59).
NextOf(c) == IF c = HEAD THEN 1 ELSE IF c = EMI_MAX_MSG THEN HEAD ELSE c + 1
PrevOf(c) == IF c = HEAD THEN EMI_MAX_MSG ELSE IF c = 1 THEN HEAD ELSE c - 1

Init ==
    /\ next = [c \in Cell |-> NextOf(c)]
    /\ prev = [c \in Cell |-> PrevOf(c)]
    /\ busy = [b \in Buf |-> FALSE]
    /\ addr = [b \in Buf |-> NULL]
    /\ __emi_msg_space_lock = NULL
    /\ pc = [t \in Thread |-> "idle"]
    /\ buf = [t \in Thread |-> NULL]
    /\ before = [t \in Thread |-> NULL]
    /\ msg_pos = [t \in Thread |-> NULL]
    /\ overlap = FALSE

Goto(t, l) == pc' = [pc EXCEPT ![t] = l]

\* A thread that is in an operation.
Busy(t) == pc[t] \notin {"idle", "using"}
Begin(t) == overlap' = (overlap \/ \E u \in Thread \ {t} : Busy(u))

-----------------------------------------------------------------------------
(* list_move and list_move_tail, in three steps under the lock              *)

\* __list_del(buf->prev, buf->next)
Unlink(b) ==
    /\ prev' = [prev EXCEPT ![next[b]] = prev[b]]
    /\ next' = [next EXCEPT ![prev[b]] = next[b]]

\* The first two writes of __list_add(b, p, n) ...
LinkIn(b, n) ==
    /\ prev' = [prev EXCEPT ![n] = b]
    /\ next' = [next EXCEPT ![b] = n]

\* ... and the last two.
LinkOut(b, p) ==
    /\ prev' = [prev EXCEPT ![b] = p]
    /\ next' = [next EXCEPT ![p] = b]

\* Faulty variant: emi_lock does not wait.
Acquire_at_once(t, from, to) ==
    /\ pc[t] = from
    /\ __emi_msg_space_lock' = buf[t]
    /\ Goto(t, to)
    /\ UNCHANGED <<listVars, busy, addr, buf, before, msg_pos, overlap>>

\* emi_lock(lock)
Acquire(t, from, to) ==
    /\ pc[t] = from
    /\ __emi_msg_space_lock = NULL
    /\ __emi_msg_space_lock' = buf[t]
    /\ Goto(t, to)
    /\ UNCHANGED <<listVars, busy, addr, buf, before, msg_pos, overlap>>

-----------------------------------------------------------------------------
(* __emi_obtain_space                                                       *)

\* A connection has been accepted; buf = head->next, without the lock.
ReadHead(t) ==
    /\ pc[t] = "idle" /\ Begin(t)
    /\ buf' = [buf EXCEPT ![t] = next[HEAD]]
    /\ Goto(t, "peek")
    /\ UNCHANGED <<listVars, busy, addr, __emi_msg_space_lock, before, msg_pos>>

\* Faulty variant: busy is not looked at.
CheckBusy_never(t) ==
    /\ pc[t] = "peek"
    /\ Goto(t, "olock")
    /\ UNCHANGED <<listVars, busy, addr, __emi_msg_space_lock, buf, before, msg_pos, overlap>>

\* Line 77, without the lock.  NULL sends the thread to e0 (emi_core.c:346-349),
\* which returns msg_pos, NULL, to the pool.
CheckBusy(t) ==
    /\ pc[t] = "peek"
    /\ IF busy[buf[t]]
       THEN Goto(t, "scan") /\ buf' = [buf EXCEPT ![t] = prev[HEAD]]
       ELSE Goto(t, "olock") /\ UNCHANGED buf
    /\ UNCHANGED <<listVars, busy, addr, __emi_msg_space_lock, before, msg_pos, overlap>>

ObtainLock(t) == Acquire(t, "olock", "ounlink")

ObtainUnlink(t) ==
    /\ pc[t] = "ounlink"
    /\ Unlink(buf[t])
    /\ Goto(t, "olink")
    /\ UNCHANGED <<busy, addr, __emi_msg_space_lock, buf, before, msg_pos, overlap>>

\* Faulty variant: list_move for list_move_tail.
ObtainLink_at_head(t) ==
    /\ pc[t] = "olink"
    /\ before' = [before EXCEPT ![t] = HEAD]
    /\ LinkIn(buf[t], next[HEAD])
    /\ Goto(t, "odone")
    /\ UNCHANGED <<busy, addr, __emi_msg_space_lock, buf, msg_pos, overlap>>

ObtainLink(t) ==
    /\ pc[t] = "olink"
    /\ before' = [before EXCEPT ![t] = prev[HEAD]]
    /\ LinkIn(buf[t], HEAD)
    /\ Goto(t, "odone")
    /\ UNCHANGED <<busy, addr, __emi_msg_space_lock, buf, msg_pos, overlap>>

\* The end of list_move_tail, busy and emi_unlock.
ObtainUnlock(t) ==
    /\ pc[t] = "odone"
    /\ LinkOut(buf[t], before[t])
    /\ busy' = [busy EXCEPT ![buf[t]] = TRUE]
    /\ __emi_msg_space_lock' = NULL
    /\ before' = [before EXCEPT ![t] = NULL]
    /\ Goto(t, "oaddr")
    /\ UNCHANGED <<addr, buf, msg_pos, overlap>>

\* Lines 83-85, after the lock is released.
SetAddr(t) ==
    /\ pc[t] = "oaddr"
    /\ addr' = [addr EXCEPT ![buf[t]] = offset(buf[t])]
    /\ msg_pos' = [msg_pos EXCEPT ![t] = offset(buf[t])]
    /\ buf' = [buf EXCEPT ![t] = NULL]
    /\ Goto(t, "using")
    /\ UNCHANGED <<listVars, busy, __emi_msg_space_lock, before, overlap>>

-----------------------------------------------------------------------------
(* __emi_return_space                                                       *)

\* The thread is done with its message (emi_core.c:513); lh = head->prev.
BeginReturn(t) ==
    /\ pc[t] = "using" /\ Begin(t)
    /\ buf' = [buf EXCEPT ![t] = prev[HEAD]]
    /\ Goto(t, "scan")
    /\ UNCHANGED <<listVars, busy, addr, __emi_msg_space_lock, before, msg_pos>>

\* Faulty variant: the first buf is taken for the one that has the address.
Scan_takes_first(t) ==
    /\ pc[t] = "scan"
    /\ \/ /\ buf[t] = HEAD
          /\ buf' = [buf EXCEPT ![t] = NULL]
          /\ msg_pos' = [msg_pos EXCEPT ![t] = NULL]
          /\ Goto(t, "idle")
       \/ /\ buf[t] # HEAD
          /\ Goto(t, "rlock")
          /\ UNCHANGED <<buf, msg_pos>>
    /\ UNCHANGED <<listVars, busy, addr, __emi_msg_space_lock, before, overlap>>

\* Lines 92-94, without the lock: one turn of list_for_each_tail.
Scan(t) ==
    /\ pc[t] = "scan"
    /\ \/ /\ buf[t] = HEAD
          /\ buf' = [buf EXCEPT ![t] = NULL]
          /\ msg_pos' = [msg_pos EXCEPT ![t] = NULL]
          /\ Goto(t, "idle")
       \/ /\ buf[t] # HEAD /\ addr[buf[t]] = msg_pos[t]
          /\ Goto(t, "rlock")
          /\ UNCHANGED <<buf, msg_pos>>
       \/ /\ buf[t] # HEAD /\ addr[buf[t]] # msg_pos[t]
          /\ buf' = [buf EXCEPT ![t] = prev[buf[t]]]
          /\ UNCHANGED <<pc, msg_pos>>
    /\ UNCHANGED <<listVars, busy, addr, __emi_msg_space_lock, before, overlap>>

ReturnLock(t) == Acquire(t, "rlock", "runlink")

ReturnUnlink(t) ==
    /\ pc[t] = "runlink"
    /\ Unlink(buf[t])
    /\ Goto(t, "rlink")
    /\ UNCHANGED <<busy, addr, __emi_msg_space_lock, buf, before, msg_pos, overlap>>

ReturnLink(t) ==
    /\ pc[t] = "rlink"
    /\ LinkIn(buf[t], next[HEAD])
    /\ Goto(t, "rdone")
    /\ UNCHANGED <<busy, addr, __emi_msg_space_lock, buf, before, msg_pos, overlap>>

\* The end of list_move, and emi_unlock.
ReturnUnlock(t) ==
    /\ pc[t] = "rdone"
    /\ LinkOut(buf[t], HEAD)
    /\ __emi_msg_space_lock' = NULL
    /\ Goto(t, "rfree")
    /\ UNCHANGED <<busy, addr, buf, before, msg_pos, overlap>>

\* Faulty variant: busy keeps its value.
ClearBusy_forgotten(t) ==
    /\ pc[t] = "rfree"
    /\ buf' = [buf EXCEPT ![t] = NULL]
    /\ msg_pos' = [msg_pos EXCEPT ![t] = NULL]
    /\ Goto(t, "idle")
    /\ UNCHANGED <<listVars, busy, addr, __emi_msg_space_lock, before, overlap>>

\* Line 98, after the lock is released; the thread exits.
ClearBusy(t) ==
    /\ pc[t] = "rfree"
    /\ busy' = [busy EXCEPT ![buf[t]] = FALSE]
    /\ buf' = [buf EXCEPT ![t] = NULL]
    /\ msg_pos' = [msg_pos EXCEPT ![t] = NULL]
    /\ Goto(t, "idle")
    /\ UNCHANGED <<listVars, addr, __emi_msg_space_lock, before, overlap>>

Next == \E t \in Thread :
    \/ ReadHead(t) \/ CheckBusy(t) \/ ObtainLock(t) \/ ObtainUnlink(t)
    \/ ObtainLink(t) \/ ObtainUnlock(t) \/ SetAddr(t)
    \/ BeginReturn(t) \/ Scan(t) \/ ReturnLock(t) \/ ReturnUnlink(t)
    \/ ReturnLink(t) \/ ReturnUnlock(t) \/ ClearBusy(t)

Spec == Init /\ [][Next]_vars

-----------------------------------------------------------------------------
(* Properties *)

Using(t) == pc[t] = "using"

\* No two threads use one area (emi_shmem.c:120).
NoDoubleAllocation ==
    \A t, u \in Thread : t # u /\ Using(t) /\ Using(u) => msg_pos[t] # msg_pos[u]

\* As long as no two operations of the pool overlap, what one thread writes to
\* its area is never another thread's nor a process's index, and only the last
\* area reaches behind the segment (emi_shmem.c:56, shmem.h:53).
UsersApart ==
    ~overlap => \A t \in Thread : Using(t) =>
        /\ \A u \in Thread \ {t} :
              Using(u) => Written(msg_pos[t]) \cap Written(msg_pos[u]) = {}
        /\ \A pid \in 0..(pid_max - 1) : Written(msg_pos[t]) \cap IndexCell(pid) = {}
        /\ msg_pos[t] # offset(EMI_MAX_MSG) =>
              Written(msg_pos[t]) \subseteq 0..(SegmentSize - 1)

\* Whatever threads race for, the list is a ring of all bufs whenever the lock
\* is free: next and prev are inverse and no part of it is cut off.
ListIntact ==
    __emi_msg_space_lock = NULL =>
        /\ \A c \in Cell : prev[next[c]] = c
        /\ \A S \in SUBSET Cell :
              S # {} /\ (\A c \in S : next[c] \in S) => S = Cell

\* A thread is refused an area only when every area is taken, unless operations
\* overlap (emi_core.c:343-349).
RefusedOnlyWhenFull ==
    ~overlap => \A t \in Thread :
        pc[t] = "scan" /\ msg_pos[t] = NULL => \A b \in Buf : busy[b]

\* A busy area has a user or an operation on its way: none is lost, unless
\* operations overlap.
NothingLost ==
    ~overlap => \A b \in Buf :
        busy[b] => \E t \in Thread : buf[t] = b \/ msg_pos[t] = offset(b)

\* Until operations overlap, the list implements the abstract pool: each step is
\* one of the pool's or leaves it as it is.
Taken(t) ==
    IF pc[t] \in {"olock", "ounlink", "olink", "odone", "oaddr"} THEN offset(buf[t])
    ELSE msg_pos[t]
Pool == INSTANCE SlotPool WITH
            Buf  <- {offset(b) : b \in Buf},
            NoBuf <- NULL,
            held <- [t \in Thread |-> Taken(t)],
            free <- {offset(b) : b \in Buf} \ {Taken(t) : t \in Thread}
PoolUntilOverlap == Pool!Init /\ [][~overlap' => Pool!Next]_(Pool!vars)
=============================================================================
