--------------------------- MODULE EmiSpaceProofs ---------------------------
(***************************************************************************)
(* Proofs about EmiSpace, for any number of threads and areas.             *)
(*                                                                         *)
(* First what the layout of the segment (ShmLayout) gives for every number *)
(* of processes and areas and every size: where areas meet and where they  *)
(* leave the segment.                                                      *)
(*                                                                         *)
(* ListIntact holds however the threads interleave.  It needs to know what *)
(* the list looks like in the middle of an operation: while a buf is out   *)
(* of the list the others are a ring, and while it is half in, only the    *)
(* pointers to it are missing (ListOK); that the one thread between lock   *)
(* and unlock (LockOK) has a buf in hand, which was read without the lock  *)
(* and is an area all the same (PointersOK).                               *)
(*                                                                         *)
(* The rest holds while operations do not overlap (Alone).  An area is     *)
(* busy exactly if a thread has it (HeldOK), the busy ones are at the end  *)
(* of the list (SortedOK), so that a busy first one means that all are,    *)
(* and a thread that looks for its area from the end has not yet passed it *)
(* (WalkOK).                                                               *)
(***************************************************************************)
EXTENDS EmiSpace, WellFoundedInduction, TLAPS

-----------------------------------------------------------------------------
(* The layout of the segment                                                 *)

\* An area begins at least GET_SIZE behind every area with a smaller number.
LEMMA Spacing ==
    ASSUME NEW a \in Nat, NEW b \in Nat, NEW g \in Nat, a < b
    PROVE  a * g + g <= b * g
<1>1. PICK d \in Nat : b = a + 1 + d
  <2>. b - a - 1 \in Nat
    OBVIOUS
  <2>. QED OBVIOUS
<1>2. b * g = a * g + g + d * g
  BY <1>1
<1>3. a * g \in Nat /\ d * g \in Nat
  OBVIOUS
<1>. QED BY <1>2, <1>3

LEMMA Sizes ==
    /\ GET_SIZE \in Nat /\ bias \in Nat
    /\ GET_SIZE > 0
    /\ \A i \in Nat : offset(i) \in Nat /\ i * GET_SIZE \in Nat
    /\ SegmentSize = bias + EMI_MAX_MSG * (sizeof_emi_msg + emi_data_size_per_msg)
BY LayoutAssumption DEF GET_SIZE, bias, offset, sizeof_int, SegmentSize

\* Different areas have different addresses (emi_shmem.c:56).
THEOREM OffsetsDiffer ==
    ASSUME NEW i \in Nat, NEW j \in Nat, offset(i) = offset(j)
    PROVE  i = j
<1>1. CASE i < j
  BY <1>1, Sizes, Spacing DEF offset
<1>2. CASE j < i
  BY <1>2, Sizes, Spacing DEF offset
<1>. QED BY <1>1, <1>2

\* Areas never meet, whatever emi_core serves, provided that emi.conf asks for
\* messages no larger than the areas are laid out for (shmem.h:53).
THEOREM AreasDisjoint ==
    ASSUME emi_data_size_per_msg <= EMI_DATA_SIZE_PER_MSG,
           NEW i \in Nat, NEW j \in Nat, i # j
    PROVE  Written(offset(i)) \cap Written(offset(j)) = {}
<1>1. \A a, b \in Nat : a < b => Written(offset(a)) \cap Written(offset(b)) = {}
  <2>. SUFFICES ASSUME NEW a \in Nat, NEW b \in Nat, a < b
                PROVE  \A x \in Written(offset(a)) : x \notin Written(offset(b))
    OBVIOUS
  <2>1. offset(a) + GET_SIZE <= offset(b)
    <3>1. a * GET_SIZE + GET_SIZE <= b * GET_SIZE
      BY Sizes, Spacing
    <3>. QED BY <3>1, Sizes DEF offset
  <2>2. sizeof_emi_msg + emi_data_size_per_msg <= GET_SIZE
    BY LayoutAssumption DEF GET_SIZE
  <2>3. offset(a) \in Nat /\ offset(b) \in Nat
    BY Sizes
  <2>. QED BY <2>1, <2>2, <2>3, Sizes, LayoutAssumption DEF Written
<1>. QED BY <1>1

\* If emi.conf asks for more than the areas are laid out for, a message of that
\* size runs into the next area: neither size is checked against the other.
THEOREM LargerAreasMeet ==
    ASSUME emi_data_size_per_msg > EMI_DATA_SIZE_PER_MSG, NEW i \in Nat
    PROVE  Written(offset(i)) \cap Written(offset(i + 1)) # {}
<1>1. (i + 1) * GET_SIZE = i * GET_SIZE + GET_SIZE
  BY Sizes
<1>2. offset(i + 1) = offset(i) + GET_SIZE
  BY <1>1, Sizes DEF offset
<1>3. offset(i) \in Nat /\ offset(i + 1) \in Nat
  BY Sizes
<1>4. offset(i + 1) \in Written(offset(i))
  BY <1>2, <1>3, LayoutAssumption DEF Written, GET_SIZE
<1>5. offset(i + 1) \in Written(offset(i + 1))
  BY <1>3, LayoutAssumption DEF Written
<1>. QED BY <1>4, <1>5

\* A message never reaches the index area.
THEOREM IndexApart ==
    ASSUME NEW i \in Nat, NEW pid \in 0..(pid_max - 1)
    PROVE  Written(offset(i)) \cap IndexCell(pid) = {}
<1>1. pid * sizeof_int + sizeof_int - 1 < bias
  BY LayoutAssumption DEF bias, sizeof_int
<1>2. bias <= offset(i) /\ offset(i) \in Nat
  BY Sizes DEF offset
<1>. QED BY <1>1, <1>2, Sizes, LayoutAssumption DEF Written, IndexCell, sizeof_int

\* Areas but the last are inside the segment if emi.conf asks for no less than
\* they are laid out for ...
THEOREM AreasInside ==
    ASSUME EMI_DATA_SIZE_PER_MSG <= emi_data_size_per_msg,
           NEW i \in Nat, i < EMI_MAX_MSG
    PROVE  Written(offset(i)) \subseteq 0..(SegmentSize - 1)
<1>. DEFINE g == sizeof_emi_msg + emi_data_size_per_msg
<1>1. g \in Nat /\ GET_SIZE <= g
  BY LayoutAssumption DEF GET_SIZE
<1>2. i * GET_SIZE <= i * g
  <2>1. PICK d \in Nat : g = GET_SIZE + d
    <3>. g - GET_SIZE \in Nat
      BY <1>1, Sizes
    <3>. QED BY <1>1, Sizes
  <2>2. i * g = i * GET_SIZE + i * d
    BY <2>1, Sizes
  <2>3. i * d \in Nat
    OBVIOUS
  <2>. QED BY <2>2, <2>3, Sizes
<1>3. i * g + g <= EMI_MAX_MSG * g
  BY <1>1, Spacing, LayoutAssumption
<1>4. i * g \in Nat /\ EMI_MAX_MSG * g \in Nat
  BY <1>1, LayoutAssumption
<1>5. offset(i) + g <= SegmentSize
  BY <1>2, <1>3, <1>4, <1>1, Sizes DEF offset
<1>6. offset(i) \in Nat /\ SegmentSize \in Int
  BY <1>4, <1>1, Sizes
<1>7. \A x \in Written(offset(i)) : x \in Int /\ 0 <= x /\ x < offset(i) + g
  BY <1>6, <1>1, LayoutAssumption DEF Written
<1>. HIDE DEF g
<1>. QED BY <1>5, <1>6, <1>7, <1>1

\* ... and the last one is behind the segment's end from its first byte on, when
\* the two sizes are the same: areas are numbered from 1 (emi_shmem.c:56).
THEOREM LastAreaOutside ==
    ASSUME EMI_DATA_SIZE_PER_MSG = emi_data_size_per_msg
    PROVE  offset(EMI_MAX_MSG) = SegmentSize
BY Sizes, LayoutAssumption DEF offset, GET_SIZE

-----------------------------------------------------------------------------
(* The list of areas                                                         *)

InList(t) == pc[t] \in {"ounlink", "olink", "odone", "runlink", "rlink", "rdone"}
Cut(t)    == pc[t] \in {"olink", "odone", "rlink", "rdone"}
Asking(t) == pc[t] \in {"olock", "ounlink", "olink", "odone"}
Giving(t) == pc[t] \in {"rlock", "runlink", "rlink", "rdone", "rfree"}
HasBuf(t) == Asking(t) \/ Giving(t) \/ pc[t] \in {"peek", "oaddr"}

\* No part of D is closed under n.
Connected(n, D) == \A S \in SUBSET D : S # {} /\ (\A c \in S : n[c] \in S) => S = D

\* The cells of D are one ring.
IsRing(n, p, D) ==
    /\ \A c \in D : n[c] \in D /\ p[c] \in D /\ p[n[c]] = c /\ n[p[c]] = c
    /\ Connected(n, D)

\* The cells but b are one ring, in which b is about to follow x: b's successor
\* already points back to it.
HalfRing(n, p, b, x) ==
    /\ x \in Cell \ {b} /\ n[b] = n[x] /\ p[n[x]] = b
    /\ \A c \in Cell \ {b} : n[c] \in Cell \ {b}
    /\ \A c \in Cell \ {b} : c # x => p[n[c]] = c
    /\ \A c \in Cell \ {b} : c # n[x] => p[c] \in Cell \ {b} /\ n[p[c]] = c
    /\ Connected(n, Cell \ {b})

SpaceType ==
    /\ next \in [Cell -> Cell] /\ prev \in [Cell -> Cell]
    /\ busy \in [Buf -> BOOLEAN]
    /\ addr \in [Buf -> Nat \cup {NULL}]
    /\ __emi_msg_space_lock \in Cell \cup {NULL}
    /\ pc \in [Thread -> Label]
    /\ buf \in [Thread -> Cell \cup {NULL}]
    /\ before \in [Thread -> Cell \cup {NULL}]
    /\ msg_pos \in [Thread -> Nat \cup {NULL}]
    /\ overlap \in BOOLEAN

PointersOK ==
    /\ next[HEAD] \in Buf
    /\ \A t \in Thread : HasBuf(t) => buf[t] \in Buf
    /\ \A t \in Thread : pc[t] = "scan" => buf[t] \in Cell

LockOK == \A t \in Thread : InList(t) =>
    /\ __emi_msg_space_lock # NULL
    /\ \A u \in Thread : InList(u) => u = t

ListOK ==
    /\ (\A t \in Thread : ~Cut(t)) => IsRing(next, prev, Cell)
    /\ \A t \in Thread : pc[t] \in {"olink", "rlink"} =>
          IsRing(next, prev, Cell \ {buf[t]})
    /\ \A t \in Thread : pc[t] = "odone" => HalfRing(next, prev, buf[t], before[t])
    /\ \A t \in Thread : pc[t] = "rdone" => HalfRing(next, prev, buf[t], HEAD)

ListInv == SpaceType /\ PointersOK /\ LockOK /\ ListOK

Alone == ~overlap => \A t, u \in Thread : Busy(t) /\ Busy(u) => t = u

\* An area keeps its address once it has one, and a thread in use has one.
PositionOK ==
    /\ \A b \in Buf : addr[b] \in {NULL, offset(b)}
    /\ \A t \in Thread : msg_pos[t] = NULL \/ \E b \in Buf : msg_pos[t] = offset(b)
    /\ \A t \in Thread : Asking(t) \/ pc[t] \in {"idle", "peek", "oaddr"} =>
          msg_pos[t] = NULL
    /\ \A t \in Thread : Using(t) => msg_pos[t] # NULL

HeldOK == ~overlap =>
    /\ \A t \in Thread : Asking(t) => ~busy[buf[t]]
    /\ \A t \in Thread, b \in Buf : Taken(t) = offset(b) /\ ~Asking(t) => busy[b]
    /\ \A b \in Buf : busy[b] => \E t \in Thread : Taken(t) = offset(b)
    /\ \A t \in Thread, b \in Buf : msg_pos[t] = offset(b) => addr[b] = offset(b)
    /\ \A t, u \in Thread : t # u /\ Taken(t) = Taken(u) => Taken(t) = NULL

\* What follows a busy area is busy, but for one that is being given back.
SortedOK == ~overlap =>
    /\ \A b \in Buf : busy[b] =>
          \/ next[b] = HEAD \/ (next[b] \in Buf /\ busy[next[b]])
          \/ \E t \in Thread : pc[t] \in {"rlink", "rdone", "rfree"} /\ buf[t] = b
    /\ \A t \in Thread : pc[t] = "peek" => buf[t] = next[HEAD]
    /\ \A t \in Thread : pc[t] = "odone" => next[buf[t]] = HEAD
    /\ \A t \in Thread : pc[t] = "rfree" => prev[buf[t]] = HEAD

ReturnOK == ~overlap => \A t \in Thread :
    /\ Giving(t) => msg_pos[t] = offset(buf[t])
    /\ pc[t] = "scan" /\ msg_pos[t] = NULL => \A b \in Buf : busy[b]

\* W are the cells that the search has passed.
WalkOK == ~overlap => \A t \in Thread : pc[t] = "scan" =>
    \E W \in SUBSET Cell :
        /\ HEAD \in W
        /\ \A b \in W \cap Buf : addr[b] # msg_pos[t]
        /\ \A c \in W : prev[c] \in W \cup {buf[t]}

\* A step of thread t.
Step(t) ==
    \/ ReadHead(t) \/ CheckBusy(t) \/ ObtainLock(t) \/ ObtainUnlink(t)
    \/ ObtainLink(t) \/ ObtainUnlock(t) \/ SetAddr(t)
    \/ BeginReturn(t) \/ Scan(t) \/ ReturnLock(t) \/ ReturnUnlink(t)
    \/ ReturnLink(t) \/ ReturnUnlock(t) \/ ClearBusy(t)

PoolInv == /\ ListInv /\ Alone /\ PositionOK /\ HeldOK /\ SortedOK /\ ReturnOK
           /\ WalkOK

-----------------------------------------------------------------------------
(* The steps of list_move and list_move_tail on the list                    *)

LEMMA CellFacts ==
    /\ HEAD \in Cell /\ HEAD \notin Buf /\ Buf \subseteq Cell /\ NULL \notin Cell
    /\ Buf \subseteq Nat /\ 1 \in Buf /\ 2 \in Buf
    /\ \A c \in Cell : c \in Buf \/ c = HEAD
BY HeadAssumption, BufAssumption, LayoutAssumption DEF Cell, Buf, AreaNumber

\* A non-empty set of numbers has a least one.
LEMMA LeastNumber ==
    ASSUME NEW S \in SUBSET Nat, S # {}
    PROVE  \E x \in S : \A y \in S : x <= y
<1>. DEFINE Less == {p \in Nat \X Nat : p[1] < p[2]}
<1>1. IsWellFoundedOn(Less, Nat)
  BY NatLessThanWellFounded DEF OpToRel
<1>2. PICK x \in S : \A y \in S : ~(<<y, x>> \in Less)
  BY <1>1, WFMin
<1>3. \A y \in S : y < x => <<y, x>> \in Less
  OBVIOUS
<1>. HIDE DEF Less
<1>4. \A y \in S : ~(y < x)
  BY <1>2, <1>3
<1>5. \A y \in S : x <= y
  BY <1>4
<1>. QED BY <1>5

\* emi_init_space makes one ring.
LEMMA InitRing ==
    IsRing([c \in Cell |-> NextOf(c)], [c \in Cell |-> PrevOf(c)], Cell)
<1>. DEFINE n == [c \in Cell |-> NextOf(c)]
<1>1. /\ n[HEAD] = 1 /\ n[EMI_MAX_MSG] = HEAD
      /\ \A i \in Buf : i # EMI_MAX_MSG => i + 1 \in Buf /\ n[i] = i + 1
  BY CellFacts, LayoutAssumption, BufAssumption
     DEF NextOf, Cell, Buf, AreaNumber
<1>2. \A c \in Cell : /\ NextOf(c) \in Cell /\ PrevOf(c) \in Cell
                      /\ PrevOf(NextOf(c)) = c /\ NextOf(PrevOf(c)) = c
  BY CellFacts, LayoutAssumption, BufAssumption
     DEF NextOf, PrevOf, Cell, Buf, AreaNumber
<1>. HIDE DEF n
<1>3. ASSUME NEW S \in SUBSET Cell, S # {}, \A c \in S : n[c] \in S
      PROVE  S = Cell
  <2>1. HEAD \in S
    <3>. SUFFICES ASSUME HEAD \notin S PROVE FALSE
      OBVIOUS
    <3>. DEFINE left == {k \in Nat : \E i \in S : k = EMI_MAX_MSG - i}
    <3>1. S \subseteq Buf
      BY CellFacts
    <3>2. \A i \in S : EMI_MAX_MSG - i \in left
      BY <3>1, LayoutAssumption DEF Buf, AreaNumber
    <3>3. left # {} /\ left \subseteq Nat
      BY <3>2, <1>3
    <3>. HIDE DEF left
    <3>4. PICK k \in left : \A l \in left : k <= l
      BY <3>3, LeastNumber
    <3>5. PICK i \in S : k = EMI_MAX_MSG - i
      BY <3>4 DEF left
    <3>6. n[i] \in S /\ i \in Buf /\ i \in Nat
      BY <3>1, <3>5, <1>3, CellFacts
    <3>7. i # EMI_MAX_MSG
      BY <3>6, <1>1
    <3>8. i + 1 \in S
      BY <3>6, <3>7, <1>1
    <3>9. EMI_MAX_MSG - (i + 1) \in left
      BY <3>2, <3>8
    <3>. QED BY <3>4, <3>5, <3>6, <3>9, <3>3, LayoutAssumption
  <2>2. 1 \in S
    BY <2>1, <1>1, <1>3
  <2>. DEFINE out == {i \in Buf : i \notin S}
  <2>3. ASSUME out # {} PROVE FALSE
    <3>1. PICK i \in out : \A j \in out : i <= j
      BY <2>3, LeastNumber, CellFacts
    <3>2. i \in Buf /\ i # 1 /\ i \in Nat
      BY <2>2, <3>1, CellFacts
    <3>3. i - 1 \in Buf /\ i - 1 # EMI_MAX_MSG /\ i = (i - 1) + 1 /\ i - 1 < i
      BY <3>2, LayoutAssumption DEF Buf, AreaNumber
    <3>4. i - 1 \in S
      BY <3>1, <3>3, <3>2
    <3>. QED BY <3>3, <3>4, <3>1, <1>1, <1>3
  <2>. QED BY <2>1, <2>3, CellFacts
<1>. QED BY <1>2, <1>3 DEF IsRing, Connected, n

\* In a ring of several cells none follows itself.
LEMMA NoLoop ==
    ASSUME NEW n, NEW p, NEW D, IsRing(n, p, D), NEW c \in D, NEW d \in D, c # d
    PROVE  n[c] # c /\ p[c] # c
<1>1. n[c] # c
  <2>. SUFFICES ASSUME n[c] = c PROVE FALSE
    OBVIOUS
  <2>. DEFINE S == {c}
  <2>1. S \in SUBSET D /\ S # {} /\ \A e \in S : n[e] \in S
    OBVIOUS
  <2>2. S = D
    BY <2>1, Zenon DEF IsRing, Connected
  <2>. QED BY <2>2
<1>. QED BY <1>1 DEF IsRing

\* Taking b out leaves a ring of the others.
LEMMA UnlinkRing ==
    ASSUME SpaceType, IsRing(next, prev, Cell), NEW b \in Buf, Unlink(b)
    PROVE  /\ next' \in [Cell -> Cell] /\ prev' \in [Cell -> Cell]
           /\ IsRing(next', prev', Cell \ {b})
           /\ next'[HEAD] \in Buf
<1>. DEFINE D == Cell \ {b}
<1>. USE DEF SpaceType
<1>1. b \in Cell /\ HEAD \in Cell /\ b # HEAD
  BY CellFacts
<1>2. next[b] # b /\ prev[b] # b /\ next[b] \in Cell /\ prev[b] \in Cell
  BY <1>1, NoLoop
<1>3. /\ next' \in [Cell -> Cell] /\ prev' \in [Cell -> Cell]
      /\ \A c \in Cell : next'[c] = IF c = prev[b] THEN next[b] ELSE next[c]
      /\ \A c \in Cell : prev'[c] = IF c = next[b] THEN prev[b] ELSE prev[c]
  BY <1>2 DEF Unlink
<1>4. \A c \in D : /\ next'[c] \in D /\ prev'[c] \in D
                   /\ prev'[next'[c]] = c /\ next'[prev'[c]] = c
  BY <1>1, <1>2, <1>3 DEF IsRing
<1>5. ASSUME NEW S \in SUBSET D, S # {}, \A c \in S : next'[c] \in S
      PROVE  S = D
  <2>1. CASE prev[b] \in S
    <3>. DEFINE T == S \cup {b}
    <3>1. \A c \in T : next[c] \in T
      BY <2>1, <1>5, <1>3, <1>1, <1>2 DEF IsRing
    <3>2. T \in SUBSET Cell /\ T # {}
      BY <1>1
    <3>3. T = Cell
      BY <3>1, <3>2, Zenon DEF IsRing, Connected
    <3>. QED BY <3>3
  <2>2. CASE prev[b] \notin S
    <3>1. \A c \in S : next[c] \in S
      BY <2>2, <1>5, <1>3
    <3>2. S = Cell
      BY <3>1, <1>5, Zenon DEF IsRing, Connected
    <3>. QED BY <3>2, <1>1
  <2>. QED BY <2>1, <2>2
<1>6. IsRing(next', prev', D)
  BY <1>4, <1>5, Zenon DEF IsRing, Connected
<1>7. PICK d \in Buf : d # b
  BY CellFacts
<1>8. HEAD \in D /\ d \in D /\ HEAD # d
  BY <1>1, <1>7, CellFacts
<1>9. next'[HEAD] \in D
  BY <1>4, <1>8
<1>. HIDE DEF D
<1>10. next'[HEAD] # HEAD
  BY <1>6, <1>8, NoLoop
<1>. USE DEF D
<1>. QED BY <1>3, <1>6, <1>9, <1>10, CellFacts

\* The first writes of __list_add, between x and its successor.
LEMMA LinkInRing ==
    ASSUME SpaceType, NEW b \in Buf, IsRing(next, prev, Cell \ {b}),
           next[HEAD] \in Buf, NEW x \in Cell \ {b}, LinkIn(b, next[x])
    PROVE  /\ next' \in [Cell -> Cell] /\ prev' \in [Cell -> Cell]
           /\ HalfRing(next', prev', b, x)
           /\ next'[HEAD] \in Buf
           /\ \A c \in Cell \ {b} : next'[c] = next[c]
           /\ next'[b] = next[x]
<1>. USE DEF SpaceType
<1>1. b \in Cell /\ b # HEAD
  BY CellFacts
<1>2. next[x] \in Cell \ {b} /\ prev[next[x]] = x
  BY DEF IsRing
<1>3. /\ next' \in [Cell -> Cell] /\ prev' \in [Cell -> Cell]
      /\ \A c \in Cell : next'[c] = IF c = b THEN next[x] ELSE next[c]
      /\ \A c \in Cell : prev'[c] = IF c = next[x] THEN b ELSE prev[c]
  BY <1>1, <1>2 DEF LinkIn
<1>4. next'[HEAD] \in Buf
  BY <1>1, <1>3, CellFacts
<1>5. Connected(next', Cell \ {b})
  <2>1. ASSUME NEW S \in SUBSET (Cell \ {b}), S # {}, \A c \in S : next'[c] \in S
        PROVE  S = Cell \ {b}
    <3>1. \A c \in S : next[c] \in S
      BY <2>1, <1>3
    <3>. QED BY <3>1, <2>1, Zenon DEF IsRing, Connected
  <2>. QED BY <2>1, Zenon DEF Connected
<1>6. /\ \A c \in Cell \ {b} : next'[c] \in Cell \ {b}
      /\ \A c \in Cell \ {b} : c # x => prev'[next'[c]] = c
      /\ \A c \in Cell \ {b} : c # next'[x] =>
            prev'[c] \in Cell \ {b} /\ next'[prev'[c]] = c
  BY <1>2, <1>3 DEF IsRing
<1>7. next'[b] = next'[x] /\ prev'[next'[x]] = b
  BY <1>1, <1>2, <1>3
<1>8. HalfRing(next', prev', b, x)
  BY <1>5, <1>6, <1>7 DEF HalfRing
<1>. QED BY <1>3, <1>4, <1>8

\* The last writes of __list_add complete the ring.
LEMMA LinkOutRing ==
    ASSUME SpaceType, NEW b \in Buf, NEW x, HalfRing(next, prev, b, x),
           next[HEAD] \in Buf, LinkOut(b, x)
    PROVE  /\ next' \in [Cell -> Cell] /\ prev' \in [Cell -> Cell]
           /\ IsRing(next', prev', Cell)
           /\ next'[HEAD] \in Buf
<1>. USE DEF SpaceType
<1>1. b \in Cell /\ b # HEAD /\ x \in Cell \ {b}
  BY CellFacts DEF HalfRing
<1>2. /\ next' \in [Cell -> Cell] /\ prev' \in [Cell -> Cell]
      /\ \A c \in Cell : next'[c] = IF c = x THEN b ELSE next[c]
      /\ \A c \in Cell : prev'[c] = IF c = b THEN x ELSE prev[c]
  BY <1>1 DEF LinkOut
<1>3. next'[HEAD] \in Buf
  BY <1>1, <1>2, CellFacts
<1>4. next'[b] = next[x] /\ next[x] \in Cell \ {b}
  BY <1>1, <1>2 DEF HalfRing
<1>5. \A c \in Cell : next'[c] \in Cell /\ prev'[c] \in Cell
  BY <1>2
<1>6. \A c \in Cell : prev'[next'[c]] = c
  BY <1>1, <1>2, <1>4 DEF HalfRing
<1>7. \A c \in Cell : next'[prev'[c]] = c
  BY <1>1, <1>2, <1>4 DEF HalfRing
<1>8. ASSUME NEW S \in SUBSET Cell, S # {}, \A c \in S : next'[c] \in S
      PROVE  S = Cell
  <2>. DEFINE T == S \ {b}
  <2>1. CASE b \in S
    <3>1. T # {} /\ T \in SUBSET (Cell \ {b})
      BY <2>1, <1>4, <1>8
    <3>2. \A c \in T : next[c] \in T
      BY <2>1, <1>2, <1>4, <1>8 DEF HalfRing
    <3>3. T = Cell \ {b}
      BY <3>1, <3>2, Zenon DEF HalfRing, Connected
    <3>. QED BY <3>3, <2>1, <1>1
  <2>2. CASE b \notin S
    <3>1. x \notin S
      BY <2>2, <1>1, <1>2, <1>8
    <3>2. \A c \in S : next[c] \in S
      BY <3>1, <1>2, <1>8
    <3>3. S \in SUBSET (Cell \ {b})
      BY <2>2
    <3>4. S = Cell \ {b}
      BY <3>2, <3>3, <1>8, Zenon DEF HalfRing, Connected
    <3>. QED BY <3>1, <3>4, <1>1
  <2>. QED BY <2>1, <2>2
<1>. QED BY <1>2, <1>3, <1>5, <1>6, <1>7, <1>8, Zenon DEF IsRing, Connected

-----------------------------------------------------------------------------
(* ListInv is inductive                                                     *)

LEMMA ListInit == Init => ListInv
<1>. SUFFICES ASSUME Init PROVE ListInv
  OBVIOUS
<1>. USE DEF Init
<1>1. SpaceType
  BY CellFacts, InitRing DEF SpaceType, IsRing, Label
<1>2. \A t \in Thread : pc[t] = "idle"
  OBVIOUS
<1>3. PointersOK
  BY <1>2, CellFacts DEF PointersOK, HasBuf, Asking, Giving, NextOf
<1>4. LockOK /\ ListOK
  BY <1>2, InitRing DEF LockOK, ListOK, InList, Cut
<1>. QED BY <1>1, <1>3, <1>4 DEF ListInv

\* Every action keeps every variable's type.
LEMMA TypeStep ==
    ASSUME ListInv, NEW t \in Thread, Step(t)
    PROVE  SpaceType'
<1>. USE CellFacts DEF SpaceType, ListInv, Goto, Label, listVars
<1>1. CASE ReadHead(t)
  BY <1>1 DEF ReadHead, Begin
<1>2. CASE CheckBusy(t)
  BY <1>2 DEF CheckBusy
<1>3. CASE ObtainLock(t) \/ ReturnLock(t)
  BY <1>3 DEF ObtainLock, ReturnLock, Acquire
<1>4. CASE ObtainUnlink(t) \/ ReturnUnlink(t)
  BY <1>4 DEF ObtainUnlink, ReturnUnlink, Unlink, PointersOK, HasBuf, Asking,
     Giving
<1>5. CASE ObtainLink(t) \/ ReturnLink(t)
  <2>1. buf[t] \in Buf /\ prev[HEAD] \in Cell /\ next[HEAD] \in Cell
    BY <1>5 DEF ObtainLink, ReturnLink, PointersOK, HasBuf, Asking, Giving
  <2>2. CASE ObtainLink(t)
    BY <2>1, <2>2 DEF ObtainLink, LinkIn
  <2>3. CASE ReturnLink(t)
    BY <2>1, <2>3 DEF ReturnLink, LinkIn
  <2>. QED BY <1>5, <2>2, <2>3
<1>6. CASE ObtainUnlock(t)
  BY <1>6 DEF ObtainUnlock, LinkOut, PointersOK, HasBuf, Asking, ListOK, HalfRing
<1>7. CASE ReturnUnlock(t)
  BY <1>7 DEF ReturnUnlock, LinkOut, PointersOK, HasBuf, Giving
<1>8. CASE SetAddr(t)
  <2>1. buf[t] \in Nat
    BY <1>8 DEF SetAddr, PointersOK, HasBuf
  <2>2. offset(buf[t]) \in Nat
    BY <2>1, Sizes
  <2>. QED BY <1>8, <2>2 DEF SetAddr
<1>9. CASE BeginReturn(t)
  BY <1>9 DEF BeginReturn, Begin
<1>10. CASE Scan(t)
  <2>1. buf[t] \in Cell /\ prev[buf[t]] \in Cell
    BY <1>10 DEF Scan, PointersOK
  <2>2. /\ pc' \in [Thread -> Label] /\ buf' \in [Thread -> Cell \cup {NULL}]
        /\ msg_pos' \in [Thread -> Nat \cup {NULL}]
    BY <1>10, <2>1 DEF Scan
  <2>. QED BY <1>10, <2>2 DEF Scan
<1>11. CASE ClearBusy(t)
  BY <1>11 DEF ClearBusy
<1>. QED BY <1>1, <1>2, <1>3, <1>4, <1>5, <1>6, <1>7, <1>8, <1>9, <1>10, <1>11
         DEF Step

\* A step outside the lock that touches neither the list nor the lock keeps
\* what is said of them if the pointer it goes on with is good.
LEMMA OutsideStep ==
    ASSUME ListInv, NEW t \in Thread, NEW l \in Label, NEW v, Goto(t, l),
           ~InList(t),
           l \notin {"ounlink", "olink", "odone", "runlink", "rlink", "rdone"},
           buf' = [buf EXCEPT ![t] = v],
           UNCHANGED <<listVars, __emi_msg_space_lock, before>>,
           l = "scan" => v \in Cell,
           l \in {"peek", "olock", "oaddr", "rlock", "rfree"} => v \in Buf
    PROVE  PointersOK' /\ LockOK' /\ ListOK'
<1>. USE DEF ListInv, SpaceType
<1>1. /\ \A u \in Thread : pc'[u] = IF u = t THEN l ELSE pc[u]
      /\ \A u \in Thread : buf'[u] = IF u = t THEN v ELSE buf[u]
      /\ next' = next /\ prev' = prev /\ before' = before
      /\ __emi_msg_space_lock' = __emi_msg_space_lock
  BY DEF Goto, listVars
<1>2. PointersOK'
  BY <1>1 DEF PointersOK, HasBuf, Asking, Giving
<1>3. LockOK'
  BY <1>1 DEF LockOK, InList
<1>4. \A u \in Thread : Cut(u)' = Cut(u)
  BY <1>1 DEF Cut, InList
<1>5. ListOK'
  BY <1>1, <1>4 DEF ListOK, Cut, InList
<1>. QED BY <1>2, <1>3, <1>5

\* The one thread between lock and unlock may change the list.
LEMMA InsideStep ==
    ASSUME ListInv, NEW t \in Thread, NEW l \in Label, Goto(t, l),
           InList(t), UNCHANGED buf,
           \A u \in Thread \ {t} : before'[u] = before[u],
           l \in {"olink", "odone", "oaddr", "rlink", "rdone", "rfree"},
           __emi_msg_space_lock' =
              IF l \in {"oaddr", "rfree"} THEN NULL ELSE __emi_msg_space_lock,
           next'[HEAD] \in Buf,
           l \in {"oaddr", "rfree"} => IsRing(next', prev', Cell),
           l \in {"olink", "rlink"} => IsRing(next', prev', Cell \ {buf[t]}),
           l = "odone" => HalfRing(next', prev', buf[t], before'[t]),
           l = "rdone" => HalfRing(next', prev', buf[t], HEAD)
    PROVE  PointersOK' /\ LockOK' /\ ListOK'
<1>. USE DEF ListInv, SpaceType
<1>1. \A u \in Thread : pc'[u] = IF u = t THEN l ELSE pc[u]
  BY DEF Goto
<1>2. buf[t] \in Buf /\ \A u \in Thread \ {t} : ~InList(u)
  BY DEF PointersOK, HasBuf, Asking, Giving, InList, LockOK
<1>3. PointersOK'
  BY <1>1, <1>2 DEF PointersOK, HasBuf, Asking, Giving
<1>4. LockOK'
  BY <1>1, <1>2 DEF LockOK, InList
<1>5. ListOK'
  BY <1>1, <1>2 DEF ListOK, Cut, InList
<1>. QED BY <1>3, <1>4, <1>5

\* emi_lock lets one thread in, when the list is whole.
LEMMA AcquireStep ==
    ASSUME ListInv, NEW t \in Thread, ObtainLock(t) \/ ReturnLock(t)
    PROVE  PointersOK' /\ LockOK' /\ ListOK'
<1>. USE DEF ListInv, SpaceType
<1>1. PICK l \in {"ounlink", "runlink"} :
          /\ \A u \in Thread : pc'[u] = IF u = t THEN l ELSE pc[u]
          /\ l = "ounlink" => pc[t] = "olock"
          /\ l = "runlink" => pc[t] = "rlock"
  BY DEF ObtainLock, ReturnLock, Acquire, Goto
<1>2. /\ next' = next /\ prev' = prev /\ buf' = buf /\ before' = before
      /\ __emi_msg_space_lock = NULL /\ __emi_msg_space_lock' = buf[t]
  BY DEF ObtainLock, ReturnLock, Acquire, listVars
<1>3. buf[t] \in Buf /\ \A u \in Thread : ~InList(u)
  BY <1>1, <1>2 DEF PointersOK, HasBuf, Asking, Giving, LockOK
<1>4. PointersOK'
  BY <1>1, <1>2, <1>3 DEF PointersOK, HasBuf, Asking, Giving
<1>5. LockOK'
  BY <1>1, <1>2, <1>3, CellFacts DEF LockOK, InList
<1>6. ListOK'
  BY <1>1, <1>2, <1>3 DEF ListOK, Cut, InList
<1>. QED BY <1>4, <1>5, <1>6

LEMMA ListStep ==
    ASSUME ListInv, [Next]_vars
    PROVE  ListInv'
<1>. USE DEF ListInv
<1>1. CASE UNCHANGED vars
  BY <1>1 DEF vars, listVars, SpaceType, PointersOK, LockOK, ListOK, HasBuf, Asking,
     Giving, InList, Cut
<1>2. ASSUME NEW t \in Thread, ReadHead(t) PROVE ListInv'
  <2>1. pc[t] = "idle" /\ Goto(t, "peek") /\ buf' = [buf EXCEPT ![t] = next[HEAD]]
    BY <1>2 DEF ReadHead
  <2>2. UNCHANGED <<listVars, __emi_msg_space_lock, before>>
    BY <1>2 DEF ReadHead, listVars
  <2>3. PointersOK' /\ LockOK' /\ ListOK'
    BY <2>1, <2>2, OutsideStep DEF PointersOK, InList, Label
  <2>. QED BY <1>2, <2>3, TypeStep DEF Step
<1>3. ASSUME NEW t \in Thread, CheckBusy(t) PROVE ListInv'
  <2>. DEFINE l == IF busy[buf[t]] THEN "scan" ELSE "olock"
              v == IF busy[buf[t]] THEN prev[HEAD] ELSE buf[t]
  <2>1. pc[t] = "peek" /\ Goto(t, l) /\ buf' = [buf EXCEPT ![t] = v]
    BY <1>3 DEF CheckBusy, SpaceType
  <2>2. UNCHANGED <<listVars, __emi_msg_space_lock, before>>
    BY <1>3 DEF CheckBusy, listVars
  <2>3. l \in {"scan", "olock"}
    OBVIOUS
  <2>4. (l = "scan" => v \in Cell) /\ (l = "olock" => v \in Buf)
    BY <2>1, CellFacts DEF SpaceType, PointersOK, HasBuf
  <2>. HIDE DEF l, v
  <2>5. PointersOK' /\ LockOK' /\ ListOK'
    BY <2>1, <2>2, <2>3, <2>4, OutsideStep DEF InList, Label
  <2>. QED BY <1>3, <2>5, TypeStep DEF Step
<1>4. ASSUME NEW t \in Thread, ObtainLock(t) \/ ReturnLock(t) PROVE ListInv'
  BY <1>4, TypeStep, AcquireStep DEF Step
<1>5. ASSUME NEW t \in Thread, ObtainUnlink(t) PROVE ListInv'
  <2>1. /\ pc[t] = "ounlink" /\ Goto(t, "olink") /\ Unlink(buf[t])
        /\ UNCHANGED <<__emi_msg_space_lock, buf, before>>
    BY <1>5 DEF ObtainUnlink
  <2>2. buf[t] \in Buf /\ \A u \in Thread : ~Cut(u)
    BY <2>1 DEF PointersOK, HasBuf, Asking, LockOK, InList, Cut
  <2>3. /\ IsRing(next', prev', Cell \ {buf[t]}) /\ next'[HEAD] \in Buf
    BY <2>1, <2>2, UnlinkRing DEF ListOK
  <2>4. PointersOK' /\ LockOK' /\ ListOK'
    BY <2>1, <2>3, InsideStep DEF InList, Label
  <2>. QED BY <1>5, <2>4, TypeStep DEF Step
<1>6. ASSUME NEW t \in Thread, ReturnUnlink(t) PROVE ListInv'
  <2>1. /\ pc[t] = "runlink" /\ Goto(t, "rlink") /\ Unlink(buf[t])
        /\ UNCHANGED <<__emi_msg_space_lock, buf, before>>
    BY <1>6 DEF ReturnUnlink
  <2>2. buf[t] \in Buf /\ \A u \in Thread : ~Cut(u)
    BY <2>1 DEF PointersOK, HasBuf, Giving, LockOK, InList, Cut
  <2>3. /\ IsRing(next', prev', Cell \ {buf[t]}) /\ next'[HEAD] \in Buf
    BY <2>1, <2>2, UnlinkRing DEF ListOK
  <2>4. PointersOK' /\ LockOK' /\ ListOK'
    BY <2>1, <2>3, InsideStep DEF InList, Label
  <2>. QED BY <1>6, <2>4, TypeStep DEF Step
<1>7. ASSUME NEW t \in Thread, ObtainLink(t) PROVE ListInv'
  <2>1. /\ pc[t] = "olink" /\ Goto(t, "odone") /\ LinkIn(buf[t], HEAD)
        /\ before' = [before EXCEPT ![t] = prev[HEAD]]
        /\ UNCHANGED <<__emi_msg_space_lock, buf>>
    BY <1>7 DEF ObtainLink
  <2>2. buf[t] \in Buf /\ IsRing(next, prev, Cell \ {buf[t]})
    BY <2>1 DEF PointersOK, HasBuf, Asking, ListOK
  <2>3. prev[HEAD] \in Cell \ {buf[t]} /\ next[prev[HEAD]] = HEAD
    BY <2>2, CellFacts DEF IsRing
  <2>4. HalfRing(next', prev', buf[t], prev[HEAD]) /\ next'[HEAD] \in Buf
    BY <2>1, <2>2, <2>3, LinkInRing DEF PointersOK
  <2>5. before'[t] = prev[HEAD] /\ \A u \in Thread \ {t} : before'[u] = before[u]
    BY <2>1 DEF SpaceType
  <2>6. PointersOK' /\ LockOK' /\ ListOK'
    BY <2>1, <2>4, <2>5, InsideStep DEF InList, Label
  <2>. QED BY <1>7, <2>6, TypeStep DEF Step
<1>8. ASSUME NEW t \in Thread, ReturnLink(t) PROVE ListInv'
  <2>1. /\ pc[t] = "rlink" /\ Goto(t, "rdone") /\ LinkIn(buf[t], next[HEAD])
        /\ UNCHANGED <<__emi_msg_space_lock, buf, before>>
    BY <1>8 DEF ReturnLink
  <2>2. buf[t] \in Buf /\ IsRing(next, prev, Cell \ {buf[t]})
    BY <2>1 DEF PointersOK, HasBuf, Giving, ListOK
  <2>3. HalfRing(next', prev', buf[t], HEAD) /\ next'[HEAD] \in Buf
    BY <2>1, <2>2, LinkInRing, CellFacts DEF PointersOK
  <2>4. PointersOK' /\ LockOK' /\ ListOK'
    BY <2>1, <2>3, InsideStep DEF InList, Label
  <2>. QED BY <1>8, <2>4, TypeStep DEF Step
<1>9. ASSUME NEW t \in Thread, ObtainUnlock(t) PROVE ListInv'
  <2>1. /\ pc[t] = "odone" /\ Goto(t, "oaddr") /\ LinkOut(buf[t], before[t])
        /\ before' = [before EXCEPT ![t] = NULL]
        /\ __emi_msg_space_lock' = NULL /\ UNCHANGED buf
    BY <1>9 DEF ObtainUnlock
  <2>2. buf[t] \in Buf /\ HalfRing(next, prev, buf[t], before[t])
    BY <2>1 DEF PointersOK, HasBuf, Asking, ListOK
  <2>3. IsRing(next', prev', Cell) /\ next'[HEAD] \in Buf
    BY <2>1, <2>2, LinkOutRing DEF PointersOK
  <2>4. \A u \in Thread \ {t} : before'[u] = before[u]
    BY <2>1 DEF SpaceType
  <2>5. PointersOK' /\ LockOK' /\ ListOK'
    BY <2>1, <2>3, <2>4, InsideStep DEF InList, Label
  <2>. QED BY <1>9, <2>5, TypeStep DEF Step
<1>10. ASSUME NEW t \in Thread, ReturnUnlock(t) PROVE ListInv'
  <2>1. /\ pc[t] = "rdone" /\ Goto(t, "rfree") /\ LinkOut(buf[t], HEAD)
        /\ __emi_msg_space_lock' = NULL /\ UNCHANGED <<buf, before>>
    BY <1>10 DEF ReturnUnlock
  <2>2. buf[t] \in Buf /\ HalfRing(next, prev, buf[t], HEAD)
    BY <2>1 DEF PointersOK, HasBuf, Giving, ListOK
  <2>3. IsRing(next', prev', Cell) /\ next'[HEAD] \in Buf
    BY <2>1, <2>2, LinkOutRing DEF PointersOK
  <2>4. PointersOK' /\ LockOK' /\ ListOK'
    BY <2>1, <2>3, InsideStep DEF InList, Label
  <2>. QED BY <1>10, <2>4, TypeStep DEF Step
<1>11. ASSUME NEW t \in Thread, SetAddr(t) \/ ClearBusy(t) PROVE ListInv'
  <2>1. PICK l \in {"using", "idle"} :
           /\ pc[t] \in {"oaddr", "rfree"} /\ Goto(t, l)
           /\ buf' = [buf EXCEPT ![t] = NULL]
    BY <1>11 DEF SetAddr, ClearBusy
  <2>2. UNCHANGED <<listVars, __emi_msg_space_lock, before>>
    BY <1>11 DEF SetAddr, ClearBusy, listVars
  <2>3. PointersOK' /\ LockOK' /\ ListOK'
    BY <2>1, <2>2, OutsideStep DEF InList, Label
  <2>. QED BY <1>11, <2>3, TypeStep DEF Step
<1>12. ASSUME NEW t \in Thread, BeginReturn(t) PROVE ListInv'
  <2>1. pc[t] = "using" /\ Goto(t, "scan") /\ buf' = [buf EXCEPT ![t] = prev[HEAD]]
    BY <1>12 DEF BeginReturn
  <2>2. UNCHANGED <<listVars, __emi_msg_space_lock, before>>
    BY <1>12 DEF BeginReturn, listVars
  <2>3. PointersOK' /\ LockOK' /\ ListOK'
    BY <2>1, <2>2, OutsideStep, CellFacts DEF InList, Label, SpaceType
  <2>. QED BY <1>12, <2>3, TypeStep DEF Step
<1>13. ASSUME NEW t \in Thread, Scan(t) PROVE ListInv'
  <2>1. PICK l \in {"idle", "rlock", "scan"}, v \in Cell \cup {NULL} :
           /\ pc[t] = "scan" /\ Goto(t, l) /\ buf' = [buf EXCEPT ![t] = v]
           /\ l = "rlock" => v \in Buf
           /\ l = "scan" => v \in Cell
    <3>1. pc[t] = "scan" /\ buf[t] \in Cell /\ prev[buf[t]] \in Cell
      BY <1>13 DEF Scan, SpaceType, PointersOK
    <3>2. CASE buf[t] = HEAD
      <4>1. Goto(t, "idle") /\ buf' = [buf EXCEPT ![t] = NULL]
        BY <1>13, <3>2 DEF Scan
      <4>. QED BY <3>1, <4>1
    <3>3. CASE buf[t] # HEAD /\ addr[buf[t]] = msg_pos[t]
      <4>1. Goto(t, "rlock") /\ buf' = buf
        BY <1>13, <3>3 DEF Scan
      <4>2. buf[t] \in Buf /\ buf = [buf EXCEPT ![t] = buf[t]]
        BY <3>1, <3>3, CellFacts DEF SpaceType
      <4>. QED BY <3>1, <4>1, <4>2
    <3>4. CASE buf[t] # HEAD /\ addr[buf[t]] # msg_pos[t]
      <4>1. pc' = pc /\ buf' = [buf EXCEPT ![t] = prev[buf[t]]]
        BY <1>13, <3>4 DEF Scan
      <4>2. Goto(t, "scan")
        BY <3>1, <4>1 DEF Goto, SpaceType
      <4>. QED BY <3>1, <4>1, <4>2
    <3>. QED BY <3>2, <3>3, <3>4
  <2>2. UNCHANGED <<listVars, __emi_msg_space_lock, before>>
    BY <1>13 DEF Scan, listVars
  <2>3. PointersOK' /\ LockOK' /\ ListOK'
    BY <2>1, <2>2, OutsideStep DEF InList, Label
  <2>. QED BY <1>13, <2>3, TypeStep DEF Step
<1>. QED BY <1>1, <1>2, <1>3, <1>4, <1>5, <1>6, <1>7, <1>8, <1>9, <1>10, <1>11,
            <1>12, <1>13 DEF Next

THEOREM ListInvCorrect == Spec => []ListInv
BY ListInit, ListStep, PTL DEF Spec

\* However the threads interleave, the list of areas is one ring of all of them
\* whenever its lock is free.
THEOREM ListIntactCorrect == Spec => []ListIntact
<1>1. ListInv => ListIntact
  BY DEF ListInv, LockOK, ListOK, InList, Cut, IsRing, Connected, ListIntact
<1>. QED BY <1>1, ListInvCorrect, PTL

-----------------------------------------------------------------------------
(* PoolInv is inductive                                                     *)

\* Offsets are addresses and tell areas apart.
LEMMA OffsetFacts ==
    /\ \A b \in Buf : offset(b) \in Nat /\ offset(b) # NULL
    /\ \A b, c \in Buf : offset(b) = offset(c) => b = c
BY Sizes, OffsetsDiffer, CellFacts, HeadAssumption

LEMMA PoolInit == Init => PoolInv
<1>. SUFFICES ASSUME Init PROVE PoolInv
  OBVIOUS
<1>1. /\ \A t \in Thread : pc[t] = "idle" /\ msg_pos[t] = NULL
      /\ \A b \in Buf : busy[b] = FALSE /\ addr[b] = NULL
  BY DEF Init
<1>2. \A t \in Thread : ~Asking(t) /\ ~Giving(t) /\ ~Busy(t) /\ ~Using(t)
                        /\ Taken(t) = NULL
  BY <1>1 DEF Asking, Giving, Busy, Using, Taken
<1>3. Alone /\ PositionOK /\ ReturnOK /\ WalkOK
  BY <1>1, <1>2 DEF Alone, PositionOK, ReturnOK, WalkOK
<1>4. HeldOK /\ SortedOK
  BY <1>1, <1>2, OffsetFacts DEF HeldOK, SortedOK
<1>. QED BY <1>3, <1>4, ListInit DEF PoolInv

\* While operations have not overlapped, the other threads are outside of them
\* when one takes a step.
LEMMA Others ==
    ASSUME PoolInv, NEW t \in Thread, Step(t), ~overlap'
    PROVE  /\ ~overlap
           /\ \A u \in Thread \ {t} :
                /\ pc[u] \in {"idle", "using"} /\ Taken(u) = msg_pos[u]
                /\ pc'[u] = pc[u] /\ buf'[u] = buf[u] /\ msg_pos'[u] = msg_pos[u]
                /\ Taken(u)' = msg_pos[u]
<1>. USE DEF PoolInv, ListInv, SpaceType
<1>1. CASE ReadHead(t) \/ BeginReturn(t)
  <2>1. ~overlap /\ \A u \in Thread \ {t} : ~Busy(u)
    BY <1>1 DEF ReadHead, BeginReturn, Begin
  <2>2. \A u \in Thread \ {t} :
           pc'[u] = pc[u] /\ buf'[u] = buf[u] /\ msg_pos'[u] = msg_pos[u]
    BY <1>1 DEF ReadHead, BeginReturn, Goto
  <2>. QED BY <2>1, <2>2 DEF Busy, Taken
<1>2. CASE ~(ReadHead(t) \/ BeginReturn(t))
  <2>1. ~overlap /\ Busy(t)
    BY <1>2 DEF Step, CheckBusy, ObtainLock, ObtainUnlink, ObtainLink, ObtainUnlock,
       SetAddr, Scan, ReturnLock, ReturnUnlink, ReturnLink, ReturnUnlock,
       ClearBusy, Acquire, Busy
  <2>2. \A u \in Thread \ {t} : ~Busy(u)
    BY <2>1 DEF Alone
  <2>3. \A u \in Thread \ {t} :
           pc'[u] = pc[u] /\ buf'[u] = buf[u] /\ msg_pos'[u] = msg_pos[u]
    BY <1>2 DEF Step, CheckBusy, ObtainLock, ObtainUnlink, ObtainLink, ObtainUnlock,
       SetAddr, Scan, ReturnLock, ReturnUnlink, ReturnLink, ReturnUnlock,
       ClearBusy, Acquire, Goto
  <2>. QED BY <2>1, <2>2, <2>3 DEF Busy, Taken
<1>. QED BY <1>1, <1>2

LEMMA AloneStep ==
    ASSUME PoolInv, NEW t \in Thread, Step(t)
    PROVE  Alone'
<1>. SUFFICES ASSUME ~overlap' PROVE \A u \in Thread \ {t} : ~Busy(u)'
  BY DEF Alone
<1>. QED BY Others DEF Busy

\* Whether operations overlap or not, addresses are those of areas.
LEMMA PositionStep ==
    ASSUME PoolInv, NEW t \in Thread, Step(t)
    PROVE  PositionOK'
<1>. USE OffsetFacts DEF PoolInv, ListInv, SpaceType, PositionOK, Asking, Using,
     Goto, Label
<1>1. CASE ReadHead(t)
  BY <1>1 DEF ReadHead
<1>2. CASE CheckBusy(t)
  BY <1>2 DEF CheckBusy
<1>3. CASE ObtainLock(t) \/ ReturnLock(t)
  BY <1>3 DEF ObtainLock, ReturnLock, Acquire
<1>4. CASE ObtainUnlink(t) \/ ReturnUnlink(t)
  BY <1>4 DEF ObtainUnlink, ReturnUnlink
<1>5. CASE ObtainLink(t) \/ ReturnLink(t)
  BY <1>5 DEF ObtainLink, ReturnLink
<1>6. CASE ObtainUnlock(t) \/ ReturnUnlock(t)
  BY <1>6 DEF ObtainUnlock, ReturnUnlock
<1>7. CASE SetAddr(t)
  <2>1. buf[t] \in Buf
    BY <1>7 DEF SetAddr, PointersOK, HasBuf
  <2>. QED BY <1>7, <2>1 DEF SetAddr
<1>8. CASE BeginReturn(t)
  BY <1>8 DEF BeginReturn
<1>9. CASE Scan(t)
  BY <1>9 DEF Scan
<1>10. CASE ClearBusy(t)
  BY <1>10 DEF ClearBusy
<1>. QED BY <1>1, <1>2, <1>3, <1>4, <1>5, <1>6, <1>7, <1>8, <1>9, <1>10 DEF Step

\* When nobody is inside the list it is whole.
LEMMA WholeList ==
    ASSUME PoolInv, ~overlap, NEW t \in Thread, Busy(t), ~Cut(t)
    PROVE  IsRing(next, prev, Cell)
<1>1. \A u \in Thread : ~Cut(u)
  BY DEF PoolInv, Alone, Cut, Busy
<1>. QED BY <1>1 DEF PoolInv, ListInv, ListOK

\* If the first area is busy, all are.
LEMMA FirstBusy ==
    ASSUME PoolInv, ~overlap, IsRing(next, prev, Cell), busy[next[HEAD]],
           \A t \in Thread : pc[t] \notin {"rlink", "rdone", "rfree"}
    PROVE  \A b \in Buf : busy[b]
<1>. DEFINE S == {c \in Cell : c = HEAD \/ (c \in Buf /\ busy[c])}
<1>1. S \in SUBSET Cell /\ S # {}
  BY CellFacts
<1>2. \A c \in S : next[c] \in S
  BY CellFacts DEF PoolInv, ListInv, SpaceType, PointersOK, SortedOK
<1>3. S = Cell
  BY <1>1, <1>2, Zenon DEF IsRing, Connected
<1>. QED BY <1>3, CellFacts

\* The search for an area that the thread has does not come to the list's head.
LEMMA NoMiss ==
    ASSUME PoolInv, ~overlap, NEW t \in Thread, pc[t] = "scan", buf[t] = HEAD
    PROVE  msg_pos[t] = NULL
<1>. SUFFICES ASSUME msg_pos[t] # NULL PROVE FALSE
  OBVIOUS
<1>1. IsRing(next, prev, Cell)
  BY WholeList DEF Busy, Cut
<1>2. PICK W \in SUBSET Cell :
          /\ HEAD \in W
          /\ \A b \in W \cap Buf : addr[b] # msg_pos[t]
          /\ \A c \in W : prev[c] \in W
  BY DEF PoolInv, WalkOK
<1>. DEFINE S == Cell \ W
<1>3. \A c \in S : next[c] \in S
  BY <1>1, <1>2 DEF IsRing
<1>4. S = {}
  <2>. SUFFICES ASSUME S # {} PROVE FALSE
    OBVIOUS
  <2>1. S = Cell
    BY <1>1, <1>3, Zenon DEF IsRing, Connected
  <2>. QED BY <2>1, <1>2, CellFacts
<1>5. \A b \in Buf : addr[b] # msg_pos[t]
  BY <1>2, <1>4, CellFacts
<1>6. PICK b \in Buf : msg_pos[t] = offset(b)
  BY DEF PoolInv, PositionOK
<1>. QED BY <1>5, <1>6 DEF PoolInv, HeldOK

\* A search that finds an area finds the thread's own.
LEMMA FoundOwn ==
    ASSUME PoolInv, ~overlap, NEW t \in Thread, pc[t] = "scan", buf[t] \in Buf,
           addr[buf[t]] = msg_pos[t]
    PROVE  msg_pos[t] = offset(buf[t])
<1>1. msg_pos[t] # NULL
  <2>. SUFFICES ASSUME msg_pos[t] = NULL PROVE FALSE
    OBVIOUS
  <2>1. busy[buf[t]]
    BY DEF PoolInv, ReturnOK
  <2>2. PICK u \in Thread : Taken(u) = offset(buf[t])
    BY <2>1 DEF PoolInv, HeldOK
  <2>3. Taken(t) = NULL
    BY DEF Taken
  <2>4. u # t
    BY <2>2, <2>3, OffsetFacts
  <2>5. Taken(u) = msg_pos[u]
    BY <2>4 DEF PoolInv, Alone, Busy, Taken
  <2>6. addr[buf[t]] = offset(buf[t])
    BY <2>2, <2>5 DEF PoolInv, HeldOK
  <2>. QED BY <2>6, OffsetFacts
<1>. QED BY <1>1 DEF PoolInv, PositionOK

\* An area is busy exactly if a thread has it.
LEMMA HeldStep ==
    ASSUME PoolInv, NEW t \in Thread, Step(t)
    PROVE  HeldOK'
<1>. SUFFICES ASSUME ~overlap' PROVE HeldOK'
  BY DEF HeldOK
<1>1. /\ ~overlap
      /\ \A u \in Thread \ {t} :
            /\ pc[u] \in {"idle", "using"} /\ Taken(u) = msg_pos[u]
            /\ pc'[u] = pc[u] /\ buf'[u] = buf[u] /\ msg_pos'[u] = msg_pos[u]
            /\ Taken(u)' = msg_pos[u]
  BY Others
<1>2. \A u \in Thread \ {t} : ~Asking(u) /\ ~Asking(u)'
  BY <1>1 DEF Asking
<1>. USE <1>1, <1>2 DEF PoolInv, ListInv, SpaceType, HeldOK, Goto, Label
\* The thread has what it had, and the areas are as they were.
<1>3. ASSUME UNCHANGED <<busy, addr>>, Taken(t)' = Taken(t),
             Asking(t)' => Asking(t) /\ buf'[t] = buf[t],
             Asking(t) => Asking(t)', msg_pos'[t] = msg_pos[t]
      PROVE  HeldOK'
  BY <1>3
<1>4. CASE ReadHead(t) \/ BeginReturn(t)
  BY <1>3, <1>4 DEF ReadHead, BeginReturn, Taken, Asking
<1>5. CASE CheckBusy(t)
  <2>1. CASE busy[buf[t]]
    BY <1>3, <1>5, <2>1 DEF CheckBusy, Taken, Asking
  <2>2. CASE ~busy[buf[t]]
    <3>1. /\ UNCHANGED <<busy, addr, buf, msg_pos>> /\ buf[t] \in Buf
          /\ pc[t] = "peek" /\ pc'[t] = "olock"
      BY <1>5, <2>2 DEF CheckBusy, PointersOK, HasBuf
    <3>2. /\ Taken(t)' = offset(buf[t]) /\ Asking(t)' /\ Taken(t) = NULL
      BY <3>1 DEF Taken, Asking, PositionOK
    <3>3. \A u \in Thread \ {t} : msg_pos[u] # offset(buf[t])
      BY <2>2, <3>1
    <3>. QED BY <2>2, <3>1, <3>2, <3>3, OffsetFacts
  <2>. QED BY <2>1, <2>2
<1>6. CASE \/ ObtainLock(t) \/ ObtainUnlink(t) \/ ObtainLink(t)
           \/ ReturnLock(t) \/ ReturnUnlink(t) \/ ReturnLink(t) \/ ReturnUnlock(t)
  BY <1>3, <1>6 DEF ObtainLock, ObtainUnlink, ObtainLink, ReturnLock, ReturnUnlink,
     ReturnLink, ReturnUnlock, Acquire, Taken, Asking
<1>7. CASE ObtainUnlock(t)
  <2>1. /\ UNCHANGED <<addr, buf, msg_pos>> /\ buf[t] \in Buf
        /\ busy' = [busy EXCEPT ![buf[t]] = TRUE]
        /\ pc[t] = "odone" /\ pc'[t] = "oaddr"
    BY <1>7 DEF ObtainUnlock, PointersOK, HasBuf, Asking
  <2>2. Taken(t) = offset(buf[t]) /\ Taken(t)' = offset(buf[t]) /\ ~Asking(t)'
    BY <2>1 DEF Taken, Asking
  <2>. QED BY <2>1, <2>2, OffsetFacts
<1>8. CASE SetAddr(t)
  <2>1. /\ UNCHANGED busy /\ buf[t] \in Buf
        /\ addr' = [addr EXCEPT ![buf[t]] = offset(buf[t])]
        /\ msg_pos'[t] = offset(buf[t])
        /\ pc[t] = "oaddr" /\ pc'[t] = "using"
    BY <1>8 DEF SetAddr, PointersOK, HasBuf
  <2>2. Taken(t) = offset(buf[t]) /\ Taken(t)' = offset(buf[t]) /\ ~Asking(t)
        /\ ~Asking(t)'
    BY <2>1 DEF Taken, Asking
  <2>. QED BY <2>1, <2>2, OffsetFacts
<1>9. CASE Scan(t)
  <2>1. /\ UNCHANGED <<busy, addr>> /\ pc[t] = "scan"
        /\ pc'[t] \in {"idle", "rlock", "scan"}
        /\ buf[t] = HEAD \/ msg_pos'[t] = msg_pos[t]
        /\ buf[t] # HEAD \/ msg_pos'[t] = NULL
    BY <1>9 DEF Scan
  <2>2. msg_pos'[t] = msg_pos[t]
    BY <2>1, NoMiss
  <2>3. Taken(t) = msg_pos[t] /\ Taken(t)' = msg_pos[t] /\ ~Asking(t) /\ ~Asking(t)'
    BY <2>1, <2>2 DEF Taken, Asking
  <2>. QED BY <1>3, <2>1, <2>2, <2>3
<1>10. CASE ClearBusy(t)
  <2>1. /\ UNCHANGED addr /\ buf[t] \in Buf
        /\ busy' = [busy EXCEPT ![buf[t]] = FALSE]
        /\ msg_pos'[t] = NULL /\ msg_pos[t] = offset(buf[t])
        /\ pc[t] = "rfree" /\ pc'[t] = "idle"
    BY <1>10 DEF ClearBusy, PointersOK, HasBuf, Giving, ReturnOK
  <2>2. Taken(t) = offset(buf[t]) /\ Taken(t)' = NULL /\ ~Asking(t) /\ ~Asking(t)'
    BY <2>1 DEF Taken, Asking
  <2>3. \A u \in Thread \ {t} : msg_pos[u] # offset(buf[t])
    BY <2>1, <2>2, OffsetFacts
  <2>. QED BY <2>1, <2>2, <2>3, OffsetFacts
<1>. QED BY <1>4, <1>5, <1>6, <1>7, <1>8, <1>9, <1>10 DEF Step

\* The busy areas stay at the end of the list.
LEMMA SortedStep ==
    ASSUME PoolInv, NEW t \in Thread, Step(t)
    PROVE  SortedOK'
<1>. SUFFICES ASSUME ~overlap' PROVE SortedOK'
  BY DEF SortedOK
<1>1. /\ ~overlap
      /\ \A u \in Thread \ {t} :
            /\ pc[u] \in {"idle", "using"} /\ pc'[u] = pc[u] /\ buf'[u] = buf[u]
  BY Others
<1>. USE <1>1 DEF PoolInv, ListInv, SpaceType, Goto, Label
\* What there is to show when the others are outside.
<1>2. ASSUME \A b \in Buf : busy'[b] =>
                \/ next'[b] = HEAD \/ (next'[b] \in Buf /\ busy'[next'[b]])
                \/ pc'[t] \in {"rlink", "rdone", "rfree"} /\ buf'[t] = b,
             pc'[t] = "peek" => buf'[t] = next'[HEAD],
             pc'[t] = "odone" => next'[buf'[t]] = HEAD,
             pc'[t] = "rfree" => prev'[buf'[t]] = HEAD
      PROVE  SortedOK'
  BY <1>2 DEF SortedOK
\* And what is known.
<1>3. /\ \A b \in Buf : busy[b] =>
            \/ next[b] = HEAD \/ (next[b] \in Buf /\ busy[next[b]])
            \/ pc[t] \in {"rlink", "rdone", "rfree"} /\ buf[t] = b
      /\ pc[t] = "peek" => buf[t] = next[HEAD]
      /\ pc[t] = "odone" => next[buf[t]] = HEAD
      /\ pc[t] = "rfree" => prev[buf[t]] = HEAD
  BY DEF SortedOK
<1>4. CASE \/ ReadHead(t) \/ CheckBusy(t) \/ ObtainLock(t) \/ SetAddr(t)
           \/ BeginReturn(t) \/ Scan(t) \/ ReturnLock(t)
  <2>1. /\ UNCHANGED <<next, prev, busy>>
        /\ pc[t] \notin {"rlink", "rdone", "rfree"}
        /\ pc'[t] \notin {"odone", "rfree"}
        /\ pc'[t] = "peek" => buf'[t] = next[HEAD]
    BY <1>4 DEF ReadHead, CheckBusy, ObtainLock, SetAddr, BeginReturn, Scan,
       ReturnLock, Acquire, listVars
  <2>. QED BY <1>2, <1>3, <2>1
<1>5. CASE ObtainUnlink(t) \/ ReturnUnlink(t)
  <2>1. /\ UNCHANGED <<busy, buf>> /\ buf[t] \in Buf /\ Unlink(buf[t])
        /\ \/ pc[t] = "ounlink" /\ pc'[t] = "olink"
           \/ pc[t] = "runlink" /\ pc'[t] = "rlink"
    BY <1>5 DEF ObtainUnlink, ReturnUnlink, PointersOK, HasBuf, Asking, Giving
  <2>2. IsRing(next, prev, Cell)
    BY <2>1, WholeList DEF Busy, Cut
  <2>3. \A c \in Cell : next'[c] = IF c = prev[buf[t]] THEN next[buf[t]] ELSE next[c]
    BY <2>1 DEF Unlink
  <2>4. next[prev[buf[t]]] = buf[t]
    BY <2>1, <2>2, CellFacts DEF IsRing
  <2>5. ASSUME NEW b \in Buf, busy[b]
        PROVE  \/ next'[b] = HEAD \/ (next'[b] \in Buf /\ busy[next'[b]])
               \/ pc'[t] \in {"rlink", "rdone", "rfree"} /\ buf[t] = b
    <3>1. CASE b = prev[buf[t]]
      <4>1. next[b] = buf[t] /\ next'[b] = next[buf[t]]
        BY <2>3, <2>4, <3>1, CellFacts
      <4>2. busy[buf[t]]
        BY <1>3, <2>1, <2>5, <4>1, CellFacts
      <4>. QED BY <1>3, <2>1, <4>1, <4>2
    <3>2. CASE b # prev[buf[t]]
      BY <1>3, <2>1, <2>3, <2>5, <3>2, CellFacts
    <3>. QED BY <3>1, <3>2
  <2>. QED BY <1>2, <2>1, <2>5
<1>6. CASE ObtainLink(t)
  <2>1. /\ UNCHANGED <<busy, buf>> /\ buf[t] \in Buf /\ LinkIn(buf[t], HEAD)
        /\ pc[t] = "olink" /\ pc'[t] = "odone" /\ ~busy[buf[t]]
    BY <1>6 DEF ObtainLink, PointersOK, HasBuf, Asking, HeldOK
  <2>2. \A c \in Cell : next'[c] = IF c = buf[t] THEN HEAD ELSE next[c]
    BY <2>1 DEF LinkIn
  <2>. QED BY <1>2, <1>3, <2>1, <2>2, CellFacts
<1>7. CASE ReturnLink(t)
  <2>1. /\ UNCHANGED <<busy, buf>> /\ buf[t] \in Buf
        /\ LinkIn(buf[t], next[HEAD])
        /\ pc[t] = "rlink" /\ pc'[t] = "rdone"
    BY <1>7 DEF ReturnLink, PointersOK, HasBuf, Giving
  <2>2. \A c \in Cell : c # buf[t] => next'[c] = next[c]
    BY <2>1 DEF LinkIn
  <2>. QED BY <1>2, <1>3, <2>1, <2>2, CellFacts
<1>8. CASE ObtainUnlock(t)
  <2>1. /\ UNCHANGED buf /\ buf[t] \in Buf /\ LinkOut(buf[t], before[t])
        /\ busy' = [busy EXCEPT ![buf[t]] = TRUE]
        /\ pc[t] = "odone" /\ pc'[t] = "oaddr"
    BY <1>8 DEF ObtainUnlock, PointersOK, HasBuf, Asking
  <2>7. before[t] \in Cell \ {buf[t]}
    BY <2>1 DEF ListOK, HalfRing
  <2>2. \A c \in Cell : next'[c] = IF c = before[t] THEN buf[t] ELSE next[c]
    BY <2>1, <2>7 DEF LinkOut
  <2>3. next'[buf[t]] = HEAD
    BY <1>3, <2>1, <2>7, <2>2, CellFacts
  <2>4. ASSUME NEW b \in Buf, busy'[b]
        PROVE  next'[b] = HEAD \/ (next'[b] \in Buf /\ busy'[next'[b]])
    <3>1. CASE b = buf[t]
      BY <2>3, <3>1
    <3>2. CASE b = before[t]
      BY <2>1, <2>2, <3>2, CellFacts
    <3>3. CASE b # buf[t] /\ b # before[t]
      BY <1>3, <2>1, <2>2, <2>4, <3>3, CellFacts
    <3>. QED BY <3>1, <3>2, <3>3
  <2>. QED BY <1>2, <2>1, <2>4
<1>9. CASE ReturnUnlock(t)
  <2>1. /\ UNCHANGED <<busy, buf>> /\ buf[t] \in Buf /\ LinkOut(buf[t], HEAD)
        /\ pc[t] = "rdone" /\ pc'[t] = "rfree"
    BY <1>9 DEF ReturnUnlock, PointersOK, HasBuf, Giving
  <2>2. /\ \A c \in Cell : next'[c] = IF c = HEAD THEN buf[t] ELSE next[c]
        /\ prev'[buf[t]] = HEAD
    BY <2>1, CellFacts DEF LinkOut
  <2>. QED BY <1>2, <1>3, <2>1, <2>2, CellFacts
<1>10. CASE ClearBusy(t)
  <2>1. /\ UNCHANGED <<next, prev>> /\ buf[t] \in Buf
        /\ busy' = [busy EXCEPT ![buf[t]] = FALSE]
        /\ pc[t] = "rfree" /\ pc'[t] = "idle"
    BY <1>10 DEF ClearBusy, listVars, PointersOK, HasBuf, Giving
  <2>2. IsRing(next, prev, Cell)
    BY <2>1, WholeList DEF Busy, Cut
  <2>3. \A b \in Buf : next[b] # buf[t]
    BY <1>3, <2>1, <2>2, CellFacts DEF IsRing
  <2>. QED BY <1>2, <1>3, <2>1, <2>3
<1>. QED BY <1>4, <1>5, <1>6, <1>7, <1>8, <1>9, <1>10 DEF Step

\* What a thread gives back is its own; what refuses it is that all are busy.
LEMMA ReturnStep ==
    ASSUME PoolInv, NEW t \in Thread, Step(t)
    PROVE  ReturnOK'
<1>. SUFFICES ASSUME ~overlap' PROVE ReturnOK'
  BY DEF ReturnOK
<1>1. /\ ~overlap
      /\ \A u \in Thread \ {t} : pc[u] \in {"idle", "using"} /\ pc'[u] = pc[u]
  BY Others
<1>. USE <1>1 DEF PoolInv, ListInv, SpaceType, Goto, Label
<1>2. ASSUME Giving(t)' => msg_pos'[t] = offset(buf'[t]),
             pc'[t] = "scan" /\ msg_pos'[t] = NULL => \A b \in Buf : busy'[b]
      PROVE  ReturnOK'
  BY <1>2 DEF ReturnOK, Giving
<1>3. /\ Giving(t) => msg_pos[t] = offset(buf[t])
      /\ pc[t] = "scan" /\ msg_pos[t] = NULL => \A b \in Buf : busy[b]
  BY DEF ReturnOK
<1>4. CASE \/ ReadHead(t) \/ ObtainLock(t) \/ ObtainUnlink(t) \/ ObtainLink(t)
           \/ ObtainUnlock(t) \/ SetAddr(t) \/ BeginReturn(t) \/ ClearBusy(t)
  <2>1. ~Giving(t)' /\ (pc'[t] = "scan" => msg_pos'[t] # NULL)
    BY <1>4 DEF ReadHead, ObtainLock, ObtainUnlink, ObtainLink, ObtainUnlock,
       SetAddr, BeginReturn, ClearBusy, Acquire, Giving, PositionOK, Using
  <2>. QED BY <1>2, <2>1
<1>5. CASE \/ ReturnLock(t) \/ ReturnUnlink(t) \/ ReturnLink(t) \/ ReturnUnlock(t)
  <2>1. Giving(t) /\ pc'[t] # "scan" /\ msg_pos'[t] = msg_pos[t] /\ buf'[t] = buf[t]
    BY <1>5 DEF ReturnLock, ReturnUnlink, ReturnLink, ReturnUnlock, Acquire, Giving
  <2>. QED BY <1>2, <1>3, <2>1
<1>6. CASE CheckBusy(t)
  <2>1. /\ pc[t] = "peek" /\ ~Giving(t)' /\ busy' = busy
        /\ pc'[t] = "scan" => busy[buf[t]]
    BY <1>6 DEF CheckBusy, Giving
  <2>2. buf[t] = next[HEAD]
    BY <2>1 DEF SortedOK
  <2>3. IsRing(next, prev, Cell)
    BY <2>1, WholeList DEF Busy, Cut
  <2>4. pc'[t] = "scan" => \A b \in Buf : busy[b]
    BY <2>1, <2>2, <2>3, FirstBusy
  <2>. QED BY <1>2, <2>1, <2>4
<1>7. CASE Scan(t)
  <2>1. /\ pc[t] = "scan" /\ busy' = busy /\ buf[t] \in Cell
        /\ pc'[t] \in {"idle", "rlock", "scan"}
        /\ pc'[t] = "scan" => msg_pos'[t] = msg_pos[t]
        /\ pc'[t] = "rlock" => /\ buf[t] # HEAD /\ addr[buf[t]] = msg_pos[t]
                               /\ buf'[t] = buf[t] /\ msg_pos'[t] = msg_pos[t]
    BY <1>7 DEF Scan, PointersOK
  <2>2. pc'[t] = "rlock" => msg_pos[t] = offset(buf[t])
    BY <2>1, FoundOwn, CellFacts
  <2>. QED BY <1>2, <1>3, <2>1, <2>2 DEF Giving
<1>. QED BY <1>4, <1>5, <1>6, <1>7 DEF Step

\* The search has passed no area that the thread has.
LEMMA WalkStep ==
    ASSUME PoolInv, NEW t \in Thread, Step(t)
    PROVE  WalkOK'
<1>. SUFFICES ASSUME ~overlap' PROVE WalkOK'
  BY DEF WalkOK
<1>1. /\ ~overlap
      /\ \A u \in Thread \ {t} : pc[u] \in {"idle", "using"} /\ pc'[u] = pc[u]
  BY Others
<1>. USE <1>1 DEF PoolInv, ListInv, SpaceType, Goto, Label
<1>2. SUFFICES ASSUME pc'[t] = "scan"
               PROVE  \E W \in SUBSET Cell :
                         /\ HEAD \in W
                         /\ \A b \in W \cap Buf : addr'[b] # msg_pos'[t]
                         /\ \A c \in W : prev'[c] \in W \cup {buf'[t]}
  BY DEF WalkOK
<1>3. CASE CheckBusy(t) \/ BeginReturn(t)
  <2>1. buf'[t] = prev[HEAD] /\ prev' = prev
    BY <1>2, <1>3 DEF CheckBusy, BeginReturn, listVars
  <2>2. {HEAD} \in SUBSET Cell /\ {HEAD} \cap Buf = {}
    BY CellFacts
  <2>. DEFINE W == {HEAD}
  <2>3. /\ \A b \in W \cap Buf : addr'[b] # msg_pos'[t]
        /\ \A c \in W : prev'[c] \in W \cup {buf'[t]}
    BY <2>1, <2>2
  <2>. QED BY <2>2, <2>3
<1>4. CASE Scan(t)
  <2>1. /\ pc[t] = "scan" /\ buf[t] \in Cell /\ addr[buf[t]] # msg_pos[t]
        /\ buf[t] # HEAD /\ buf'[t] = prev[buf[t]]
        /\ addr' = addr /\ prev' = prev /\ msg_pos' = msg_pos
    BY <1>2, <1>4 DEF Scan, listVars, PointersOK
  <2>2. PICK W \in SUBSET Cell :
            /\ HEAD \in W
            /\ \A b \in W \cap Buf : addr[b] # msg_pos[t]
            /\ \A c \in W : prev[c] \in W \cup {buf[t]}
    BY <2>1 DEF WalkOK
  <2>. DEFINE V == W \cup {buf[t]}
  <2>3. /\ V \in SUBSET Cell /\ HEAD \in V
        /\ \A b \in V \cap Buf : addr[b] # msg_pos[t]
        /\ \A c \in V : prev[c] \in V \cup {buf'[t]}
    BY <2>1, <2>2
  <2>4. /\ \A b \in V \cap Buf : addr'[b] # msg_pos'[t]
        /\ \A c \in V : prev'[c] \in V \cup {buf'[t]}
    BY <2>1, <2>3
  <2>. HIDE DEF V
  <2>. QED BY <2>3, <2>4
<1>5. CASE ~(CheckBusy(t) \/ BeginReturn(t) \/ Scan(t))
  BY <1>2, <1>5 DEF Step, ReadHead, ObtainLock, ObtainUnlink, ObtainLink, ObtainUnlock,
     SetAddr, ReturnLock, ReturnUnlink, ReturnLink, ReturnUnlock, ClearBusy, Acquire
<1>. QED BY <1>3, <1>4, <1>5

LEMMA PoolStep ==
    ASSUME PoolInv, [Next]_vars
    PROVE  PoolInv'
<1>1. ListInv'
  BY ListStep DEF PoolInv
<1>2. CASE UNCHANGED vars
  BY <1>1, <1>2 DEF vars, listVars, PoolInv, Alone, PositionOK, HeldOK, SortedOK,
     ReturnOK, WalkOK, Busy, Asking, Giving, Using, Taken
<1>3. ASSUME NEW t \in Thread, Step(t) PROVE PoolInv'
  BY <1>1, <1>3, AloneStep, PositionStep, HeldStep, SortedStep, ReturnStep, WalkStep
     DEF PoolInv
<1>. QED BY <1>2, <1>3 DEF Next, Step

THEOREM PoolInvCorrect == Spec => []PoolInv
BY PoolInit, PoolStep, PTL DEF Spec

\* Without overlap a thread is refused only when every area is taken.
THEOREM RefusedOnlyWhenFullCorrect == Spec => []RefusedOnlyWhenFull
<1>1. PoolInv => RefusedOnlyWhenFull
  BY DEF PoolInv, ReturnOK, RefusedOnlyWhenFull
<1>. QED BY <1>1, PoolInvCorrect, PTL

\* Without overlap no area is lost.
THEOREM NothingLostCorrect == Spec => []NothingLost
<1>1. ASSUME PoolInv, ~overlap, NEW b \in Buf, busy[b]
      PROVE  \E t \in Thread : buf[t] = b \/ msg_pos[t] = offset(b)
  <2>1. PICK t \in Thread : Taken(t) = offset(b)
    BY <1>1 DEF PoolInv, HeldOK
  <2>2. CASE Taken(t) = msg_pos[t]
    BY <2>1, <2>2
  <2>3. CASE Asking(t) \/ pc[t] = "oaddr"
    <3>1. buf[t] \in Buf /\ Taken(t) = offset(buf[t])
      BY <1>1, <2>3 DEF PoolInv, ListInv, PointersOK, HasBuf, Asking, Taken
    <3>. QED BY <2>1, <3>1, OffsetFacts
  <2>. QED BY <2>2, <2>3 DEF Taken, Asking
<1>2. PoolInv => NothingLost
  BY <1>1 DEF NothingLost
<1>. QED BY <1>2, PoolInvCorrect, PTL

\* With one size for messages, what threads write to their areas never meets, as
\* long as operations do not overlap, and stays inside the segment but for the
\* last area.
THEOREM UsersApartCorrect ==
    ASSUME emi_data_size_per_msg = EMI_DATA_SIZE_PER_MSG
    PROVE  Spec => []UsersApart
<1>1. ASSUME PoolInv, ~overlap, NEW t \in Thread, Using(t)
      PROVE  /\ \A u \in Thread \ {t} :
                   Using(u) => Written(msg_pos[t]) \cap Written(msg_pos[u]) = {}
             /\ \A pid \in 0..(pid_max - 1) :
                   Written(msg_pos[t]) \cap IndexCell(pid) = {}
             /\ msg_pos[t] # offset(EMI_MAX_MSG) =>
                   Written(msg_pos[t]) \subseteq 0..(SegmentSize - 1)
  <2>1. \A u \in Thread : Using(u) => /\ Taken(u) = msg_pos[u] /\ msg_pos[u] # NULL
                                      /\ \E b \in Buf : msg_pos[u] = offset(b)
    BY <1>1 DEF PoolInv, PositionOK, Using, Taken
  <2>2. PICK b \in Buf : msg_pos[t] = offset(b)
    BY <1>1, <2>1
  <2>3. b \in Nat /\ b <= EMI_MAX_MSG
    BY LayoutAssumption DEF Buf, AreaNumber
  <2>4. ASSUME NEW u \in Thread \ {t}, Using(u)
        PROVE  Written(msg_pos[t]) \cap Written(msg_pos[u]) = {}
    <3>1. msg_pos[t] # msg_pos[u]
      BY <1>1, <2>1, <2>4 DEF PoolInv, HeldOK
    <3>2. PICK c \in Buf : msg_pos[u] = offset(c)
      BY <2>1, <2>4
    <3>3. b # c /\ c \in Nat
      BY <2>2, <3>1, <3>2, CellFacts
    <3>4. emi_data_size_per_msg <= EMI_DATA_SIZE_PER_MSG
      BY LayoutAssumption
    <3>. QED BY <2>2, <2>3, <3>2, <3>3, <3>4, AreasDisjoint
  <2>5. \A pid \in 0..(pid_max - 1) : Written(msg_pos[t]) \cap IndexCell(pid) = {}
    BY <2>2, <2>3, IndexApart
  <2>6. ASSUME msg_pos[t] # offset(EMI_MAX_MSG)
        PROVE  Written(msg_pos[t]) \subseteq 0..(SegmentSize - 1)
    <3>1. b < EMI_MAX_MSG /\ EMI_DATA_SIZE_PER_MSG <= emi_data_size_per_msg
      BY <2>2, <2>3, <2>6, LayoutAssumption
    <3>. QED BY <2>2, <2>3, <3>1, AreasInside
  <2>. QED BY <2>4, <2>5, <2>6
<1>2. PoolInv => UsersApart
  BY <1>1 DEF UsersApart
<1>. QED BY <1>2, PoolInvCorrect, PTL

-----------------------------------------------------------------------------
(* The list implements SlotPool while operations do not overlap             *)

\* All steps but two leave a thread with what it had.
LEMMA KeepsTaken ==
    ASSUME PoolInv, NEW t \in Thread, Step(t), ~overlap', ~ClearBusy(t),
           CheckBusy(t) => busy[buf[t]]
    PROVE  Taken(t)' = Taken(t)
<1>. USE DEF PoolInv, ListInv, SpaceType, Goto, Label, Taken
<1>1. CASE ReadHead(t) \/ BeginReturn(t)
  BY <1>1 DEF ReadHead, BeginReturn
<1>2. CASE CheckBusy(t)
  BY <1>2 DEF CheckBusy
<1>3. CASE \/ ObtainLock(t) \/ ObtainUnlink(t) \/ ObtainLink(t) \/ ObtainUnlock(t)
           \/ ReturnLock(t) \/ ReturnUnlink(t) \/ ReturnLink(t) \/ ReturnUnlock(t)
  BY <1>3 DEF ObtainLock, ObtainUnlink, ObtainLink, ObtainUnlock, ReturnLock,
     ReturnUnlink, ReturnLink, ReturnUnlock, Acquire
<1>4. CASE SetAddr(t)
  BY <1>4 DEF SetAddr
<1>5. CASE Scan(t)
  <2>1. /\ pc[t] = "scan" /\ pc'[t] \in {"idle", "rlock", "scan"}
        /\ buf[t] = HEAD \/ msg_pos'[t] = msg_pos[t]
        /\ buf[t] # HEAD \/ msg_pos'[t] = NULL
    BY <1>5 DEF Scan
  <2>2. msg_pos'[t] = msg_pos[t]
    BY <2>1, Others, NoMiss
  <2>. QED BY <2>1, <2>2
<1>. QED BY <1>1, <1>2, <1>3, <1>4, <1>5 DEF Step

LEMMA PoolImplements ==
    ASSUME PoolInv, NEW t \in Thread, Step(t), ~overlap'
    PROVE  Pool!Next \/ UNCHANGED Pool!vars
<1>. DEFINE A      == {offset(b) : b \in Buf}
            h      == [u \in Thread |-> Taken(u)]
            f      == A \ {Taken(u) : u \in Thread}
<1>1. /\ ~overlap
      /\ \A u \in Thread \ {t} : Taken(u)' = Taken(u) /\ Taken(u) = msg_pos[u]
  BY Others
<1>2. A' = A
  OBVIOUS
<1>3. CASE Taken(t)' = Taken(t)
  <2>1. h' = h /\ f' = f
    BY <1>1, <1>3
  <2>. QED BY <2>1 DEF Pool!vars
<1>4. CASE CheckBusy(t) /\ ~busy[buf[t]]
  <2>1. /\ UNCHANGED buf /\ buf[t] \in Buf /\ pc[t] = "peek" /\ pc'[t] = "olock"
    BY <1>4 DEF CheckBusy, PoolInv, ListInv, SpaceType, Goto, PointersOK, HasBuf
  <2>2. Taken(t) = NULL /\ Taken(t)' = offset(buf[t])
    BY <2>1 DEF Taken, PoolInv, PositionOK
  <2>3. \A u \in Thread : Taken(u) # offset(buf[t])
    <3>1. \A u \in Thread \ {t} : pc[u] \in {"idle", "using"}
      BY Others
    <3>. QED BY <1>1, <1>4, <2>1, <2>2, <3>1, OffsetFacts DEF PoolInv, HeldOK, Asking
  <2>4. offset(buf[t]) \in f
    BY <2>1, <2>3
  <2>5. h' = [h EXCEPT ![t] = offset(buf[t])]
    BY <1>1, <2>2
  <2>6. f' = f \ {offset(buf[t])}
    BY <1>1, <2>2, <2>3, OffsetFacts
  <2>7. h[t] = NULL
    BY <2>2
  <2>. HIDE DEF h, f
  <2>8. h[t] = NULL /\ \E b \in f : f' = f \ {b} /\ h' = [h EXCEPT ![t] = b]
    BY <2>4, <2>5, <2>6, <2>7
  <2>. USE DEF h, f
  <2>. QED BY <2>8 DEF Pool!Next, Pool!Obtain
<1>5. CASE ClearBusy(t)
  <2>1. /\ buf[t] \in Buf /\ msg_pos'[t] = NULL /\ msg_pos[t] = offset(buf[t])
        /\ pc[t] = "rfree" /\ pc'[t] = "idle"
    BY <1>1, <1>5 DEF ClearBusy, PoolInv, ListInv, SpaceType, Goto, PointersOK,
       HasBuf, Giving, ReturnOK
  <2>2. Taken(t) = offset(buf[t]) /\ Taken(t)' = NULL
    BY <2>1 DEF Taken
  <2>3. \A u \in Thread \ {t} : Taken(u) # offset(buf[t])
    BY <1>1, <2>1, <2>2, OffsetFacts DEF PoolInv, HeldOK
  <2>4. f' = f \cup {h[t]}
    BY <1>1, <2>1, <2>2, <2>3, OffsetFacts
  <2>5. h' = [h EXCEPT ![t] = NULL]
    BY <1>1, <2>2
  <2>6. h[t] # NULL
    BY <2>1, <2>2, OffsetFacts
  <2>. QED BY <2>4, <2>5, <2>6 DEF Pool!Next, Pool!Return
<1>. QED BY <1>3, <1>4, <1>5, KeepsTaken

\* As long as operations of the pool do not overlap, the list of areas does what
\* SlotPool says, for every number of threads and areas.
THEOREM PoolUntilOverlapCorrect == Spec => PoolUntilOverlap
<1>1. Init => Pool!Init
  <2>. SUFFICES ASSUME Init PROVE Pool!Init
    OBVIOUS
  <2>1. \A t \in Thread : Taken(t) = NULL
    BY DEF Init, Taken
  <2>. QED BY <2>1, OffsetFacts DEF Pool!Init
<1>2. PoolInv /\ [Next]_vars => [~overlap' => Pool!Next]_(Pool!vars)
  <2>1. ASSUME UNCHANGED vars PROVE UNCHANGED Pool!vars
    BY <2>1 DEF vars, Pool!vars, Taken
  <2>2. ASSUME PoolInv, NEW t \in Thread, Step(t), ~overlap'
        PROVE  Pool!Next \/ UNCHANGED Pool!vars
    BY <2>2, PoolImplements
  <2>. QED BY <2>1, <2>2 DEF Next, Step
<1>. QED BY <1>1, <1>2, PoolInvCorrect, PTL DEF Spec, PoolUntilOverlap
=============================================================================
