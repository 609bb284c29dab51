------------------------------ MODULE MsgTable ------------------------------
(***************************************************************************)
(* The registration table of emi_core (include/msg_table.h): an array of   *)
(* hash buckets, each a singly linked list of struct msg_map nodes that    *)
(* are malloc'ed by an insertion and freed by a deletion.                  *)
(*                                                                         *)
(* A bucket is the sequence of its nodes from the head on, so the "next"   *)
(* pointers are the order of the sequence.  A node is an address: heap     *)
(* says what is stored there, and an address that is not allocated holds   *)
(* anything at all when it is read (a dangling pointer).                   *)
(***************************************************************************)
EXTENDS Integers, Sequences, SequencesExt, FiniteSets, FiniteSetsExt

CONSTANTS
    Msg,             \* message numbers (eu32)
    Pid,             \* process identifiers
    Node,            \* addresses malloc can return for a struct msg_map
    EMI_HASH_MASK,   \* 0xFFF in the code
    NoNode,          \* the NULL pointer
    Freed            \* the content of an address that is not allocated

ASSUME MsgAssumption   == Msg \subseteq Nat
ASSUME MaskAssumption  == EMI_HASH_MASK \in Nat
ASSUME NodeAssumption  == NoNode \notin Node
ASSUME FreedAssumption == Freed \notin [msg : Msg, pid : Pid]

VARIABLES
    msg_table,       \* [Bucket -> Seq(Node)]
    heap             \* [Node -> MsgMap \cup {Freed}]

tableVars == <<msg_table, heap>>

MsgMap == [msg : Msg, pid : Pid]
Bucket == 0 .. EMI_HASH_MASK

msg_map_fill(k, p) == [msg |-> k, pid |-> p]

\* k & EMI_HASH_MASK; the mask is one less than a power of two.
emi_hash(k) == k % (EMI_HASH_MASK + 1)

Chain(k) == msg_table[emi_hash(k)]

\* What a read through a struct msg_map pointer may return.
ReadNode(n) == IF heap[n] = Freed THEN MsgMap ELSE {heap[n]}

-----------------------------------------------------------------------------
(* Searching *)

\* The positions of chain c, from 1, whose nodes carry message k ...
Matches(c, k) == {i \in DOMAIN c : heap[c[i]].msg = k}

\* ... or carry exactly the map e.
Occurrences(c, e) == {i \in DOMAIN c : heap[c[i]] = e}

\* Faulty variant: the scan stops one node late.
hsearch_skips_one_more(k, num) ==
    LET found == {i \in Matches(Chain(k), k) : i > num + 1}
    IN  IF found = {} THEN NoNode ELSE Chain(k)[Min(found)]

\* Faulty variant: the scan starts over at each call.
hsearch_starts_over(k, num) ==
    LET found == {i \in Matches(Chain(k), k) : i >= num}
    IN  IF found = {} THEN NoNode ELSE Chain(k)[Min(found)]

\* The node found after skipping num nodes of the bucket, NULL if there is
\* none.  *num is left as it was: where the scan returns a node it stores the
\* number of nodes it skipped, which is *num again.
__emi_hsearch(k, num) ==
    LET found == {i \in Matches(Chain(k), k) : i > num}
    IN  IF found = {} THEN NoNode ELSE Chain(k)[Min(found)]

\* The loop of emi_recieve_operation over an unchanging table: search with
\* num = 0, 1, 2, ... until NULL.
Walk(k) == {num \in 0 .. Len(Chain(k)) :
               \A j \in 0 .. num : __emi_hsearch(k, j) # NoNode}
Visits(k, n) == {num \in Walk(k) : __emi_hsearch(k, num) = n}

Registered(k, p) == Occurrences(Chain(k), msg_map_fill(k, p)) # {}

-----------------------------------------------------------------------------
(* Inserting and deleting *)

FreeNode == {n \in Node : heap[n] = Freed}

\* __emi_hinsert: a new node at the head of its bucket; malloc fails when no
\* address is left.
__emi_hinsert(e) ==
    \/ \E n \in FreeNode :
          /\ heap' = [heap EXCEPT ![n] = e]
          /\ msg_table' = [msg_table EXCEPT ![emi_hash(e.msg)] = <<n>> \o @]
    \/ FreeNode = {} /\ UNCHANGED tableVars

\* Faulty variants: no look at what is there, and msg_map_cmp for msg_map_same.
hinsert_unconditionally(e) == __emi_hinsert(e)

hinsert_compares_msg(e) ==
    \/ Matches(Chain(e.msg), e.msg) = {} /\ __emi_hinsert(e)
    \/ Matches(Chain(e.msg), e.msg) # {} /\ UNCHANGED tableVars

\* emi_hinsert: one entry per message and process.
emi_hinsert(e) ==
    \/ ~Registered(e.msg, e.pid) /\ __emi_hinsert(e)
    \/ Registered(e.msg, e.pid) /\ UNCHANGED tableVars

\* Faulty variant: the head of the chain is freed, not the node unlinked.
hdelete_frees_head(e) ==
    LET b == emi_hash(e.msg)
        same == Occurrences(msg_table[b], e)
    IN  \/ /\ same # {}
           /\ heap' = [heap EXCEPT ![Head(msg_table[b])] = Freed]
           /\ msg_table' = [msg_table EXCEPT ![b] = RemoveAt(@, Min(same))]
        \/ same = {} /\ UNCHANGED tableVars

\* Faulty variant: tmp->next = NULL, and the chain behind the node is lost.
hdelete_cuts_chain(e) ==
    LET b == emi_hash(e.msg)
        same == Occurrences(msg_table[b], e)
    IN  \/ /\ same # {}
           /\ heap' = [heap EXCEPT ![msg_table[b][Min(same)]] = Freed]
           /\ msg_table' = [msg_table EXCEPT ![b] = SubSeq(@, 1, Min(same) - 1)]
        \/ same = {} /\ UNCHANGED tableVars

\* emi_hdelete: unlinks and frees the first node that equals the map e, which
\* is the content of the caller's own pointer and may be stale.
emi_hdelete(e) ==
    LET b == emi_hash(e.msg)
        same == Occurrences(msg_table[b], e)
    IN  \/ /\ same # {}
           /\ heap' = [heap EXCEPT ![msg_table[b][Min(same)]] = Freed]
           /\ msg_table' = [msg_table EXCEPT ![b] = RemoveAt(@, Min(same))]
        \/ same = {} /\ UNCHANGED tableVars

TableInit ==
    /\ msg_table = [b \in Bucket |-> <<>>]
    /\ heap = [n \in Node |-> Freed]

-----------------------------------------------------------------------------
(* The table on its own: insertions, and deletions of any map, each under  *)
(* msg_map_lock.                                                           *)

Insert(e) == emi_hinsert(e)
Delete(e) == emi_hdelete(e)

TableNext == \E e \in MsgMap : Insert(e) \/ Delete(e)
TableSpec == TableInit /\ [][TableNext]_tableVars

-----------------------------------------------------------------------------
(* Properties *)

Places(b, n) == {i \in DOMAIN msg_table[b] : msg_table[b][i] = n}

\* Chains hold nodes of the table and the heap holds maps.
TableTypeOK ==
    /\ msg_table \in [Bucket -> Seq(Node)]
    /\ heap \in [Node -> MsgMap \cup {Freed}]

\* The chains and the allocator agree: an allocated node is linked exactly
\* once, in the bucket its message hashes to, and a free one nowhere.  A
\* deletion that frees without unlinking, unlinks without freeing or loses the
\* rest of a chain breaks it (msg_table.h:178-197).
TableIntact ==
    \A n \in Node, b \in Bucket :
        IF heap[n] # Freed /\ emi_hash(heap[n].msg) = b
        THEN \E i \in DOMAIN msg_table[b] : Places(b, n) = {i}
        ELSE Places(b, n) = {}

\* A process registered twice for a message has one entry (msg_table.h:146),
\* so that one loop over the table signals it once.
NoDuplicateEntries ==
    \A k \in Msg, p \in Pid :
        Cardinality(Occurrences(Chain(k), msg_map_fill(k, p))) <= 1

\* No insertion and no deletion, of any map in any order, loses a node, frees one
\* that is linked, links one twice or makes two entries of a registration
\* (msg_table.h:130-197).
TableSound == TableIntact /\ NoDuplicateEntries

\* The loop of emi_core.c:425 over an unchanging table reaches every node that
\* carries the message, wherever colliding messages put it in the chain.
WalkReachesAll ==
    \A k \in Msg : \A i \in Matches(Chain(k), k) : Visits(k, Chain(k)[i]) # {}

\* Where a bucket holds one message only, that loop reaches each node once.
WalkReachesOnce ==
    \A k \in Msg :
        Matches(Chain(k), k) = DOMAIN Chain(k) =>
            \A i \in DOMAIN Chain(k) : Cardinality(Visits(k, Chain(k)[i])) = 1

\* So a message goes to all its entries, wherever they are, and what makes it go
\* to one of them twice is a collision and nothing else (emi_core.c:425-471).
WalkReachesEach == WalkReachesAll /\ WalkReachesOnce

\* Entries that survive a step keep their order in the chain and shift by at
\* most one place: what a loop that holds a position between two searches can
\* miss or repeat is bounded by the number of steps that intervened.
ChainsShiftByOne ==
    [][\A b \in Bucket : \A i \in DOMAIN msg_table[b] :
          heap'[msg_table[b][i]] = heap[msg_table[b][i]] =>
              \E j \in {i - 1, i, i + 1} \cap DOMAIN msg_table'[b] :
                  msg_table'[b][j] = msg_table[b][i]]_tableVars
=============================================================================
