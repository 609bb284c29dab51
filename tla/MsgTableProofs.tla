--------------------------- MODULE MsgTableProofs ---------------------------
EXTENDS MsgTable, SequenceTheorems, FiniteSetTheorems, WellFoundedInduction, TLAPS

\* A non-empty set of naturals has a least element, and Min is it.
LEMMA MinProperties ==
    ASSUME NEW S \in SUBSET Nat, S # {}
    PROVE  Min(S) \in S /\ \A i \in S : Min(S) <= i
<1>. DEFINE Less == {p \in Nat \X Nat : p[1] < p[2]}
<1>1. IsWellFoundedOn(Less, Nat)
  BY NatLessThanWellFounded DEF OpToRel
<1>2. PICK x \in S : \A y \in S : ~(<<y, x>> \in Less)
  BY <1>1, WFMin
<1>3. \A y \in S : y < x => <<y, x>> \in Less
  OBVIOUS
<1>. HIDE DEF Less
<1>4. \A y \in S : ~(y < x)
  BY <1>2, <1>3
<1>5. \A y \in S : x <= y
  BY <1>4
<1>. QED BY <1>5 DEF Min

LEMMA HashType == \A k \in Msg : emi_hash(k) \in Bucket
BY MsgAssumption, MaskAssumption DEF emi_hash, Bucket

LEMMA RemoveAtProperties ==
    ASSUME NEW T, NEW s \in Seq(T), NEW i \in 1 .. Len(s)
    PROVE  /\ RemoveAt(s, i) \in Seq(T)
           /\ Len(RemoveAt(s, i)) = Len(s) - 1
           /\ \A j \in 1 .. Len(s) - 1 :
                 RemoveAt(s, i)[j] = IF j < i THEN s[j] ELSE s[j + 1]
<1>. DEFINE front == SubSeq(s, 1, i - 1)
           back == SubSeq(s, i + 1, Len(s))
<1>1. front \in Seq(T) /\ Len(front) = i - 1 /\ \A j \in 1 .. i - 1 : front[j] = s[j]
  OBVIOUS
<1>2. /\ back \in Seq(T) /\ Len(back) = Len(s) - i
      /\ \A j \in 1 .. Len(s) - i : back[j] = s[i + j]
  OBVIOUS
<1>3. RemoveAt(s, i) = front \o back
  BY DEF RemoveAt
<1>. HIDE DEF front, back
<1>4. /\ front \o back \in Seq(T)
      /\ Len(front \o back) = Len(front) + Len(back)
      /\ \A j \in 1 .. Len(front) + Len(back) :
            (front \o back)[j] = IF j <= Len(front) THEN front[j] ELSE back[j - Len(front)]
  BY <1>1, <1>2, ConcatProperties
<1>5. ASSUME NEW j \in 1 .. Len(s) - 1
      PROVE  (front \o back)[j] = IF j < i THEN s[j] ELSE s[j + 1]
  <2>1. CASE j < i
    BY <2>1, <1>1, <1>2, <1>4
  <2>2. CASE ~(j < i)
    <3>1. j - (i - 1) \in 1 .. Len(s) - i /\ i + (j - (i - 1)) = j + 1
      BY <2>2
    <3>2. (front \o back)[j] = back[j - (i - 1)]
      BY <2>2, <1>1, <1>2, <1>4
    <3>3. back[j - (i - 1)] = s[j + 1]
      BY <3>1, <1>2
    <3>. QED BY <2>2, <3>2, <3>3
  <2>. QED BY <2>1, <2>2
<1>. QED BY <1>1, <1>2, <1>3, <1>4, <1>5

LEMMA PushProperties ==
    ASSUME NEW T, NEW s \in Seq(T), NEW n \in T
    PROVE  /\ <<n>> \o s \in Seq(T)
           /\ Len(<<n>> \o s) = Len(s) + 1
           /\ \A j \in 1 .. Len(s) + 1 :
                 (<<n>> \o s)[j] = IF j = 1 THEN n ELSE s[j - 1]
OBVIOUS

-----------------------------------------------------------------------------
(* What the operations of the table preserve                                *)

LEMMA InsertType ==
    ASSUME TableTypeOK, NEW e \in MsgMap, emi_hinsert(e)
    PROVE  TableTypeOK'
<1>1. CASE UNCHANGED tableVars
  BY <1>1 DEF TableTypeOK, tableVars
<1>2. CASE __emi_hinsert(e) /\ ~UNCHANGED tableVars
  <2>1. PICK n \in FreeNode :
            /\ heap' = [heap EXCEPT ![n] = e]
            /\ msg_table' = [msg_table EXCEPT ![emi_hash(e.msg)] = <<n>> \o @]
    BY <1>2 DEF __emi_hinsert
  <2>2. n \in Node /\ emi_hash(e.msg) \in Bucket
    BY HashType DEF FreeNode, MsgMap
  <2>3. <<n>> \o msg_table[emi_hash(e.msg)] \in Seq(Node)
    BY <2>2, PushProperties DEF TableTypeOK
  <2>. QED BY <2>1, <2>2, <2>3 DEF TableTypeOK
<1>. QED BY <1>1, <1>2 DEF emi_hinsert

LEMMA DeleteType ==
    ASSUME TableTypeOK, NEW e \in MsgMap, emi_hdelete(e)
    PROVE  TableTypeOK'
<1>. DEFINE b == emi_hash(e.msg)
            same == Occurrences(msg_table[b], e)
<1>1. CASE UNCHANGED tableVars
  BY <1>1 DEF TableTypeOK, tableVars
<1>2. CASE /\ same # {}
           /\ heap' = [heap EXCEPT ![msg_table[b][Min(same)]] = Freed]
           /\ msg_table' = [msg_table EXCEPT ![b] = RemoveAt(@, Min(same))]
  <2>1. b \in Bucket /\ msg_table[b] \in Seq(Node)
    BY HashType DEF MsgMap, TableTypeOK
  <2>2. Min(same) \in 1 .. Len(msg_table[b])
    BY <1>2, <2>1, MinProperties DEF Occurrences
  <2>3. RemoveAt(msg_table[b], Min(same)) \in Seq(Node)
    BY <2>1, <2>2, RemoveAtProperties
  <2>. QED BY <1>2, <2>1, <2>3 DEF TableTypeOK
<1>. QED BY <1>1, <1>2 DEF emi_hdelete

LEMMA TableInitType == TableInit => TableTypeOK
BY DEF TableInit, TableTypeOK

\* The type invariant of the table: for every set of messages, processes and
\* addresses and every mask, the chains hold nodes and the heap holds maps.
THEOREM TableTypeCorrect == TableSpec => []TableTypeOK
<1>1. TableTypeOK /\ [TableNext]_tableVars => TableTypeOK'
  <2>. SUFFICES ASSUME TableTypeOK, [TableNext]_tableVars PROVE TableTypeOK'
    OBVIOUS
  <2>1. ASSUME NEW e \in MsgMap, Insert(e) PROVE TableTypeOK'
    BY <2>1, InsertType DEF Insert
  <2>2. ASSUME NEW e \in MsgMap, Delete(e) PROVE TableTypeOK'
    BY <2>2, DeleteType DEF Delete
  <2>3. CASE UNCHANGED tableVars
    BY <2>3 DEF TableTypeOK, tableVars
  <2>. QED BY <2>1, <2>2, <2>3 DEF TableNext
<1>. QED BY <1>1, TableInitType, PTL DEF TableSpec

-----------------------------------------------------------------------------
(* No process is in the table twice for a message                           *)

\* Every linked node is allocated and in the bucket of its message ...
NodesInPlace ==
    \A b \in Bucket : \A i \in DOMAIN msg_table[b] :
        /\ heap[msg_table[b][i]] \in MsgMap
        /\ emi_hash(heap[msg_table[b][i]].msg) = b

\* ... and no two nodes of a bucket hold the same map.
MapsDiffer ==
    \A b \in Bucket : \A i, j \in DOMAIN msg_table[b] :
        heap[msg_table[b][i]] = heap[msg_table[b][j]] => i = j

TableInv == TableTypeOK /\ NodesInPlace /\ MapsDiffer

LEMMA InsertInv ==
    ASSUME TableInv, NEW e \in MsgMap, emi_hinsert(e)
    PROVE  TableInv'
<1>. USE DEF TableInv
<1>0. TableTypeOK'
  BY InsertType
<1>1. CASE UNCHANGED tableVars
  BY <1>0, <1>1 DEF NodesInPlace, MapsDiffer, tableVars
<1>2. CASE ~Registered(e.msg, e.pid) /\ __emi_hinsert(e) /\ ~UNCHANGED tableVars
  <2>. DEFINE h == emi_hash(e.msg)
  <2>1. PICK n \in FreeNode :
            /\ heap' = [heap EXCEPT ![n] = e]
            /\ msg_table' = [msg_table EXCEPT ![h] = <<n>> \o @]
    BY <1>2 DEF __emi_hinsert
  <2>2. n \in Node /\ heap[n] = Freed /\ h \in Bucket
    BY HashType DEF FreeNode, MsgMap
  <2>3. \A b \in Bucket : msg_table[b] \in Seq(Node)
    BY DEF TableTypeOK
  <2>4. \A b \in Bucket : \A i \in DOMAIN msg_table[b] :
            /\ msg_table[b][i] \in Node /\ msg_table[b][i] # n
            /\ heap'[msg_table[b][i]] = heap[msg_table[b][i]]
    BY <2>1, <2>2, <2>3, FreedAssumption DEF NodesInPlace, MsgMap, TableTypeOK
  <2>5. \A i \in DOMAIN msg_table[h] : heap[msg_table[h][i]] # e
    BY <1>2 DEF Registered, Occurrences, Chain, msg_map_fill, MsgMap
  <2>6. /\ DOMAIN msg_table'[h] = 1 .. Len(msg_table[h]) + 1
        /\ \A i \in DOMAIN msg_table'[h] :
              msg_table'[h][i] = IF i = 1 THEN n ELSE msg_table[h][i - 1]
    BY <2>1, <2>2, <2>3, PushProperties DEF TableTypeOK
  <2>7. heap'[n] = e
    BY <2>1, <2>2 DEF TableTypeOK
  <2>8. \A b \in Bucket \ {h} : msg_table'[b] = msg_table[b]
    BY <2>1 DEF TableTypeOK
  <2>9. \A i \in DOMAIN msg_table'[h] :
            \/ i = 1 /\ heap'[msg_table'[h][i]] = e
            \/ /\ i # 1 /\ i - 1 \in DOMAIN msg_table[h]
               /\ heap'[msg_table'[h][i]] = heap[msg_table[h][i - 1]]
    BY <2>2, <2>3, <2>4, <2>6, <2>7
  <2>10. NodesInPlace'
    <3>1. ASSUME NEW b \in Bucket, NEW i \in DOMAIN msg_table'[b]
          PROVE  heap'[msg_table'[b][i]] \in MsgMap /\ emi_hash(heap'[msg_table'[b][i]].msg) = b
      <4>1. CASE b = h
        BY <4>1, <2>2, <2>9 DEF NodesInPlace
      <4>2. CASE b # h
        BY <4>2, <2>4, <2>8 DEF NodesInPlace
      <4>. QED BY <4>1, <4>2
    <3>. QED BY <3>1 DEF NodesInPlace, Bucket, MsgMap, emi_hash
  <2>11. MapsDiffer'
    <3>1. ASSUME NEW b \in Bucket, NEW i \in DOMAIN msg_table'[b],
                 NEW j \in DOMAIN msg_table'[b],
                 heap'[msg_table'[b][i]] = heap'[msg_table'[b][j]]
          PROVE  i = j
      <4>1. CASE b = h
        <5>1. i - 1 = j - 1
          BY <3>1, <4>1, <2>2, <2>5, <2>9 DEF MapsDiffer
        <5>. QED BY <5>1, <4>1, <2>3, <2>6
      <4>2. CASE b # h
        BY <3>1, <4>2, <2>4, <2>8 DEF MapsDiffer
      <4>. QED BY <4>1, <4>2
    <3>. QED BY <3>1 DEF MapsDiffer, Bucket
  <2>. QED BY <1>0, <2>10, <2>11
<1>. QED BY <1>1, <1>2 DEF emi_hinsert

LEMMA DeleteInv ==
    ASSUME TableInv, NEW e \in MsgMap, emi_hdelete(e)
    PROVE  TableInv'
<1>. USE DEF TableInv
<1>. DEFINE h == emi_hash(e.msg)
            same == Occurrences(msg_table[h], e)
            d == Min(same)
<1>0. TableTypeOK'
  BY DeleteType
<1>1. CASE UNCHANGED tableVars
  BY <1>0, <1>1 DEF NodesInPlace, MapsDiffer, tableVars
<1>2. CASE /\ same # {}
           /\ heap' = [heap EXCEPT ![msg_table[h][d]] = Freed]
           /\ msg_table' = [msg_table EXCEPT ![h] = RemoveAt(@, d)]
  <2>1. h \in Bucket /\ \A b \in Bucket : msg_table[b] \in Seq(Node)
    BY HashType DEF MsgMap, TableTypeOK
  <2>2. d \in 1 .. Len(msg_table[h]) /\ heap[msg_table[h][d]] = e
    <3>1. \A i \in same : i \in 1 .. Len(msg_table[h]) /\ heap[msg_table[h][i]] = e
      BY <2>1 DEF Occurrences
    <3>2. same \in SUBSET Nat /\ same # {}
      BY <1>2, <3>1
    <3>3. d \in same
      BY <3>2, MinProperties
    <3>. QED BY <3>1, <3>3
  <2>. HIDE DEF d, same
  <2>3. \A b \in Bucket \ {h} : msg_table'[b] = msg_table[b]
    BY <1>2 DEF TableTypeOK
  <2>4. /\ DOMAIN msg_table'[h] = 1 .. Len(msg_table[h]) - 1
        /\ \A i \in DOMAIN msg_table'[h] :
              msg_table'[h][i] = IF i < d THEN msg_table[h][i] ELSE msg_table[h][i + 1]
    <3>1. msg_table'[h] = RemoveAt(msg_table[h], d)
      BY <1>2, <2>1 DEF TableTypeOK
    <3>2. /\ msg_table'[h] \in Seq(Node)
          /\ Len(msg_table'[h]) = Len(msg_table[h]) - 1
          /\ \A i \in 1 .. Len(msg_table[h]) - 1 :
                msg_table'[h][i] = IF i < d THEN msg_table[h][i] ELSE msg_table[h][i + 1]
      BY <2>1, <2>2, <3>1, RemoveAtProperties
    <3>. QED BY <3>2
  \* A node that stays is not the one that is freed.
  <2>5. \A b \in Bucket : \A i \in DOMAIN msg_table[b] :
            b # h \/ i # d => heap'[msg_table[b][i]] = heap[msg_table[b][i]]
    <3>1. ASSUME NEW b \in Bucket, NEW i \in DOMAIN msg_table[b], b # h \/ i # d
          PROVE  msg_table[b][i] # msg_table[h][d]
      BY <2>1, <2>2, <3>1 DEF NodesInPlace, MapsDiffer
    <3>. QED BY <1>2, <2>1, <3>1 DEF TableTypeOK
  <2>6. \A i \in DOMAIN msg_table'[h] :
            \E j \in DOMAIN msg_table[h] :
                /\ j = (IF i < d THEN i ELSE i + 1)
                /\ heap'[msg_table'[h][i]] = heap[msg_table[h][j]]
    <3>1. ASSUME NEW i \in DOMAIN msg_table'[h]
          PROVE  LET j == IF i < d THEN i ELSE i + 1
                 IN  /\ j \in DOMAIN msg_table[h] /\ j # d
                     /\ msg_table'[h][i] = msg_table[h][j]
      BY <2>1, <2>2, <2>4
    <3>. QED BY <2>1, <2>5, <3>1
  <2>7. NodesInPlace'
    <3>1. ASSUME NEW b \in Bucket, NEW i \in DOMAIN msg_table'[b]
          PROVE  heap'[msg_table'[b][i]] \in MsgMap /\ emi_hash(heap'[msg_table'[b][i]].msg) = b
      <4>1. CASE b = h
        BY <4>1, <2>1, <2>6 DEF NodesInPlace
      <4>2. CASE b # h
        BY <4>2, <2>3, <2>5 DEF NodesInPlace
      <4>. QED BY <4>1, <4>2
    <3>. QED BY <3>1 DEF NodesInPlace, Bucket, MsgMap, emi_hash
  <2>8. MapsDiffer'
    <3>1. ASSUME NEW b \in Bucket, NEW i \in DOMAIN msg_table'[b],
                 NEW j \in DOMAIN msg_table'[b],
                 heap'[msg_table'[b][i]] = heap'[msg_table'[b][j]]
          PROVE  i = j
      <4>1. CASE b = h
        <5>1. (IF i < d THEN i ELSE i + 1) = (IF j < d THEN j ELSE j + 1)
          BY <3>1, <4>1, <2>1, <2>6 DEF MapsDiffer
        <5>. QED BY <5>1, <4>1, <2>1, <2>2, <2>4
      <4>2. CASE b # h
        BY <3>1, <4>2, <2>3, <2>5 DEF MapsDiffer
      <4>. QED BY <4>1, <4>2
    <3>. QED BY <3>1 DEF MapsDiffer, Bucket
  <2>. QED BY <1>0, <2>7, <2>8
<1>. QED BY <1>1, <1>2 DEF emi_hdelete

LEMMA TableInvCorrect == TableSpec => []TableInv
<1>1. TableInit => TableInv
  BY TableInitType DEF TableInit, TableInv, NodesInPlace, MapsDiffer
<1>2. TableInv /\ [TableNext]_tableVars => TableInv'
  <2>. SUFFICES ASSUME TableInv, [TableNext]_tableVars PROVE TableInv'
    OBVIOUS
  <2>1. ASSUME NEW e \in MsgMap, Insert(e) PROVE TableInv'
    BY <2>1, InsertInv DEF Insert
  <2>2. ASSUME NEW e \in MsgMap, Delete(e) PROVE TableInv'
    BY <2>2, DeleteInv DEF Delete
  <2>3. CASE UNCHANGED tableVars
    BY <2>3 DEF TableInv, TableTypeOK, NodesInPlace, MapsDiffer, tableVars
  <2>. QED BY <2>1, <2>2, <2>3 DEF TableNext
<1>. QED BY <1>1, <1>2, PTL DEF TableSpec

\* A process that registers a message again gets no second entry, whatever was
\* inserted and deleted before (msg_table.h:144-154).
THEOREM NoDuplicateEntriesCorrect == TableSpec => []NoDuplicateEntries
<1>1. TableInv => NoDuplicateEntries
  <2>. SUFFICES ASSUME TableInv, NEW k \in Msg, NEW p \in Pid
       PROVE  Cardinality(Occurrences(Chain(k), msg_map_fill(k, p))) <= 1
    BY DEF NoDuplicateEntries
  <2>. DEFINE O == Occurrences(Chain(k), msg_map_fill(k, p))
  <2>1. \A i, j \in O : i = j
    BY HashType DEF Occurrences, Chain, TableInv, MapsDiffer
  <2>2. CASE O = {}
    BY <2>2, FS_EmptySet
  <2>3. CASE O # {}
    <3>1. PICK i : O = {i}
      BY <2>1, <2>3
    <3>. QED BY <3>1, FS_Singleton
  <2>. QED BY <2>2, <2>3
<1>. QED BY <1>1, TableInvCorrect, PTL

-----------------------------------------------------------------------------
(* The chains and the allocator agree                                       *)

\* No allocated node is lost.
AllLinked ==
    \A n \in Node : heap[n] # Freed =>
        \E i \in DOMAIN msg_table[emi_hash(heap[n].msg)] :
            msg_table[emi_hash(heap[n].msg)][i] = n

LEMMA InsertLinks ==
    ASSUME TableInv, AllLinked, NEW e \in MsgMap, emi_hinsert(e)
    PROVE  AllLinked'
<1>1. CASE UNCHANGED tableVars
  BY <1>1 DEF AllLinked, tableVars
<1>2. CASE ~Registered(e.msg, e.pid) /\ __emi_hinsert(e) /\ ~UNCHANGED tableVars
  <2>. DEFINE h == emi_hash(e.msg)
  <2>1. PICK n \in FreeNode :
            /\ heap' = [heap EXCEPT ![n] = e]
            /\ msg_table' = [msg_table EXCEPT ![h] = <<n>> \o @]
    BY <1>2 DEF __emi_hinsert
  <2>2. n \in Node /\ h \in Bucket /\ TableTypeOK
    BY HashType DEF FreeNode, MsgMap, TableInv
  <2>3. /\ DOMAIN msg_table[h] = 1 .. Len(msg_table[h])
        /\ DOMAIN msg_table'[h] = 1 .. Len(msg_table[h]) + 1
        /\ \A i \in DOMAIN msg_table'[h] :
              msg_table'[h][i] = IF i = 1 THEN n ELSE msg_table[h][i - 1]
    BY <2>1, <2>2, PushProperties DEF TableTypeOK
  <2>4. ASSUME NEW m \in Node, heap'[m] # Freed
        PROVE  \E i \in DOMAIN msg_table'[emi_hash(heap'[m].msg)] :
                   msg_table'[emi_hash(heap'[m].msg)][i] = m
    <3>1. CASE m = n
      <4>1. heap'[m] = e /\ 1 \in DOMAIN msg_table'[h] /\ msg_table'[h][1] = n
        BY <2>1, <2>2, <2>3, <3>1 DEF TableTypeOK
      <4>. QED BY <3>1, <4>1
    <3>2. CASE m # n
      <4>1. heap'[m] = heap[m] /\ heap[m] \in MsgMap
        BY <2>1, <2>2, <2>4, <3>2 DEF TableTypeOK
      <4>. DEFINE b == emi_hash(heap[m].msg)
      <4>2. PICK i \in DOMAIN msg_table[b] : msg_table[b][i] = m
        BY <2>4, <4>1 DEF AllLinked
      <4>3. CASE b = h
        <5>1. i + 1 \in DOMAIN msg_table'[h] /\ msg_table'[h][i + 1] = m
          BY <2>3, <4>2, <4>3
        <5>. QED BY <4>1, <4>3, <5>1
      <4>4. CASE b # h
        <5>1. msg_table'[b] = msg_table[b]
          BY <2>1, <2>2, <4>1, <4>4, HashType DEF TableTypeOK, MsgMap
        <5>. QED BY <4>1, <4>2, <5>1
      <4>. QED BY <4>3, <4>4
    <3>. QED BY <3>1, <3>2
  <2>. QED BY <2>4 DEF AllLinked, emi_hash
<1>. QED BY <1>1, <1>2 DEF emi_hinsert

LEMMA DeleteLinks ==
    ASSUME TableInv, AllLinked, NEW e \in MsgMap, emi_hdelete(e)
    PROVE  AllLinked'
<1>. DEFINE h == emi_hash(e.msg)
            same == Occurrences(msg_table[h], e)
            d == Min(same)
<1>1. CASE UNCHANGED tableVars
  BY <1>1 DEF AllLinked, tableVars
<1>2. CASE /\ same # {}
           /\ heap' = [heap EXCEPT ![msg_table[h][d]] = Freed]
           /\ msg_table' = [msg_table EXCEPT ![h] = RemoveAt(@, d)]
  <2>1. TableTypeOK /\ h \in Bucket /\ msg_table[h] \in Seq(Node)
    BY HashType DEF MsgMap, TableTypeOK, TableInv
  <2>2. d \in 1 .. Len(msg_table[h])
    <3>1. same \in SUBSET Nat /\ same # {} /\ same \subseteq 1 .. Len(msg_table[h])
      BY <1>2, <2>1 DEF Occurrences
    <3>. QED BY <3>1, MinProperties
  <2>. HIDE DEF d, same
  <2>3. /\ DOMAIN msg_table[h] = 1 .. Len(msg_table[h])
        /\ DOMAIN msg_table'[h] = 1 .. Len(msg_table[h]) - 1
        /\ \A i \in DOMAIN msg_table'[h] :
              msg_table'[h][i] = IF i < d THEN msg_table[h][i] ELSE msg_table[h][i + 1]
    <3>1. msg_table'[h] = RemoveAt(msg_table[h], d)
      BY <1>2, <2>1 DEF TableTypeOK
    <3>2. /\ msg_table'[h] \in Seq(Node)
          /\ Len(msg_table'[h]) = Len(msg_table[h]) - 1
          /\ \A i \in 1 .. Len(msg_table[h]) - 1 :
                msg_table'[h][i] = IF i < d THEN msg_table[h][i] ELSE msg_table[h][i + 1]
      BY <2>1, <2>2, <3>1, RemoveAtProperties
    <3>. QED BY <2>1, <3>2
  <2>4. ASSUME NEW m \in Node, heap'[m] # Freed
        PROVE  \E i \in DOMAIN msg_table'[emi_hash(heap'[m].msg)] :
                   msg_table'[emi_hash(heap'[m].msg)][i] = m
    <3>1. m # msg_table[h][d] /\ heap'[m] = heap[m] /\ heap[m] \in MsgMap
      BY <1>2, <2>1, <2>4 DEF TableTypeOK
    <3>. DEFINE b == emi_hash(heap[m].msg)
    <3>2. PICK i \in DOMAIN msg_table[b] : msg_table[b][i] = m
      BY <2>4, <3>1 DEF AllLinked
    <3>3. CASE b = h
      <4>1. CASE i < d
        <5>1. i \in DOMAIN msg_table'[h] /\ msg_table'[h][i] = m
          BY <2>2, <2>3, <3>2, <3>3, <4>1
        <5>. QED BY <3>1, <3>3, <5>1
      <4>2. CASE ~(i < d)
        <5>1. i \in 1 .. Len(msg_table[h]) /\ i # d
          BY <2>3, <3>1, <3>2, <3>3
        <5>2. i - 1 \in DOMAIN msg_table'[h] /\ msg_table'[h][i - 1] = m
          BY <2>2, <2>3, <3>2, <3>3, <4>2, <5>1
        <5>. QED BY <3>1, <3>3, <5>2
      <4>. QED BY <4>1, <4>2
    <3>4. CASE b # h
      <4>1. msg_table'[b] = msg_table[b]
        BY <1>2, <2>1, <3>1, <3>4, HashType DEF TableTypeOK, MsgMap
      <4>. QED BY <3>1, <3>2, <4>1
    <3>. QED BY <3>3, <3>4
  <2>. QED BY <2>4 DEF AllLinked, emi_hash
<1>. QED BY <1>1, <1>2 DEF emi_hdelete

LEMMA AllLinkedCorrect == TableSpec => []AllLinked
<1>1. TableInit => AllLinked
  BY DEF TableInit, AllLinked
<1>2. TableInv /\ AllLinked /\ [TableNext]_tableVars => AllLinked'
  <2>. SUFFICES ASSUME TableInv, AllLinked, [TableNext]_tableVars PROVE AllLinked'
    OBVIOUS
  <2>1. ASSUME NEW e \in MsgMap, Insert(e) PROVE AllLinked'
    BY <2>1, InsertLinks DEF Insert
  <2>2. ASSUME NEW e \in MsgMap, Delete(e) PROVE AllLinked'
    BY <2>2, DeleteLinks DEF Delete
  <2>3. CASE UNCHANGED tableVars
    BY <2>3 DEF AllLinked, tableVars
  <2>. QED BY <2>1, <2>2, <2>3 DEF TableNext
<1>. QED BY <1>1, <1>2, TableInvCorrect, PTL DEF TableSpec

\* A node is in the table exactly if it is allocated, once, and in the bucket of
\* its message: deletions free what they unlink and lose nothing behind it
\* (msg_table.h:178-197).
THEOREM TableIntactCorrect == TableSpec => []TableIntact
<1>1. TableInv /\ AllLinked => TableIntact
  <2>. SUFFICES ASSUME TableInv, AllLinked, NEW n \in Node, NEW b \in Bucket
                PROVE  IF heap[n] # Freed /\ emi_hash(heap[n].msg) = b
                       THEN \E i \in DOMAIN msg_table[b] : Places(b, n) = {i}
                       ELSE Places(b, n) = {}
    BY DEF TableIntact
  <2>1. ASSUME NEW i \in Places(b, n)
        PROVE  heap[n] \in MsgMap /\ emi_hash(heap[n].msg) = b /\ Places(b, n) = {i}
    BY <2>1 DEF Places, TableInv, NodesInPlace, MapsDiffer
  <2>2. CASE heap[n] # Freed /\ emi_hash(heap[n].msg) = b
    <3>1. PICK i \in DOMAIN msg_table[b] : i \in Places(b, n)
      BY <2>2 DEF AllLinked, Places
    <3>. QED BY <2>1, <2>2, <3>1
  <2>3. CASE heap[n] = Freed \/ emi_hash(heap[n].msg) # b
    BY <2>1, <2>3, FreedAssumption DEF MsgMap
  <2>. QED BY <2>2, <2>3
<1>. QED BY <1>1, TableInvCorrect, AllLinkedCorrect, PTL

-----------------------------------------------------------------------------
(* What one step does to the places in a chain                              *)

\* Where what was at place i of chain b is after a step, if it still holds the
\* same map.
StaysNear ==
    \A b \in Bucket : \A i \in DOMAIN msg_table[b] :
        heap'[msg_table[b][i]] = heap[msg_table[b][i]] =>
            \E j \in {i - 1, i, i + 1} \cap DOMAIN msg_table'[b] :
                msg_table'[b][j] = msg_table[b][i]

LEMMA InsertShifts ==
    ASSUME TableInv, NEW e \in MsgMap, emi_hinsert(e)
    PROVE  StaysNear
<1>1. CASE UNCHANGED tableVars
  BY <1>1 DEF StaysNear, tableVars
<1>2. CASE __emi_hinsert(e) /\ ~UNCHANGED tableVars
  <2>. DEFINE h == emi_hash(e.msg)
  <2>1. PICK n \in FreeNode : msg_table' = [msg_table EXCEPT ![h] = <<n>> \o @]
    BY <1>2 DEF __emi_hinsert
  <2>2. TableTypeOK /\ n \in Node /\ h \in Bucket /\ msg_table[h] \in Seq(Node)
    BY HashType DEF TableInv, TableTypeOK, FreeNode, MsgMap
  <2>3. /\ DOMAIN msg_table[h] = 1 .. Len(msg_table[h])
        /\ DOMAIN msg_table'[h] = 1 .. Len(msg_table[h]) + 1
        /\ \A i \in DOMAIN msg_table'[h] :
              msg_table'[h][i] = IF i = 1 THEN n ELSE msg_table[h][i - 1]
    BY <2>1, <2>2, PushProperties DEF TableTypeOK
  <2>4. ASSUME NEW b \in Bucket, NEW i \in DOMAIN msg_table[b]
        PROVE  \E j \in {i - 1, i, i + 1} \cap DOMAIN msg_table'[b] :
                   msg_table'[b][j] = msg_table[b][i]
    <3>1. CASE b = h
      <4>1. /\ i + 1 \in DOMAIN msg_table'[h]
            /\ msg_table'[h][i + 1] = msg_table[h][i]
        BY <2>3, <2>4, <3>1
      <4>. QED BY <3>1, <4>1
    <3>2. CASE b # h
      BY <2>1, <2>2, <3>2 DEF TableTypeOK
    <3>. QED BY <3>1, <3>2
  <2>. QED BY <2>4 DEF StaysNear
<1>. QED BY <1>1, <1>2 DEF emi_hinsert

LEMMA DeleteShifts ==
    ASSUME TableInv, NEW e \in MsgMap, emi_hdelete(e)
    PROVE  StaysNear
<1>. DEFINE h == emi_hash(e.msg)
            same == Occurrences(msg_table[h], e)
            d == Min(same)
<1>1. CASE UNCHANGED tableVars
  BY <1>1 DEF StaysNear, tableVars
<1>2. CASE /\ same # {}
           /\ heap' = [heap EXCEPT ![msg_table[h][d]] = Freed]
           /\ msg_table' = [msg_table EXCEPT ![h] = RemoveAt(@, d)]
  <2>1. TableTypeOK /\ h \in Bucket /\ msg_table[h] \in Seq(Node)
    BY HashType DEF MsgMap, TableTypeOK, TableInv
  <2>2. d \in 1 .. Len(msg_table[h])
    <3>1. same \in SUBSET Nat /\ same # {} /\ same \subseteq 1 .. Len(msg_table[h])
      BY <1>2, <2>1 DEF Occurrences
    <3>. QED BY <3>1, MinProperties
  <2>. HIDE DEF d, same
  <2>3. /\ DOMAIN msg_table[h] = 1 .. Len(msg_table[h])
        /\ DOMAIN msg_table'[h] = 1 .. Len(msg_table[h]) - 1
        /\ \A i \in DOMAIN msg_table'[h] :
              msg_table'[h][i] = IF i < d THEN msg_table[h][i] ELSE msg_table[h][i + 1]
    <3>1. msg_table'[h] = RemoveAt(msg_table[h], d)
      BY <1>2, <2>1 DEF TableTypeOK
    <3>2. /\ msg_table'[h] \in Seq(Node)
          /\ Len(msg_table'[h]) = Len(msg_table[h]) - 1
          /\ \A i \in 1 .. Len(msg_table[h]) - 1 :
                msg_table'[h][i] = IF i < d THEN msg_table[h][i] ELSE msg_table[h][i + 1]
      BY <2>1, <2>2, <3>1, RemoveAtProperties
    <3>. QED BY <2>1, <3>2
  <2>4. heap'[msg_table[h][d]] # heap[msg_table[h][d]]
    BY <1>2, <2>1, <2>2, FreedAssumption DEF TableTypeOK, TableInv, NodesInPlace, MsgMap
  <2>5. ASSUME NEW b \in Bucket, NEW i \in DOMAIN msg_table[b],
               heap'[msg_table[b][i]] = heap[msg_table[b][i]]
        PROVE  \E j \in {i - 1, i, i + 1} \cap DOMAIN msg_table'[b] :
                   msg_table'[b][j] = msg_table[b][i]
    <3>1. CASE b = h
      <4>1. i \in 1 .. Len(msg_table[h]) /\ i # d
        BY <2>3, <2>4, <2>5, <3>1
      <4>2. CASE i < d
        <5>1. i \in DOMAIN msg_table'[h] /\ msg_table'[h][i] = msg_table[h][i]
          BY <2>2, <2>3, <4>1, <4>2
        <5>. QED BY <3>1, <5>1
      <4>3. CASE ~(i < d)
        <5>1. /\ i - 1 \in DOMAIN msg_table'[h]
              /\ msg_table'[h][i - 1] = msg_table[h][i]
          <6>1. i - 1 \in DOMAIN msg_table'[h] /\ ~(i - 1 < d) /\ (i - 1) + 1 = i
            BY <2>2, <2>3, <4>1, <4>3
          <6>. QED BY <2>3, <6>1
        <5>. QED BY <3>1, <5>1
      <4>. QED BY <4>2, <4>3
    <3>2. CASE b # h
      BY <1>2, <2>1, <3>2 DEF TableTypeOK
    <3>. QED BY <3>1, <3>2
  <2>. QED BY <2>5 DEF StaysNear
<1>. QED BY <1>1, <1>2 DEF emi_hdelete

\* What a loop that holds a place in a chain between two searches can miss or
\* see twice is bounded by the number of steps in between
\* (emi_core.c:425-431, msg_table.h:77-93).
THEOREM ChainsShiftByOneCorrect == TableSpec => ChainsShiftByOne
<1>1. TableInv /\ [TableNext]_tableVars => [StaysNear]_tableVars
  BY InsertShifts, DeleteShifts DEF TableNext, Insert, Delete
<1>. QED BY <1>1, TableInvCorrect, PTL DEF TableSpec, ChainsShiftByOne, StaysNear

-----------------------------------------------------------------------------
(* What the delivery loop sees                                              *)

\* A search that skips num nodes finds a node exactly if a match lies behind
\* them, and then the nearest one.
LEMMA SearchProperties ==
    ASSUME TableTypeOK, NEW k \in Msg, NEW num \in Nat,
           NEW i \in Matches(Chain(k), k), i > num
    PROVE  \E j \in Matches(Chain(k), k) :
              /\ num < j /\ j <= i
              /\ \A l \in Matches(Chain(k), k) : l > num => j <= l
              /\ __emi_hsearch(k, num) = Chain(k)[j]
              /\ __emi_hsearch(k, num) # NoNode
<1>. DEFINE found == {j \in Matches(Chain(k), k) : j > num}
<1>1. Chain(k) \in Seq(Node)
  BY HashType DEF Chain, TableTypeOK
<1>2. Matches(Chain(k), k) \subseteq 1 .. Len(Chain(k))
  BY <1>1 DEF Matches
<1>3. found # {} /\ found \subseteq Nat
  BY <1>2
<1>4. Min(found) \in found /\ \A j \in found : Min(found) <= j
  BY <1>3, MinProperties
<1>5. __emi_hsearch(k, num) = Chain(k)[Min(found)]
  BY <1>3 DEF __emi_hsearch
<1>6. Chain(k)[Min(found)] \in Node
  BY <1>1, <1>2, <1>4
<1>. HIDE DEF found
<1>7. Min(found) \in Matches(Chain(k), k) /\ num < Min(found)
  BY <1>2, <1>4 DEF found
<1>8. i \in found /\ \A l \in Matches(Chain(k), k) : l > num => l \in found
  BY DEF found
<1>. QED BY <1>4, <1>5, <1>6, <1>7, <1>8, NodeAssumption

LEMMA WalkProperties ==
    ASSUME TableTypeOK, NEW k \in Msg, NEW i \in Matches(Chain(k), k)
    PROVE  i - 1 \in Visits(k, Chain(k)[i])
<1>1. i \in 1 .. Len(Chain(k)) /\ Len(Chain(k)) \in Nat
  BY HashType DEF Matches, Chain, TableTypeOK
<1>2. ASSUME NEW num \in 0 .. i - 1 PROVE __emi_hsearch(k, num) # NoNode
  <2>1. num \in Nat /\ i > num
    BY <1>1
  <2>. QED BY <2>1, SearchProperties
<1>3. i - 1 \in Walk(k)
  BY <1>1, <1>2 DEF Walk
<1>4. __emi_hsearch(k, i - 1) = Chain(k)[i]
  <2>1. i - 1 \in Nat /\ i > i - 1
    BY <1>1
  <2>2. PICK j \in Matches(Chain(k), k) :
            /\ i - 1 < j /\ j <= i /\ __emi_hsearch(k, i - 1) = Chain(k)[j]
    BY <2>1, SearchProperties
  <2>3. j \in Nat
    BY HashType DEF Matches, Chain, TableTypeOK
  <2>4. j = i
    BY <1>1, <2>2, <2>3
  <2>. QED BY <2>2, <2>4
<1>. QED BY <1>3, <1>4 DEF Visits

\* The loop of emi_core.c:425 over an unchanging table visits every registrant
\* of the message, for every table that insertions and deletions can build and
\* however many other messages share the bucket.
THEOREM WalkReachesAllCorrect == TableSpec => []WalkReachesAll
<1>1. TableTypeOK => WalkReachesAll
  BY WalkProperties DEF WalkReachesAll
<1>. QED BY <1>1, TableTypeCorrect, PTL

\* Without collisions it visits each of them exactly once.
THEOREM WalkReachesOnceCorrect == TableSpec => []WalkReachesOnce
<1>1. TableInv => WalkReachesOnce
  <2>. SUFFICES ASSUME TableInv, NEW k \in Msg,
                       Matches(Chain(k), k) = DOMAIN Chain(k),
                       NEW i \in DOMAIN Chain(k)
       PROVE  Cardinality(Visits(k, Chain(k)[i])) = 1
    BY DEF WalkReachesOnce
  <2>1. TableTypeOK /\ i - 1 \in Visits(k, Chain(k)[i])
    BY WalkProperties DEF TableInv
  <2>2. Chain(k) \in Seq(Node)
    BY <2>1, HashType DEF Chain, TableTypeOK
  <2>3. ASSUME NEW num \in Visits(k, Chain(k)[i]) PROVE num = i - 1
    <3>1. /\ num \in 0 .. Len(Chain(k)) /\ __emi_hsearch(k, num) = Chain(k)[i]
          /\ __emi_hsearch(k, num) # NoNode
      BY <2>2 DEF Visits, Walk
    <3>2. num + 1 \in DOMAIN Chain(k)
      <4>1. {l \in Matches(Chain(k), k) : l > num} # {}
        BY <3>1 DEF __emi_hsearch
      <4>. QED BY <2>2, <3>1, <4>1
    <3>3. __emi_hsearch(k, num) = Chain(k)[num + 1]
      <4>1. num \in Nat /\ num + 1 > num
        BY <3>1
      <4>2. PICK j \in Matches(Chain(k), k) :
                /\ num < j /\ j <= num + 1 /\ __emi_hsearch(k, num) = Chain(k)[j]
        BY <2>1, <3>2, <4>1, SearchProperties
      <4>3. j = num + 1
        BY <2>2, <4>1, <4>2
      <4>. QED BY <4>2, <4>3
    <3>4. num + 1 = i
      BY <3>1, <3>2, <3>3, HashType DEF TableInv, MapsDiffer, Chain
    <3>. QED BY <2>2, <3>1, <3>4
  <2>4. Visits(k, Chain(k)[i]) = {i - 1}
    BY <2>1, <2>3
  <2>. QED BY <2>4, FS_Singleton
<1>. QED BY <1>1, TableInvCorrect, PTL

\* However it is used, the table loses no entry, frees none that is linked and has
\* each registration once (msg_table.h:130-197).
THEOREM TableSoundCorrect == TableSpec => []TableSound
BY TableIntactCorrect, NoDuplicateEntriesCorrect, PTL DEF TableSound

\* The delivery loop reaches each entry of a message, and without collisions
\* reaches it once (emi_core.c:425-471).
THEOREM WalkReachesEachCorrect == TableSpec => []WalkReachesEach
BY WalkReachesAllCorrect, WalkReachesOnceCorrect, PTL DEF WalkReachesEach
=============================================================================
