--------------------------- MODULE FuncListProofs ---------------------------
(***************************************************************************)
(* Proofs about FuncList, for any number of messages, functions and nodes. *)
(*                                                                         *)
(* Until it is misused, the list is a ring of HEAD and the nodes of a      *)
(* sequence s (Ring): followed forwards it is whole at every write, and    *)
(* backwards it misses what the call in progress has still to write        *)
(* (Behind).  The nodes of s are the allocated ones, but for one that is   *)
(* not yet or no longer in the list (Memory).  The process's pointers and  *)
(* the handler's are places in s (Caller, Walker), and no node before the  *)
(* process's is one that it is looking for.                                *)
(*                                                                         *)
(* s is pushed to by AddPublish and cut by DelNext and by a function that  *)
(* unregisters itself, and nothing else changes it: the two writes are     *)
(* where FuncRegistry's operations happen.                                 *)
(***************************************************************************)
EXTENDS FuncList, SequenceTheorems, FiniteSetTheorems, WellFoundedInduction, TLAPS

-----------------------------------------------------------------------------
(* Chain follows a recursion, of which there is no induction to be had here: *)
(* two functions that satisfy it differ nowhere first.                       *)

LEMMA LeastNatural ==
    ASSUME NEW S \in SUBSET Nat, S # {}
    PROVE  \E m \in S : \A i \in S : m <= i
<1>. DEFINE Less == {q \in Nat \X Nat : q[1] < q[2]}
<1>1. IsWellFoundedOn(Less, Nat)
  BY NatLessThanWellFounded DEF OpToRel
<1>2. PICK m \in S : \A i \in S : ~(<<i, m>> \in Less)
  BY <1>1, WFMin
<1>3. \A i \in S : i < m => <<i, m>> \in Less
  OBVIOUS
<1>. HIDE DEF Less
<1>4. \A i \in S : ~(i < m)
  BY <1>2, <1>3
<1>5. \A i \in S : m <= i
  BY <1>4
<1>. QED BY <1>5

\* The cell in place i of the ring that HEAD and the nodes of s make.
At(s, i) == IF i \in 1..Len(s) THEN s[i] ELSE HEAD

Injective(s) == \A i, j \in 1..Len(s) : s[i] = s[j] => i = j

LEMMA AtType ==
    ASSUME NEW s \in Seq(Node), NEW i \in Int
    PROVE  /\ At(s, i) \in Cell
           /\ At(s, i) \in Node <=> i \in 1..Len(s)
           /\ i \in 1..Len(s) => At(s, i) = s[i] /\ s[i] \in Node
           /\ i \notin 1..Len(s) => At(s, i) = HEAD
BY HeadAssumption DEF At, Cell

LEMMA ShortList ==
    ASSUME NEW s \in Seq(Node), Injective(s)
    PROVE  /\ Cardinality(Node) \in Nat
           /\ Len(s) <= Cardinality(Node)
           /\ Cardinality({s[i] : i \in 1..Len(s)}) = Len(s)
<1>1. IsFiniteSet(Node) /\ Cardinality(Node) \in Nat
  BY NodeAssumption, FS_CardinalityType
<1>. DEFINE I == 1..Len(s)
           R == {s[i] : i \in I}
<1>2. Len(s) \in Nat
  OBVIOUS
<1>3. IsFiniteSet(I) /\ Cardinality(I) = Len(s)
  BY <1>2, FS_Interval
<1>4. [i \in I |-> s[i]] \in Bijection(I, R)
  BY DEF Injective, Bijection, Injection, Surjection, IsInjective
<1>5. Cardinality(R) = Cardinality(I)
  BY <1>3, <1>4, FS_Bijection DEF ExistsBijection
<1>6. R \in SUBSET Node
  OBVIOUS
<1>7. Cardinality(R) <= Cardinality(Node)
  BY <1>1, <1>6, FS_Subset
<1>. QED BY <1>1, <1>3, <1>5, <1>7

\* The walk of Chain over the links nx.
WalkIn(nx, c) ==
    CHOOSE w : w = [i \in 0..Cardinality(Node) |->
                       IF i = 0 THEN c
                       ELSE IF w[i - 1] \in Node THEN nx[w[i - 1]] ELSE w[i - 1]]

ChainIn(nx, c) ==
    LET w == WalkIn(nx, c)
    IN  [i \in 1..Cardinality({j \in DOMAIN w : w[j] \in Node}) |-> w[i - 1]]

LEMMA ChainWalk == \A c : Chain(c) = ChainIn(next, c)
BY DEF Chain, ChainIn, WalkIn

LEMMA ChainWalkPrimed == \A c : Chain(c)' = ChainIn(next', c')
BY DEF Chain, ChainIn, WalkIn

\* s is what there is from its first node to the head over the links nx.
Linked(nx, s) == \A i \in 1..Len(s) : nx[s[i]] = At(s, i + 1)

\* Chain finds the list, wherever it is called.
LEMMA ChainIs ==
    ASSUME NEW nx, NEW s \in Seq(Node), Injective(s), Linked(nx, s)
    PROVE  ChainIn(nx, At(s, 1)) = s
<1>. DEFINE K == Cardinality(Node)
           c == At(s, 1)
           f == [i \in 0..K |-> At(s, i + 1)]
           Rec(w) == [i \in 0..K |->
                        IF i = 0 THEN c
                        ELSE IF w[i - 1] \in Node THEN nx[w[i - 1]] ELSE w[i - 1]]
<1>1. /\ K \in Nat
      /\ Len(s) \in Nat
      /\ Len(s) <= K
  <2>1. Len(s) \in Nat
    OBVIOUS
  <2>. QED BY <2>1, ShortList
<1>. HIDE DEF K
<1>2. f = Rec(f)
  <2>. SUFFICES ASSUME NEW i \in 0..K PROVE f[i] = Rec(f)[i]
    OBVIOUS
  <2>1. CASE i = 0
    BY <2>1
  <2>2. CASE i # 0
    <3>1. i - 1 \in 0..K /\ f[i - 1] = At(s, i) /\ f[i] = At(s, i + 1)
      BY <2>2, <1>1
    <3>2. CASE i \in 1..Len(s)
      BY <3>1, <3>2, <2>2, AtType DEF Linked
    <3>3. CASE i \notin 1..Len(s)
      <4>1. i + 1 \notin 1..Len(s)
        BY <3>3, <2>2, <1>1
      <4>2. f[i - 1] = HEAD /\ f[i] = HEAD
        BY <3>1, <3>3, <4>1 DEF At
      <4>. QED BY <4>2, <3>1, <2>2, HeadAssumption
    <3>. QED BY <3>2, <3>3
  <2>. QED BY <2>1, <2>2
<1>. DEFINE w == WalkIn(nx, c)
<1>3. w = Rec(w)
  BY <1>2 DEF WalkIn, K
<1>. HIDE DEF f, w, c
<1>4. w = f
  <2>. DEFINE D == {i \in 0..K : w[i] # f[i]}
  <2>1. D = {}
    <3>. SUFFICES ASSUME D # {} PROVE FALSE
      OBVIOUS
    <3>0. D \in SUBSET Nat
      BY <1>1
    <3>1. PICK m \in D : \A i \in D : m <= i
      <4>. HIDE DEF D
      <4>. QED BY <3>0, LeastNatural
    <3>2. w[m] = Rec(w)[m] /\ f[m] = Rec(f)[m]
      BY <1>2, <1>3
    <3>3. CASE m = 0
      BY <3>1, <3>2, <3>3
    <3>4. CASE m # 0
      <4>1. m - 1 \in 0..K /\ m - 1 \notin D
        BY <3>1, <3>4, <1>1
      <4>2. w[m - 1] = f[m - 1]
        BY <4>1
      <4>. QED BY <3>1, <3>2, <3>4, <4>2
    <3>. QED BY <3>3, <3>4
  <2>2. \A i \in 0..K : w[i] = f[i]
    BY <2>1
  <2>3. w = [i \in 0..K |-> w[i]] /\ f = [i \in 0..K |-> f[i]]
    BY <1>2, <1>3
  <2>. QED BY <2>2, <2>3
<1>5. DOMAIN f = 0..K /\ \A i \in 0..K : f[i] = At(s, i + 1)
  BY DEF f
<1>6. {j \in DOMAIN f : f[j] \in Node} = 0..(Len(s) - 1)
  <2>1. \A j \in 0..K : f[j] \in Node <=> j + 1 \in 1..Len(s)
    BY <1>1, <1>5, AtType
  <2>. QED BY <2>1, <1>1, <1>5
<1>7. Cardinality(0..(Len(s) - 1)) = Len(s)
  <2>1. 0 \in Int /\ Len(s) - 1 \in Int
    BY <1>1
  <2>2. Cardinality(0..(Len(s) - 1)) = IF 0 > Len(s) - 1 THEN 0 ELSE Len(s) - 1 - 0 + 1
    BY ONLY <2>1, FS_Interval
  <2>. QED BY <1>1, <2>2
<1>8. ChainIn(nx, c) = [i \in 1..Len(s) |-> f[i - 1]]
  BY <1>4, <1>6, <1>7 DEF ChainIn, w
<1>9. \A i \in 1..Len(s) : f[i - 1] = s[i]
  BY <1>1, <1>5 DEF At
<1>10. s = [i \in 1..Len(s) |-> s[i]]
  OBVIOUS
<1>. QED BY <1>8, <1>9, <1>10 DEF c

-----------------------------------------------------------------------------
(* The inductive invariant: until the list is misused, it is a ring of HEAD  *)
(* and the nodes of a sequence, but for what the call in progress has still  *)
(* to write.                                                                 *)

NodesOf(s) == {s[i] : i \in 1..Len(s)}

\* The node of the call in progress is allocated and in no list: not yet, or
\* not any more.
Loose == mpc \in {"add", "fill", "publish", "free"}

Registering == mpc \in {"add", "fill", "publish"}
Unlinking   == mpc \in {"del", "unlink"}

\* What the cell in place i + 1 has for the one before it.
Behind(s, i) ==
    IF i = 0 /\ mpc \in {"fill", "publish"} THEN new
    ELSE IF mpc = "unlink" /\ At(s, i) = new THEN p
    ELSE At(s, i)

TypeOK ==
    /\ next \in [Cell -> Cell \cup {NULL}]
    /\ prev \in [Cell -> Cell \cup {NULL}]
    /\ fl \in [Node -> Entry \cup {NULL}]
    /\ alloc \in SUBSET Node
    /\ hpc = "walk" => shmsg \in [msg : Msg, block_return : BOOLEAN]

Ring(s) ==
    /\ Injective(s)
    /\ \A i \in 0..Len(s) : next[At(s, i)] = At(s, i + 1)
    /\ \A i \in 0..Len(s) : prev[At(s, i + 1)] = Behind(s, i)
    /\ \A i \in 1..Len(s) : fl[s[i]] \in Entry

Memory(s) ==
    /\ alloc = NodesOf(s) \cup (IF Loose THEN {new} ELSE {})
    /\ Loose => new \in Node \ NodesOf(s)

NoneBefore(s, j) == \A i \in 1..(j - 1) : ~Matches(s[i])

\* Where the process is in the list.
Caller(s) ==
    /\ Registering => p = HEAD /\ n = At(s, 1) /\ fl[new] \in Entry
    /\ mpc = "publish" => next[new] = n /\ prev[new] = p
    /\ mpc = "unregister" =>
          \E j \in 1..(Len(s) + 1) : new = At(s, j) /\ NoneBefore(s, j)
    /\ Unlinking =>
          \E j \in 1..Len(s) :
             /\ new = s[j] /\ p = At(s, j - 1) /\ n = At(s, j + 1)
             /\ Matches(new) /\ NoneBefore(s, j)

\* Where its handler is.
Walker(s) == hpc = "walk" => \E j \in 1..(Len(s) + 1) : lh = At(s, j)

ListAt(s) == ~stray /\ TypeOK /\ Ring(s) /\ Memory(s) /\ Caller(s) /\ Walker(s)

ListInv == ~misused => \E s \in Seq(Node) : ListAt(s)
-----------------------------------------------------------------------------
(* Sequences of nodes                                                        *)

LEMMA PlacesApart ==
    ASSUME NEW s \in Seq(Node), Injective(s)
    PROVE  /\ \A i, j \in 0..Len(s) : At(s, i) = At(s, j) => i = j
           /\ \A i, j \in 1..(Len(s) + 1) : At(s, i) = At(s, j) => i = j
<1>1. Len(s) \in Nat /\ \A i \in 1..Len(s) : s[i] \in Node
  OBVIOUS
<1>2. ASSUME NEW i \in 0..(Len(s) + 1), NEW j \in 0..(Len(s) + 1), At(s, i) = At(s, j)
      PROVE  i = j \/ (i \notin 1..Len(s) /\ j \notin 1..Len(s))
  BY <1>1, <1>2, HeadAssumption DEF At, Injective
<1>3. ASSUME NEW i \in 0..Len(s), NEW j \in 0..Len(s), At(s, i) = At(s, j)
      PROVE  i = j
  <2>1. i \in 0..(Len(s) + 1) /\ j \in 0..(Len(s) + 1)
    BY <1>1
  <2>. QED BY <1>1, <1>2, <1>3, <2>1
<1>4. ASSUME NEW i \in 1..(Len(s) + 1), NEW j \in 1..(Len(s) + 1), At(s, i) = At(s, j)
      PROVE  i = j
  <2>1. i \in 0..(Len(s) + 1) /\ j \in 0..(Len(s) + 1)
    BY <1>1
  <2>. QED BY <1>1, <1>2, <1>4, <2>1
<1>. QED BY <1>3, <1>4

Pushed(s, c) == [i \in 1..(Len(s) + 1) |-> IF i = 1 THEN c ELSE s[i - 1]]

LEMMA PushedIs ==
    ASSUME NEW s \in Seq(Node), Injective(s), NEW c \in Node \ NodesOf(s),
           NEW t, t = Pushed(s, c)
    PROVE  /\ t \in Seq(Node) /\ Len(t) = Len(s) + 1
           /\ Injective(t)
           /\ NodesOf(t) = NodesOf(s) \cup {c}
           /\ At(t, 0) = HEAD /\ At(t, 1) = c
           /\ \A i \in 1..(Len(s) + 1) : At(t, i + 1) = At(s, i)
<1>1. Len(s) \in Nat /\ \A i \in 1..Len(s) : s[i] \in Node
  OBVIOUS
<1>2. /\ t \in Seq(Node)
      /\ Len(t) = Len(s) + 1
      /\ t[1] = c
      /\ \A i \in 1..Len(s) : t[i + 1] = s[i]
      /\ \A i \in 2..(Len(s) + 1) : t[i] = s[i - 1] /\ i - 1 \in 1..Len(s)
  BY <1>1 DEF Pushed
<1>3. \A i \in 1..Len(s) : c # s[i]
  BY DEF NodesOf
<1>4. Injective(t)
  <2>. SUFFICES ASSUME NEW i \in 1..Len(t), NEW j \in 1..Len(t), t[i] = t[j]
                PROVE  i = j
    BY DEF Injective
  <2>1. i = 1 \/ i \in 2..(Len(s) + 1)
    BY <1>1, <1>2
  <2>2. j = 1 \/ j \in 2..(Len(s) + 1)
    BY <1>1, <1>2
  <2>3. CASE i = 1 \/ j = 1
    BY <1>2, <1>3, <2>1, <2>2, <2>3
  <2>4. CASE i # 1 /\ j # 1
    <3>1. i - 1 \in 1..Len(s) /\ j - 1 \in 1..Len(s) /\ s[i - 1] = s[j - 1]
      BY <1>2, <2>1, <2>2, <2>4
    <3>2. i - 1 = j - 1
      BY <3>1 DEF Injective
    <3>. QED BY <3>2, <2>1, <2>2, <1>1
  <2>. QED BY <2>3, <2>4
<1>5. NodesOf(t) = NodesOf(s) \cup {c}
  <2>1. \A i \in 1..Len(t) : t[i] \in NodesOf(s) \cup {c}
    <3>. TAKE i \in 1..Len(t)
    <3>1. i = 1 \/ i \in 2..(Len(s) + 1)
      BY <1>1, <1>2
    <3>. QED BY <3>1, <1>2 DEF NodesOf
  <2>2. c \in NodesOf(t)
    <3>1. 1 \in 1..Len(t)
      BY <1>1, <1>2
    <3>. QED BY <3>1, <1>2 DEF NodesOf
  <2>3. \A i \in 1..Len(s) : s[i] \in NodesOf(t)
    <3>. TAKE i \in 1..Len(s)
    <3>1. i + 1 \in 1..Len(t)
      BY <1>1, <1>2
    <3>. QED BY <3>1, <1>2 DEF NodesOf
  <2>. QED BY <2>1, <2>2, <2>3 DEF NodesOf
<1>6. At(t, 0) = HEAD /\ At(t, 1) = c
  BY <1>1, <1>2 DEF At
<1>7. ASSUME NEW i \in 1..(Len(s) + 1)
      PROVE  At(t, i + 1) = At(s, i)
  BY <1>1, <1>2 DEF At
<1>. QED BY <1>2, <1>4, <1>5, <1>6, <1>7

Cut(s, j) == [i \in 1..(Len(s) - 1) |-> IF i < j THEN s[i] ELSE s[i + 1]]

LEMMA CutIs ==
    ASSUME NEW s \in Seq(Node), Injective(s), NEW j \in 1..Len(s),
           NEW t, t = Cut(s, j)
    PROVE  /\ t \in Seq(Node) /\ Len(t) = Len(s) - 1
           /\ Injective(t)
           /\ NodesOf(t) = NodesOf(s) \ {s[j]}
           /\ \A i \in 0..(j - 1) : At(t, i) = At(s, i)
           /\ \A i \in j..Len(s) : At(t, i) = At(s, i + 1)
<1>1. Len(s) \in Nat /\ \A i \in 1..Len(s) : s[i] \in Node
  OBVIOUS
<1>2. /\ t \in Seq(Node)
      /\ Len(t) = Len(s) - 1
      /\ \A i \in 1..Len(t) : t[i] = IF i < j THEN s[i] ELSE s[i + 1]
  BY <1>1 DEF Cut
<1>3. Injective(t)
  BY <1>1, <1>2 DEF Injective
<1>4. NodesOf(t) = NodesOf(s) \ {s[j]}
  <2>1. ASSUME NEW i \in 1..Len(t)
        PROVE  t[i] \in NodesOf(s) \ {s[j]}
    <3>1. CASE i < j
      BY <3>1, <1>1, <1>2 DEF NodesOf, Injective
    <3>2. CASE ~(i < j)
      <4>1. t[i] = s[i + 1] /\ i + 1 \in 1..Len(s) /\ i + 1 # j
        BY <3>2, <1>1, <1>2
      <4>. QED BY <4>1 DEF NodesOf, Injective
    <3>. QED BY <3>1, <3>2
  <2>2. ASSUME NEW i \in 1..Len(s), i # j
        PROVE  s[i] \in NodesOf(t)
    <3>1. CASE i < j
      <4>1. i \in 1..Len(t) /\ t[i] = s[i]
        BY <3>1, <1>1, <1>2
      <4>. QED BY <4>1 DEF NodesOf
    <3>2. CASE ~(i < j)
      <4>1. i - 1 \in 1..Len(t) /\ t[i - 1] = s[i]
        BY <3>2, <2>2, <1>1, <1>2
      <4>. QED BY <4>1 DEF NodesOf
    <3>. QED BY <3>1, <3>2
  <2>. QED BY <2>1, <2>2 DEF NodesOf
<1>5. ASSUME NEW i \in 0..(j - 1)
      PROVE  At(t, i) = At(s, i)
  BY <1>1, <1>2 DEF At
<1>6. ASSUME NEW i \in j..Len(s)
      PROVE  At(t, i) = At(s, i + 1)
  BY <1>1, <1>2 DEF At
<1>. QED BY <1>2, <1>3, <1>4, <1>5, <1>6

-----------------------------------------------------------------------------
(* One lemma for each action: what the list is after it                      *)

\* The actions that change neither the list nor the walk.
LEMMA RingFrame ==
    ASSUME NEW s \in Seq(Node), Ring(s), next' = next, prev' = prev, fl' = fl,
           \A i \in 0..Len(s) : Behind(s, i)' = Behind(s, i)
    PROVE  Ring(s)'
BY DEF Ring, At, Injective

LEMMA InitList == Init => ListAt(<<>>)
<1>. SUFFICES ASSUME Init PROVE ListAt(<<>>)
  OBVIOUS
<1>1. \A i : At(<<>>, i) = HEAD
  BY DEF At
<1>2. TypeOK
  BY HeadAssumption DEF Init, TypeOK, Cell
<1>3. \A i : Behind(<<>>, i) = HEAD
  BY <1>1 DEF Init, Behind
<1>4. Ring(<<>>)
  BY <1>1, <1>3 DEF Init, Ring, Injective, Cell
<1>5. Memory(<<>>)
  BY DEF Init, Memory, NodesOf, Loose
<1>6. Caller(<<>>) /\ Walker(<<>>) /\ ~stray
  BY DEF Init, Caller, Walker, Registering, Unlinking
<1>. QED BY <1>2, <1>4, <1>5, <1>6 DEF ListAt

LEMMA RegisterList ==
    ASSUME NEW s \in Seq(Node), ListAt(s), NEW e \in Entry, emi_msg_register(e)
    PROVE  ListAt(s)'
<1>. USE DEF ListAt, emi_msg_register, Main, MainDone, Defined, handVars
<1>1. PICK c \in Node \ alloc :
          /\ alloc' = alloc \cup {c}
          /\ fl' = [fl EXCEPT ![c] = e]
          /\ next' = [next EXCEPT ![c] = NULL]
          /\ prev' = [prev EXCEPT ![c] = NULL]
          /\ new' = c
  OBVIOUS
<1>2. alloc = NodesOf(s) /\ c \notin NodesOf(s) /\ c # HEAD
  BY HeadAssumption DEF Memory, Loose
<1>3. \A i \in Int : At(s, i) # c
  BY <1>2 DEF At, NodesOf
<1>4. TypeOK'
  BY <1>1 DEF TypeOK, Cell
<1>5. Ring(s)'
  <2>1. Len(s) \in Nat
    OBVIOUS
  <2>2. \A i \in 0..Len(s) : Behind(s, i)' = Behind(s, i)
    BY DEF Behind, At
  <2>3. \A i \in 0..Len(s) : next'[At(s, i)] = next[At(s, i)] /\ prev'[At(s, i + 1)] = prev[At(s, i + 1)]
    BY <1>1, <1>3, AtType DEF TypeOK
  <2>4. \A i \in 1..Len(s) : fl'[s[i]] = fl[s[i]]
    BY <1>1, <1>2 DEF TypeOK, NodesOf
  <2>. QED BY <2>1, <2>2, <2>3, <2>4 DEF Ring, Injective, At
<1>6. Memory(s)'
  BY <1>1, <1>2 DEF Memory, Loose, NodesOf
<1>7. Caller(s)'
  <2>1. n' = At(s, 1)
    <3>1. next[At(s, 0)] = At(s, 1) /\ At(s, 0) = HEAD
      BY DEF Ring, At
    <3>. QED BY <3>1
  <2>2. fl'[new'] \in Entry
    BY <1>1 DEF TypeOK
  <2>. QED BY <2>1, <2>2 DEF Caller, Registering, Unlinking, At
<1>8. Walker(s)' /\ ~stray'
  BY DEF Walker
<1>. QED BY <1>4, <1>5, <1>6, <1>7, <1>8

LEMMA AddFirstList ==
    ASSUME NEW s \in Seq(Node), ListAt(s), AddFirst
    PROVE  ListAt(s)'
<1>. USE DEF ListAt, AddFirst, Main, MainDone, Defined, handVars
<1>1. n = At(s, 1) /\ n \in Cell
  BY AtType DEF Caller, Registering
<1>2. new \in Node \ NodesOf(s) /\ new # HEAD
  BY HeadAssumption DEF Memory, Loose
<1>3. TypeOK'
  BY <1>1, <1>2 DEF TypeOK, Cell
<1>4. Ring(s)'
  <2>1. \A i \in 0..Len(s) :
           Behind(s, i)' = IF i = 0 THEN new ELSE Behind(s, i)
    BY DEF Behind, At
  <2>2. \A i \in 0..Len(s) : prev'[At(s, i + 1)] = IF i = 0 THEN new ELSE prev[At(s, i + 1)]
    <3>. TAKE i \in 0..Len(s)
    <3>1. At(s, i + 1) = At(s, 1) <=> i = 0
      <4>1. i + 1 \in 1..(Len(s) + 1) /\ 1 \in 1..(Len(s) + 1)
        OBVIOUS
      <4>. QED BY <4>1, PlacesApart DEF Ring
    <3>2. At(s, i + 1) \in Cell
      BY AtType
    <3>. QED BY <3>1, <3>2, <1>1 DEF TypeOK
  <2>. QED BY <2>1, <2>2 DEF Ring, Injective, At
<1>5. Memory(s)'
  BY DEF Memory, Loose, NodesOf
<1>6. Caller(s)'
  BY DEF Caller, Registering, Unlinking, At
<1>7. Walker(s)' /\ ~stray'
  <2>1. Live(n)
    <3>1. n = HEAD \/ n \in NodesOf(s)
      BY <1>1 DEF At, NodesOf
    <3>. QED BY <3>1 DEF Live, Memory
  <2>. QED BY <2>1 DEF Walker, At
<1>. QED BY <1>3, <1>4, <1>5, <1>6, <1>7

LEMMA AddFillList ==
    ASSUME NEW s \in Seq(Node), ListAt(s), AddFill
    PROVE  ListAt(s)'
<1>. USE DEF ListAt, AddFill, Main, MainDone, Defined, handVars
<1>1. p = HEAD /\ n = At(s, 1) /\ n \in Cell
  BY AtType DEF Caller, Registering
<1>2. new \in Node \ NodesOf(s) /\ new # HEAD
  BY HeadAssumption DEF Memory, Loose
<1>3. \A i \in Int : At(s, i) # new
  BY <1>2 DEF At, NodesOf
<1>4. TypeOK'
  BY <1>1, <1>2 DEF TypeOK, Cell
<1>5. Ring(s)'
  <2>1. \A i \in 0..Len(s) : Behind(s, i)' = Behind(s, i)
    BY DEF Behind, At
  <2>2. \A i \in 0..Len(s) : next'[At(s, i)] = next[At(s, i)] /\ prev'[At(s, i + 1)] = prev[At(s, i + 1)]
    BY <1>3, AtType DEF TypeOK
  <2>. QED BY <2>1, <2>2 DEF Ring, Injective, At
<1>6. Memory(s)'
  BY DEF Memory, Loose, NodesOf
<1>7. Caller(s)'
  <2>1. next'[new] = n /\ prev'[new] = p
    BY <1>2 DEF TypeOK, Cell
  <2>. QED BY <2>1 DEF Caller, Registering, Unlinking, At
<1>8. Walker(s)' /\ ~stray'
  BY DEF Walker, At
<1>. QED BY <1>4, <1>5, <1>6, <1>7, <1>8

LEMMA AddPublishList ==
    ASSUME NEW s \in Seq(Node), ListAt(s), AddPublish, NEW t, t = Pushed(s, new)
    PROVE  ListAt(t)'
<1>. USE DEF ListAt, AddPublish, Main, MainDone, Defined, handVars
<1>1. /\ p = HEAD /\ n = At(s, 1) /\ fl[new] \in Entry
      /\ next[new] = n /\ prev[new] = p
  BY DEF Caller, Registering
<1>2. new \in Node \ NodesOf(s) /\ new # HEAD
  BY HeadAssumption DEF Memory, Loose
<1>3. Len(s) \in Nat
  OBVIOUS
<1>4. /\ t \in Seq(Node) /\ Len(t) = Len(s) + 1
      /\ Injective(t)
      /\ NodesOf(t) = NodesOf(s) \cup {new}
      /\ At(t, 0) = HEAD /\ At(t, 1) = new
      /\ \A i \in 1..(Len(s) + 1) : At(t, i + 1) = At(s, i)
  BY <1>2, PushedIs DEF Ring
<1>5. TypeOK'
  BY <1>1, <1>2 DEF TypeOK, Cell
<1>6. Ring(t)'
  <2>1. next' = [next EXCEPT ![HEAD] = new]
    BY <1>1
  <2>2. \A i \in 0..Len(t) : next'[At(t, i)] = At(t, i + 1)
    <3>. TAKE i \in 0..Len(t)
    <3>1. CASE i = 0
      BY <2>1, <3>1, <1>4 DEF TypeOK, Cell
    <3>2. CASE i = 1
      <4>1. next'[new] = n /\ At(t, 2) = At(s, 1)
        BY <2>1, <1>1, <1>2, <1>3, <1>4 DEF TypeOK, Cell
      <4>. QED BY <4>1, <3>2, <1>1, <1>4
    <3>3. CASE i > 1
      <4>1. i - 1 \in 1..Len(s) /\ i - 1 \in 0..Len(s) /\ i \in 1..(Len(s) + 1)
        BY <3>3, <1>3, <1>4
      <4>2. At(t, i) = At(s, i - 1) /\ At(t, i + 1) = At(s, i)
        BY <4>1, <1>4
      <4>3. next[At(s, i - 1)] = At(s, i)
        BY <4>1 DEF Ring
      <4>4. At(s, i - 1) # HEAD /\ At(s, i - 1) \in Cell
        BY <4>1, AtType, HeadAssumption
      <4>. QED BY <4>2, <4>3, <4>4, <2>1 DEF TypeOK
    <3>. QED BY <3>1, <3>2, <3>3, <1>3, <1>4
  <2>3. \A i \in 0..Len(t) : prev'[At(t, i + 1)] = Behind(t, i)'
    <3>. TAKE i \in 0..Len(t)
    <3>0. Behind(t, i)' = At(t, i)
      BY DEF Behind, At
    <3>1. CASE i = 0
      BY <3>0, <3>1, <1>1, <1>4
    <3>2. CASE i = 1
      <4>1. prev[At(s, 1)] = Behind(s, 0) /\ Behind(s, 0) = new
        BY <1>3 DEF Ring, Behind
      <4>. QED BY <3>0, <4>1, <3>2, <1>3, <1>4
    <3>3. CASE i > 1
      <4>1. i - 1 \in 1..Len(s) /\ i - 1 \in 0..Len(s) /\ i \in 1..(Len(s) + 1)
        BY <3>3, <1>3, <1>4
      <4>2. At(t, i) = At(s, i - 1) /\ At(t, i + 1) = At(s, i)
        BY <4>1, <1>4
      <4>3. prev[At(s, i)] = Behind(s, i - 1) /\ Behind(s, i - 1) = At(s, i - 1)
        BY <4>1 DEF Ring, Behind
      <4>. QED BY <3>0, <4>2, <4>3
    <3>. QED BY <3>1, <3>2, <3>3, <1>3, <1>4
  <2>4. \A i \in 1..Len(t) : fl'[t[i]] \in Entry
    <3>. TAKE i \in 1..Len(t)
    <3>1. t[i] \in NodesOf(t)
      BY DEF NodesOf
    <3>. QED BY <3>1, <1>1, <1>4 DEF Ring, NodesOf
  <2>. QED BY <2>2, <2>3, <2>4, <1>4 DEF Ring, Injective, At
<1>7. Memory(t)'
  BY <1>4 DEF Memory, Loose, NodesOf
<1>8. Caller(t)'
  BY DEF Caller, Registering, Unlinking
<1>9. Walker(t)' /\ ~stray'
  BY DEF Walker
<1>. QED BY <1>5, <1>6, <1>7, <1>8, <1>9

LEMMA SigactionList ==
    ASSUME NEW s \in Seq(Node), ListAt(s), Sigaction
    PROVE  ListAt(s)'
<1>. USE DEF ListAt, Sigaction, Main, Defined, handVars, listVars
<1>1. TypeOK'
  BY DEF TypeOK
<1>2. Ring(s)'
  BY RingFrame DEF Behind, At
<1>3. Memory(s)'
  BY DEF Memory, Loose, NodesOf
<1>4. Caller(s)' /\ Walker(s)' /\ ~stray'
  BY DEF Caller, Walker, Registering, Unlinking
<1>. QED BY <1>1, <1>2, <1>3, <1>4

LEMMA UnregisterList ==
    ASSUME NEW s \in Seq(Node), ListAt(s),
           NEW k \in Msg, NEW func \in Func \cup {NULL}, emi_msg_unregister(k, func)
    PROVE  ListAt(s)'
<1>. USE DEF ListAt, emi_msg_unregister, Main, Defined, handVars, listVars
<1>1. TypeOK'
  BY DEF TypeOK
<1>2. Ring(s)'
  BY RingFrame DEF Behind, At
<1>3. Memory(s)'
  BY DEF Memory, Loose, NodesOf
<1>4. Caller(s)'
  <2>1. new' = At(s, 1) /\ 1 \in 1..(Len(s) + 1)
    <3>1. 0 \in 0..Len(s) /\ At(s, 0) = HEAD
      BY DEF At
    <3>. QED BY <3>1 DEF Ring
  <2>2. NoneBefore(s, 1)'
    BY DEF NoneBefore
  <2>. QED BY <2>1, <2>2 DEF Caller, Registering, Unlinking, At
<1>5. Walker(s)' /\ ~stray'
  BY DEF Walker
<1>. QED BY <1>1, <1>2, <1>3, <1>4, <1>5

LEMMA UnregisterTurnList ==
    ASSUME NEW s \in Seq(Node), ListAt(s), UnregisterTurn
    PROVE  ListAt(s)'
<1>. USE DEF ListAt, UnregisterTurn, Main, Defined, handVars, listVars
<1>1. PICK j \in 1..(Len(s) + 1) : new = At(s, j) /\ NoneBefore(s, j)
  BY DEF Caller
<1>2. Len(s) \in Nat
  OBVIOUS
<1>3. TypeOK'
  BY DEF TypeOK
<1>4. Walker(s)'
  BY DEF Walker
<1>5. CASE new = HEAD
  <2>1. Return /\ stray' = stray
    BY <1>5, HeadAssumption DEF TypeOK
  <2>2. Ring(s)'
    BY <2>1, RingFrame DEF Behind, At, Return
  <2>3. Memory(s)'
    BY <2>1 DEF Memory, Loose, NodesOf, Return
  <2>4. Caller(s)' /\ ~stray'
    BY <2>1 DEF Caller, Registering, Unlinking, Return
  <2>. QED BY <1>3, <1>4, <2>2, <2>3, <2>4
<1>6. CASE new # HEAD
  <2>1. j \in 1..Len(s) /\ j \in 0..Len(s) /\ j - 1 \in 0..Len(s) /\ new = s[j]
    BY <1>1, <1>2, <1>6 DEF At
  <2>2. Live(new)
    BY <2>1 DEF Live, Memory, NodesOf
  <2>3. next[new] = At(s, j + 1)
    BY <1>1, <2>1 DEF Ring
  <2>4. prev[new] = At(s, j - 1)
    <3>1. prev[At(s, (j - 1) + 1)] = Behind(s, j - 1)
      BY <2>1 DEF Ring
    <3>2. (j - 1) + 1 = j /\ Behind(s, j - 1) = At(s, j - 1)
      BY DEF Behind
    <3>. QED BY <3>1, <3>2, <1>1
  <2>5. CASE ~Matches(new)
    <3>1. new' = next[new] /\ UNCHANGED <<mpc, arg, p, n, stray>>
      BY <1>6, <2>2, <2>5
    <3>2. Ring(s)'
      BY <3>1, RingFrame DEF Behind, At
    <3>3. Memory(s)'
      BY <3>1 DEF Memory, Loose, NodesOf
    <3>4. new' = At(s, j + 1) /\ j + 1 \in 1..(Len(s) + 1)
      BY <3>1, <2>1, <2>3, <1>2
    <3>5. NoneBefore(s, j + 1)'
      <4>1. ASSUME NEW i \in 1..j PROVE ~Matches(s[i])'
        <5>1. i \in 1..(j - 1) \/ i = j
          BY <1>2
        <5>2. ~Matches(s[i])
          BY <5>1, <2>1, <2>5, <1>1 DEF NoneBefore
        <5>. QED BY <5>2, <3>1 DEF Matches
      <4>2. (j + 1) - 1 = j
        OBVIOUS
      <4>. QED BY <4>1, <4>2 DEF NoneBefore
    <3>6. Caller(s)' /\ ~stray'
      BY <3>1, <3>4, <3>5 DEF Caller, Registering, Unlinking, At
    <3>. QED BY <1>3, <1>4, <3>2, <3>3, <3>6
  <2>6. CASE Matches(new)
    <3>1. /\ p' = prev[new] /\ n' = next[new] /\ mpc' = "del"
          /\ UNCHANGED <<arg, new, stray>>
      BY <1>6, <2>2, <2>6
    <3>2. Ring(s)'
      BY <3>1, RingFrame DEF Behind, At
    <3>3. Memory(s)'
      BY <3>1 DEF Memory, Loose, NodesOf
    <3>4. NoneBefore(s, j)' /\ Matches(new)'
      BY <3>1, <1>1, <2>6 DEF NoneBefore, Matches
    <3>5. Caller(s)' /\ ~stray'
      <4>1. new' = s[j] /\ p' = At(s, j - 1)' /\ n' = At(s, j + 1)'
        BY <3>1, <2>1, <2>3, <2>4 DEF At
      <4>. QED BY <4>1, <3>1, <3>4, <2>1 DEF Caller, Registering, Unlinking
    <3>. QED BY <1>3, <1>4, <3>2, <3>3, <3>5
  <2>. QED BY <2>5, <2>6
<1>. QED BY <1>5, <1>6

\* The place of the node that is being taken out.
LEMMA UnlinkingPlace ==
    ASSUME NEW s \in Seq(Node), ListAt(s), Unlinking
    PROVE  \E j \in 1..Len(s) :
              /\ new = s[j] /\ p = At(s, j - 1) /\ n = At(s, j + 1)
              /\ Matches(new) /\ NoneBefore(s, j)
              /\ \A i \in 0..Len(s) : At(s, i) = new <=> i = j
              /\ p \in Cell /\ n \in Cell /\ new \in Node
              /\ Live(p) /\ Live(n)
<1>1. PICK j \in 1..Len(s) :
              /\ new = s[j] /\ p = At(s, j - 1) /\ n = At(s, j + 1)
              /\ Matches(new) /\ NoneBefore(s, j)
  BY DEF ListAt, Caller
<1>2. j \in 0..Len(s) /\ At(s, j) = new /\ j - 1 \in Int /\ j + 1 \in Int
  BY <1>1 DEF At
<1>3. \A i \in 0..Len(s) : At(s, i) = new <=> i = j
  BY <1>2, PlacesApart DEF ListAt, Ring
<1>4. p \in Cell /\ n \in Cell /\ new \in Node
  BY <1>1, <1>2, AtType
<1>5. \A i \in Int : At(s, i) = HEAD \/ At(s, i) \in NodesOf(s)
  BY DEF At, NodesOf
<1>6. Live(p) /\ Live(n)
  BY <1>1, <1>2, <1>5 DEF ListAt, Memory, Live
<1>. QED BY <1>1, <1>3, <1>4, <1>6

LEMMA DelPrevList ==
    ASSUME NEW s \in Seq(Node), ListAt(s), DelPrev
    PROVE  ListAt(s)'
<1>. USE DEF ListAt, DelPrev, Main, MainDone, Defined, handVars
<1>1. PICK j \in 1..Len(s) :
              /\ new = s[j] /\ p = At(s, j - 1) /\ n = At(s, j + 1)
              /\ Matches(new) /\ NoneBefore(s, j)
              /\ \A i \in 0..Len(s) : At(s, i) = new <=> i = j
              /\ p \in Cell /\ n \in Cell /\ new \in Node
              /\ Live(p) /\ Live(n)
  BY UnlinkingPlace DEF Unlinking
<1>2. TypeOK'
  BY <1>1 DEF TypeOK
<1>3. Ring(s)'
  <2>1. \A i \in 0..Len(s) : Behind(s, i)' = IF i = j THEN p ELSE Behind(s, i)
    BY <1>1 DEF Behind, At
  <2>2. \A i \in 0..Len(s) : prev'[At(s, i + 1)] = IF i = j THEN p ELSE prev[At(s, i + 1)]
    <3>. TAKE i \in 0..Len(s)
    <3>1. At(s, i + 1) = At(s, j + 1) <=> i = j
      <4>1. i + 1 \in 1..(Len(s) + 1) /\ j + 1 \in 1..(Len(s) + 1)
        OBVIOUS
      <4>. QED BY <4>1, PlacesApart DEF Ring
    <3>2. At(s, i + 1) \in Cell
      BY AtType
    <3>. QED BY <3>1, <3>2, <1>1 DEF TypeOK
  <2>. QED BY <2>1, <2>2 DEF Ring, Injective, At
<1>4. Memory(s)'
  BY DEF Memory, Loose, NodesOf
<1>5. Caller(s)'
  <2>1. NoneBefore(s, j)' /\ Matches(new)'
    BY <1>1 DEF NoneBefore, Matches
  <2>2. new' = s[j] /\ p' = At(s, j - 1)' /\ n' = At(s, j + 1)'
    BY <1>1 DEF At
  <2>. QED BY <2>1, <2>2 DEF Caller, Registering, Unlinking
<1>6. Walker(s)' /\ ~stray'
  BY <1>1 DEF Walker, At
<1>. QED BY <1>2, <1>3, <1>4, <1>5, <1>6

\* Two writes take out the node in place j, whoever makes them.
LEMMA CutLinks ==
    ASSUME NEW s \in Seq(Node), Injective(s), NEW j \in 1..Len(s),
           \A i \in 0..Len(s) :
              /\ next'[At(s, i)] = IF i = j - 1 THEN At(s, j + 1) ELSE At(s, i + 1)
              /\ prev'[At(s, i + 1)] = IF i = j THEN At(s, j - 1) ELSE At(s, i),
           NEW t \in Seq(Node), t = Cut(s, j)
    PROVE  \A i \in 0..Len(t) : next'[At(t, i)] = At(t, i + 1) /\ prev'[At(t, i + 1)] = At(t, i)
<1>1. Len(s) \in Nat
  OBVIOUS
<1>2. /\ t \in Seq(Node) /\ Len(t) = Len(s) - 1
      /\ \A i \in 0..(j - 1) : At(t, i) = At(s, i)
      /\ \A i \in j..Len(s) : At(t, i) = At(s, i + 1)
  BY ONLY s \in Seq(Node), Injective(s), j \in 1..Len(s), t = Cut(s, j), CutIs
<1>. TAKE i \in 0..Len(t)
<1>3. CASE i < j - 1
  <2>1. i \in 0..(j - 1) /\ i + 1 \in 0..(j - 1) /\ i \in 0..Len(s) /\ i # j /\ i # j - 1
    BY <1>3, <1>1, <1>2
  <2>2. At(t, i) = At(s, i) /\ At(t, i + 1) = At(s, i + 1)
    BY <2>1, <1>2
  <2>. QED BY <2>1, <2>2
<1>4. CASE i = j - 1
  <2>1. i \in 0..(j - 1) /\ i + 1 = j /\ j \in j..Len(s) /\ i \in 0..Len(s) /\ j \in 0..Len(s)
    BY <1>4, <1>1, <1>2
  <2>2. At(t, i) = At(s, j - 1) /\ At(t, i + 1) = At(s, j + 1)
    BY <2>1, <1>2, <1>4
  <2>. QED BY <2>1, <2>2, <1>4
<1>5. CASE i > j - 1
  <2>1. /\ i \in j..Len(s) /\ i + 1 \in j..Len(s) /\ i + 1 \in 0..Len(s)
        /\ i + 1 # j /\ i + 1 # j - 1
    BY <1>5, <1>1, <1>2
  <2>2. At(t, i) = At(s, i + 1) /\ At(t, i + 1) = At(s, i + 2)
    BY <2>1, <1>2
  <2>3. next'[At(s, i + 1)] = At(s, (i + 1) + 1) /\ prev'[At(s, (i + 1) + 1)] = At(s, i + 1)
    BY <2>1
  <2>4. (i + 1) + 1 = i + 2
    BY <1>1
  <2>. QED BY <2>2, <2>3, <2>4
<1>. QED BY <1>3, <1>4, <1>5, <1>1, <1>2

LEMMA DelNextList ==
    ASSUME NEW s \in Seq(Node), ListAt(s), DelNext,
           NEW j \in 1..Len(s), new = s[j], NEW t, t = Cut(s, j)
    PROVE  ListAt(t)'
<1>. USE DEF ListAt, DelNext, Main, MainDone, Defined, handVars
<1>1. /\ p = At(s, j - 1) /\ n = At(s, j + 1)
      /\ \A i \in 0..Len(s) : At(s, i) = new <=> i = j
      /\ p \in Cell /\ n \in Cell /\ new \in Node
      /\ Live(p)
  BY UnlinkingPlace DEF Unlinking, Ring, Injective
<1>2. /\ t \in Seq(Node) /\ Len(t) = Len(s) - 1
      /\ Injective(t)
      /\ NodesOf(t) = NodesOf(s) \ {s[j]}
  <2>1. Injective(s)
    BY DEF Ring
  <2>. QED BY ONLY s \in Seq(Node), j \in 1..Len(s), t = Cut(s, j), <2>1, CutIs
<1>3. TypeOK'
  BY <1>1 DEF TypeOK
<1>4. Ring(t)'
  <2>1. \A i \in 0..Len(s) :
           next'[At(s, i)] = IF i = j - 1 THEN At(s, j + 1) ELSE At(s, i + 1)
    <3>. TAKE i \in 0..Len(s)
    <3>1. At(s, i) = At(s, j - 1) <=> i = j - 1
      <4>1. j - 1 \in 0..Len(s)
        OBVIOUS
      <4>. QED BY <4>1, PlacesApart DEF Ring
    <3>2. At(s, i) \in Cell
      BY AtType
    <3>. QED BY <3>1, <3>2, <1>1 DEF TypeOK, Ring
  <2>2. \A i \in 0..Len(s) :
            prev'[At(s, i + 1)] = IF i = j THEN At(s, j - 1) ELSE At(s, i)
    BY <1>1 DEF Ring, Behind
  <2>3. \A i \in 0..Len(t) : next'[At(t, i)] = At(t, i + 1) /\ prev'[At(t, i + 1)] = At(t, i)
    <3>1. Injective(s)
      BY DEF Ring
    <3>2. \A i \in 0..Len(s) :
              /\ next'[At(s, i)] = IF i = j - 1 THEN At(s, j + 1) ELSE At(s, i + 1)
              /\ prev'[At(s, i + 1)] = IF i = j THEN At(s, j - 1) ELSE At(s, i)
      BY <2>1, <2>2
    <3>. QED BY <3>1, <3>2, <1>2, CutLinks
  <2>4. \A i \in 0..Len(t) : Behind(t, i)' = At(t, i)
    BY DEF Behind, At
  <2>5. \A i \in 1..Len(t) : fl'[t[i]] \in Entry
    <3>. TAKE i \in 1..Len(t)
    <3>1. t[i] \in NodesOf(t)
      BY DEF NodesOf
    <3>. QED BY <3>1, <1>2 DEF Ring, NodesOf
  <2>. QED BY <2>3, <2>4, <2>5, <1>2 DEF Ring, Injective, At
<1>5. Memory(t)'
  <2>1. new \in NodesOf(s)
    BY DEF NodesOf
  <2>. QED BY <2>1, <1>1, <1>2 DEF Memory, Loose, NodesOf
<1>6. Caller(t)' /\ Walker(t)' /\ ~stray'
  BY <1>1 DEF Caller, Registering, Unlinking, Walker
<1>. QED BY <1>3, <1>4, <1>5, <1>6

LEMMA FreeList ==
    ASSUME NEW s \in Seq(Node), ListAt(s), Free
    PROVE  misused' \/ ListAt(s)'
<1>. SUFFICES ASSUME ~misused' PROVE ListAt(s)'
  OBVIOUS
<1>. USE DEF ListAt, Free, Main, Defined, handVars
<1>1. Return /\ stray' = stray
  OBVIOUS
<1>2. TypeOK'
  BY <1>1 DEF TypeOK
<1>3. Ring(s)'
  BY <1>1, RingFrame DEF Behind, At, Return
<1>4. Memory(s)'
  BY <1>1 DEF Memory, Loose, NodesOf, Return
<1>5. Caller(s)' /\ Walker(s)' /\ ~stray'
  BY <1>1 DEF Caller, Registering, Unlinking, Return, Walker
<1>. QED BY <1>2, <1>3, <1>4, <1>5

LEMMA SterotypeList ==
    ASSUME NEW s \in Seq(Node), ListAt(s),
           NEW k \in Msg, NEW block_return \in BOOLEAN, func_sterotype(k, block_return)
    PROVE  ListAt(s)' /\ lh' = At(s, 1)
<1>. USE DEF ListAt, func_sterotype, Defined, listVars, mainVars
<1>1. lh' = At(s, 1) /\ 1 \in 1..(Len(s) + 1)
  <2>1. 0 \in 0..Len(s) /\ At(s, 0) = HEAD
    BY DEF At
  <2>. QED BY <2>1 DEF Ring
<1>2. TypeOK'
  BY DEF TypeOK
<1>3. Ring(s)'
  BY RingFrame DEF Behind, At
<1>4. Memory(s)'
  BY DEF Memory, Loose, NodesOf
<1>5. Caller(s)'
  BY DEF Caller, Registering, Unlinking, At, NoneBefore, Matches
<1>6. Walker(s)' /\ ~stray'
  BY <1>1 DEF Walker, At
<1>. QED BY <1>1, <1>2, <1>3, <1>4, <1>5, <1>6

\* The handler's place, and what is there.
LEMMA WalkerPlace ==
    ASSUME NEW s \in Seq(Node), ListAt(s), hpc = "walk"
    PROVE  \E j \in 1..(Len(s) + 1) :
              /\ lh = At(s, j)
              /\ lh = HEAD => j = Len(s) + 1
              /\ lh # HEAD => /\ j \in 1..Len(s) /\ lh = s[j] /\ Live(lh)
                              /\ next[lh] = At(s, j + 1) /\ j + 1 \in 1..(Len(s) + 1)
<1>1. PICK j \in 1..(Len(s) + 1) : lh = At(s, j)
  BY DEF ListAt, Walker
<1>2. Len(s) \in Nat
  OBVIOUS
<1>3. lh = HEAD => j = Len(s) + 1
  <2>1. j \in Int /\ (j \in 1..Len(s) \/ j = Len(s) + 1)
    BY <1>2
  <2>2. j \in 1..Len(s) => At(s, j) \in Node
    BY <2>1, AtType
  <2>. QED BY <2>1, <2>2, <1>1, HeadAssumption
<1>4. ASSUME lh # HEAD
      PROVE  /\ j \in 1..Len(s) /\ lh = s[j] /\ Live(lh)
             /\ next[lh] = At(s, j + 1) /\ j + 1 \in 1..(Len(s) + 1)
  <2>1. j \in 1..Len(s) /\ lh = s[j] /\ j \in 0..Len(s)
    BY <1>1, <1>2, <1>4 DEF At
  <2>2. next[lh] = At(s, j + 1)
    BY <2>1, <1>1 DEF ListAt, Ring
  <2>3. Live(lh)
    BY <2>1 DEF ListAt, Memory, Live, NodesOf
  <2>. QED BY <2>1, <2>2, <2>3, <1>2
<1>. QED BY <1>1, <1>3, <1>4

\* What a turn of the handler's loop leaves alone.
LEMMA TurnFrame ==
    ASSUME NEW s \in Seq(Node), ListAt(s), UNCHANGED <<listVars, mainVars>>,
           ~stray', hpc' = "walk" => shmsg' = shmsg /\ hpc = "walk", Walker(s)'
    PROVE  ListAt(s)'
<1>. USE DEF ListAt, listVars, mainVars
<1>1. TypeOK'
  BY DEF TypeOK
<1>2. Ring(s)'
  BY RingFrame DEF Behind, At
<1>3. Memory(s)'
  BY DEF Memory, Loose, NodesOf
<1>4. Caller(s)'
  BY DEF Caller, Registering, Unlinking, At, NoneBefore, Matches
<1>. QED BY <1>1, <1>2, <1>3, <1>4

LEMMA WalkOnList ==
    ASSUME NEW s \in Seq(Node), ListAt(s), WalkOn
    PROVE  ListAt(s)'
<1>. USE DEF WalkOn, Defined, handVars
<1>1. PICK j \in 1..(Len(s) + 1) :
              /\ lh = At(s, j)
              /\ lh = HEAD => j = Len(s) + 1
              /\ lh # HEAD => /\ j \in 1..Len(s) /\ lh = s[j] /\ Live(lh)
                              /\ next[lh] = At(s, j + 1) /\ j + 1 \in 1..(Len(s) + 1)
  BY WalkerPlace
<1>2. lh \in alloc => lh # HEAD
  BY HeadAssumption DEF ListAt, TypeOK
<1>3. CASE lh = HEAD
  <2>1. Leave /\ stray' = stray
    BY <1>2, <1>3
  <2>2. Walker(s)' /\ hpc' # "walk"
    BY <2>1 DEF Walker, Leave
  <2>. QED BY <2>1, <2>2, TurnFrame
<1>4. CASE lh # HEAD
  <2>1. lh' = At(s, j + 1) /\ hpc' = hpc /\ shmsg' = shmsg /\ stray' = stray
    BY <1>1, <1>4
  <2>2. Walker(s)'
    BY <2>1, <1>1, <1>4 DEF Walker, At
  <2>. QED BY <2>1, <2>2, TurnFrame
<1>. QED BY <1>3, <1>4

LEMMA CallList ==
    ASSUME NEW s \in Seq(Node), ListAt(s), Call,
           UNCHANGED <<next, prev, alloc, stray, misused>>
    PROVE  ListAt(s)'
<1>. USE DEF Call, Defined
<1>1. PICK j \in 1..(Len(s) + 1) :
              /\ lh = At(s, j)
              /\ lh = HEAD => j = Len(s) + 1
              /\ lh # HEAD => /\ j \in 1..Len(s) /\ lh = s[j] /\ Live(lh)
                              /\ next[lh] = At(s, j + 1) /\ j + 1 \in 1..(Len(s) + 1)
  BY WalkerPlace
<1>2. lh # HEAD
  BY HeadAssumption DEF ListAt, TypeOK
<1>3. CASE shmsg.block_return
  <2>1. Walker(s)' /\ hpc' # "walk"
    BY <1>3 DEF Walker, Leave
  <2>. QED BY <2>1, TurnFrame DEF listVars
<1>4. CASE ~shmsg.block_return
  <2>1. lh' = At(s, j + 1) /\ hpc' = hpc /\ shmsg' = shmsg
    BY <1>1, <1>2, <1>4
  <2>2. Walker(s)'
    BY <2>1, <1>1, <1>2 DEF Walker, At
  <2>. QED BY <2>1, <2>2, TurnFrame DEF listVars
<1>. QED BY <1>3, <1>4

LEMMA ListChain ==
    ASSUME NEW s \in Seq(Node), Ring(s)
    PROVE  Chain(next[HEAD]) = s
<1>1. Len(s) \in Nat
  OBVIOUS
<1>2. next[HEAD] = At(s, 1)
  <2>1. 0 \in 0..Len(s) /\ At(s, 0) = HEAD
    BY <1>1 DEF At
  <2>. QED BY <2>1 DEF Ring
<1>3. Linked(next, s)
  <2>. SUFFICES ASSUME NEW i \in 1..Len(s) PROVE next[s[i]] = At(s, i + 1)
    BY DEF Linked
  <2>1. i \in 0..Len(s) /\ At(s, i) = s[i]
    BY <1>1 DEF At
  <2>. QED BY <2>1 DEF Ring
<1>. QED BY <1>2, <1>3, ChainIs, ChainWalk DEF Ring

\* A function that unregisters itself, from a BLOCK_RETURN message and outside
\* the process's own calls.
LEMMA CallItselfList ==
    ASSUME NEW s \in Seq(Node), ListAt(s), Call, UnregisterItself, ~misused'
    PROVE  \E j \in 1..Len(s), t \in Seq(Node) :
              /\ fl[s[j]] = fl[lh] /\ \A i \in 1..(j - 1) : fl[s[i]] # fl[lh]
              /\ t = Cut(s, j) /\ ListAt(t)'
              /\ shmsg.block_return /\ mpc = "idle"
<1>. USE DEF Call, Defined
<1>1. shmsg.block_return /\ mpc = "idle"
  BY DEF UnregisterItself, ListAt, TypeOK
<1>2. Len(s) \in Nat
  OBVIOUS
<1>3. PICK j0 \in 1..Len(s) : lh = s[j0]
  BY WalkerPlace, HeadAssumption DEF ListAt, TypeOK
<1>. DEFINE First(i) == fl[s[i]] = fl[lh] /\ \A k \in 1..(i - 1) : fl[s[k]] # fl[lh]
<1>4. \E i \in 1..Len(s) : First(i)
  <2>. DEFINE S == {i \in 1..Len(s) : fl[s[i]] = fl[lh]}
  <2>1. S \in SUBSET Nat /\ S # {}
    BY <1>3
  <2>2. PICK m \in S : \A i \in S : m <= i
    <3>. HIDE DEF S
    <3>. QED BY <2>1, LeastNatural
  <2>3. \A k \in 1..(m - 1) : fl[s[k]] # fl[lh]
    <3>. SUFFICES ASSUME NEW k \in 1..(m - 1), fl[s[k]] = fl[lh] PROVE FALSE
      OBVIOUS
    <3>1. k \in S /\ ~(m <= k)
      BY <1>2
    <3>. QED BY <2>2, <3>1
  <2>. QED BY <2>3
<1>5. PICK j \in 1..Len(s) : First(j) /\ j = CHOOSE i \in 1..Len(s) : First(i)
  BY <1>4
<1>. DEFINE c == s[j]
<1>6. /\ prev' = [prev EXCEPT ![next[c]] = prev[c]]
      /\ next' = [next EXCEPT ![prev[c]] = next[c]]
      /\ alloc' = alloc \ {c}
      /\ stray' = (~Live(prev[c]) \/ ~Live(next[c]) \/ (c = lh /\ ~shmsg.block_return))
  <2>1. Chain(next[HEAD]) = s /\ DOMAIN s = 1..Len(s)
    BY ListChain DEF ListAt
  <2>. QED BY <2>1, <1>5 DEF UnregisterItself
<1>7. /\ j \in 0..Len(s) /\ j - 1 \in 0..Len(s) /\ j + 1 \in Int
      /\ At(s, j) = c /\ c \in Node
  BY <1>2, <1>5 DEF At
<1>8. next[c] = At(s, j + 1)
  BY <1>7 DEF ListAt, Ring
<1>9. prev[c] = At(s, j - 1)
  <2>1. prev[At(s, (j - 1) + 1)] = Behind(s, j - 1)
    BY <1>7 DEF ListAt, Ring
  <2>2. (j - 1) + 1 = j /\ Behind(s, j - 1) = At(s, j - 1)
    BY <1>1, <1>5 DEF Behind
  <2>. QED BY <2>1, <2>2, <1>7
<1>10. At(s, j - 1) \in Cell /\ At(s, j + 1) \in Cell
  BY <1>7, AtType
<1>11. PICK t \in Seq(Node) :
          /\ t = Cut(s, j) /\ Len(t) = Len(s) - 1
          /\ Injective(t)
          /\ NodesOf(t) = NodesOf(s) \ {c}
  <2>1. Injective(s)
    BY DEF ListAt, Ring
  <2>. QED BY ONLY s \in Seq(Node), j \in 1..Len(s), <2>1, CutIs
<1>12. TypeOK'
  BY <1>1, <1>6, <1>8, <1>9, <1>10 DEF ListAt, TypeOK, Leave
<1>13. Ring(t)'
  <2>1. \A i \in 0..Len(s) :
           next'[At(s, i)] = IF i = j - 1 THEN At(s, j + 1) ELSE At(s, i + 1)
    <3>. TAKE i \in 0..Len(s)
    <3>1. At(s, i) = At(s, j - 1) <=> i = j - 1
      BY <1>7, PlacesApart DEF ListAt, Ring
    <3>2. At(s, i) \in Cell
      BY AtType
    <3>. QED BY <3>1, <3>2, <1>6, <1>8, <1>9 DEF ListAt, TypeOK, Ring
  <2>2. \A i \in 0..Len(s) :
            prev'[At(s, i + 1)] = IF i = j THEN At(s, j - 1) ELSE At(s, i)
    <3>. TAKE i \in 0..Len(s)
    <3>1. At(s, i + 1) = At(s, j + 1) <=> i = j
      <4>1. i + 1 \in 1..(Len(s) + 1) /\ j + 1 \in 1..(Len(s) + 1)
        BY <1>2
      <4>2. Injective(s)
        BY DEF ListAt, Ring
      <4>. QED BY <4>1, <4>2, PlacesApart
    <3>2. At(s, i + 1) \in Cell
      BY AtType
    <3>3. prev[At(s, i + 1)] = At(s, i)
      BY <1>1 DEF ListAt, Ring, Behind
    <3>. QED BY <3>1, <3>2, <3>3, <1>6, <1>8, <1>9 DEF ListAt, TypeOK
  <2>3. \A i \in 0..Len(t) : next'[At(t, i)] = At(t, i + 1) /\ prev'[At(t, i + 1)] = At(t, i)
    <3>1. Injective(s)
      BY DEF ListAt, Ring
    <3>2. \A i \in 0..Len(s) :
              /\ next'[At(s, i)] = IF i = j - 1 THEN At(s, j + 1) ELSE At(s, i + 1)
              /\ prev'[At(s, i + 1)] = IF i = j THEN At(s, j - 1) ELSE At(s, i)
      BY <2>1, <2>2
    <3>3. t = Cut(s, j)
      BY <1>11
    <3>. QED BY <3>1, <3>2, <3>3, CutLinks
  <2>4. \A i \in 0..Len(t) : Behind(t, i)' = At(t, i)
    BY <1>1 DEF Behind, At, mainVars
  <2>5. \A i \in 1..Len(t) : fl'[t[i]] \in Entry
    <3>. TAKE i \in 1..Len(t)
    <3>1. t[i] \in NodesOf(t)
      BY DEF NodesOf
    <3>. QED BY <3>1, <1>11 DEF ListAt, Ring, NodesOf
  <2>. QED BY <2>3, <2>4, <2>5, <1>11 DEF Ring, Injective, At
<1>14. Memory(t)'
  BY <1>1, <1>6, <1>11 DEF ListAt, Memory, Loose, NodesOf, mainVars
<1>15. Caller(t)' /\ Walker(t)'
  BY <1>1 DEF Caller, Registering, Unlinking, Walker, Leave, mainVars
<1>16. ~stray'
  <2>1. \A i \in Int : At(s, i) = HEAD \/ At(s, i) \in NodesOf(s)
    BY DEF At, NodesOf
  <2>2. Live(At(s, j - 1)) /\ Live(At(s, j + 1))
    BY <2>1, <1>7 DEF ListAt, Memory, Live
  <2>. QED BY <2>2, <1>1, <1>6, <1>8, <1>9
<1>17. ListAt(t)'
  BY <1>12, <1>13, <1>14, <1>15, <1>16 DEF ListAt
<1>. QED BY <1>1, <1>5, <1>11, <1>17

-----------------------------------------------------------------------------
(* The invariant, and what it says                                           *)

LEMMA StutterList ==
    ASSUME NEW s \in Seq(Node), ListAt(s), UNCHANGED vars
    PROVE  ListAt(s)'
<1>. USE DEF vars, listVars, mainVars, handVars
<1>1. TypeOK' /\ ~stray'
  BY DEF ListAt, TypeOK
<1>2. Ring(s)'
  BY RingFrame DEF ListAt, Behind, At
<1>3. Memory(s)'
  BY DEF ListAt, Memory, Loose, NodesOf
<1>4. Caller(s)' /\ Walker(s)'
  BY DEF ListAt, Caller, Registering, Unlinking, At, NoneBefore, Matches, Walker
<1>. QED BY <1>1, <1>2, <1>3, <1>4 DEF ListAt

\* What a step may do to the list.
Kept(s) == ListAt(s)'

PushedBy(s) == \E t \in Seq(Node) : t = Pushed(s, new) /\ ListAt(t)'

CutBy(s, c) ==
    \E j \in 1..Len(s), t \in Seq(Node) :
       /\ fl[s[j]] = fl[c] /\ \A i \in 1..(j - 1) : fl[s[i]] # fl[c]
       /\ t = Cut(s, j) /\ ListAt(t)'

LEMMA AddPublishPushes ==
    ASSUME NEW s \in Seq(Node), ListAt(s), AddPublish
    PROVE  PushedBy(s)
<1>1. new \in Node \ NodesOf(s) /\ Injective(s)
  BY DEF ListAt, Memory, Loose, AddPublish, Main, Ring
<1>2. Pushed(s, new) \in Seq(Node)
  BY <1>1, PushedIs
<1>3. PICK t \in Seq(Node) : t = Pushed(s, new)
  BY <1>2
<1>. QED BY <1>3, AddPublishList DEF PushedBy

LEMMA DelNextCuts ==
    ASSUME NEW s \in Seq(Node), ListAt(s), DelNext
    PROVE  CutBy(s, new)
<1>1. PICK j \in 1..Len(s) : new = s[j] /\ Matches(new) /\ NoneBefore(s, j)
  BY UnlinkingPlace DEF Unlinking, DelNext, Main
<1>2. Cut(s, j) \in Seq(Node)
  <2>1. Injective(s)
    BY DEF ListAt, Ring
  <2>. QED BY ONLY s \in Seq(Node), j \in 1..Len(s), <2>1, CutIs
<1>3. PICK t \in Seq(Node) : t = Cut(s, j)
  BY <1>2
<1>4. \A i \in 1..(j - 1) : fl[s[i]] # fl[new]
  BY <1>1 DEF NoneBefore, Matches
<1>5. ListAt(t)'
  BY <1>1, <1>3, DelNextList
<1>. QED BY <1>1, <1>3, <1>4, <1>5 DEF CutBy

LEMMA ProcessList ==
    ASSUME NEW s \in Seq(Node), ListAt(s), Process
    PROVE  \/ misused' \/ Kept(s)
           \/ AddPublish /\ PushedBy(s)
           \/ DelNext /\ CutBy(s, new)
<1>1. CASE \E e \in Entry : emi_msg_register(e)
  BY <1>1, RegisterList DEF Kept
<1>2. CASE AddFirst
  BY <1>2, AddFirstList DEF Kept
<1>3. CASE AddFill
  BY <1>3, AddFillList DEF Kept
<1>4. CASE AddPublish
  BY <1>4, AddPublishPushes
<1>5. CASE Sigaction
  BY <1>5, SigactionList DEF Kept
<1>6. CASE \E k \in Msg, func \in Func \cup {NULL} : emi_msg_unregister(k, func)
  BY <1>6, UnregisterList DEF Kept
<1>7. CASE UnregisterTurn
  BY <1>7, UnregisterTurnList DEF Kept
<1>8. CASE DelPrev
  BY <1>8, DelPrevList DEF Kept
<1>9. CASE DelNext
  BY <1>9, DelNextCuts
<1>10. CASE Free
  BY <1>10, FreeList DEF Kept
<1>. QED BY <1>1, <1>2, <1>3, <1>4, <1>5, <1>6, <1>7, <1>8, <1>9, <1>10 DEF Process

LEMMA HandlerList ==
    ASSUME NEW s \in Seq(Node), ListAt(s), Handler
    PROVE  \/ misused' \/ Kept(s)
           \/ Call /\ CutBy(s, lh)
<1>1. CASE \E k \in Msg, block_return \in BOOLEAN : func_sterotype(k, block_return)
  BY <1>1, SterotypeList DEF Kept
<1>2. CASE WalkOn
  BY <1>2, WalkOnList DEF Kept
<1>3. CASE Call /\ UnregisterItself /\ ~misused'
  BY <1>3, CallItselfList DEF CutBy
<1>4. CASE Call /\ UNCHANGED <<next, prev, alloc, stray, misused>>
  BY <1>4, CallList DEF Kept
<1>. QED BY <1>1, <1>2, <1>3, <1>4 DEF Handler, Call

LEMMA ListNext == ListInv /\ [Next]_vars => ListInv'
<1>. SUFFICES ASSUME ListInv, [Next]_vars, ~misused'
              PROVE  \E s \in Seq(Node) : ListAt(s)'
  BY DEF ListInv
<1>1. ~misused
  <2>1. CASE UNCHANGED vars
    BY <2>1 DEF vars
  <2>2. CASE Next
    BY <2>2 DEF Next, Process, Handler, emi_msg_register, AddFirst, AddFill, AddPublish,
       Sigaction, emi_msg_unregister, UnregisterTurn, DelPrev, DelNext, Free, Main,
       func_sterotype, WalkOn, Call, Defined
  <2>. QED BY <2>1, <2>2
<1>2. PICK s \in Seq(Node) : ListAt(s)
  BY <1>1 DEF ListInv
<1>3. CASE UNCHANGED vars
  BY <1>2, <1>3, StutterList
<1>4. CASE Process
  BY <1>2, <1>4, ProcessList DEF Kept, PushedBy, CutBy
<1>5. CASE Handler
  BY <1>2, <1>5, HandlerList DEF Kept, CutBy
<1>. QED BY <1>3, <1>4, <1>5 DEF Next

\* Until functions are unregistered as they must not be, the list is a ring of
\* HEAD and the allocated nodes at every write, but for what the call in
\* progress has still to write (list.h:39-67, emi_if.c:502-552).
THEOREM ListInvCorrect == Spec => []ListInv
<1>1. Init => ListInv
  <2>1. <<>> \in Seq(Node)
    OBVIOUS
  <2>. QED BY <2>1, InitList DEF ListInv
<1>. QED BY <1>1, ListNext, PTL DEF Spec

\* Whatever is registered and unregistered and wherever SIGUSR2 interrupts it,
\* nobody uses memory that is not allocated without a misuse (emi_if.c:222, 534).
THEOREM NeverAstrayCorrect == Spec => []NeverAstray
<1>1. ListInv => NeverAstray
  BY DEF ListInv, ListAt, NeverAstray
<1>. QED BY <1>1, ListInvCorrect, PTL

\* Outside calls the list has exactly the nodes that are allocated, however many
\* there are (emi_if.c:502-510, 538-547).
THEOREM NothingLeakedCorrect == Spec => []NothingLeaked
<1>1. ASSUME ListInv PROVE NothingLeaked
  <2>. SUFFICES ASSUME mpc = "idle", ~misused
                PROVE  /\ {Chain(next[HEAD])[i] : i \in DOMAIN Chain(next[HEAD])} = alloc
                       /\ Len(Chain(next[HEAD])) = Cardinality(alloc)
    BY DEF NothingLeaked
  <2>1. PICK s \in Seq(Node) : ListAt(s)
    BY <1>1 DEF ListInv
  <2>2. Chain(next[HEAD]) = s /\ DOMAIN s = 1..Len(s)
    BY <2>1, ListChain DEF ListAt
  <2>3. alloc = {s[i] : i \in 1..Len(s)}
    BY <2>1 DEF ListAt, Memory, Loose, NodesOf
  <2>4. Cardinality({s[i] : i \in 1..Len(s)}) = Len(s)
    BY <2>1, ShortList DEF ListAt, Ring
  <2>. QED BY <2>2, <2>3, <2>4
<1>. QED BY <1>1, ListInvCorrect, PTL

-----------------------------------------------------------------------------
(* The list implements FuncRegistry                                          *)

EntriesOf(s) == [i \in 1..Len(s) |-> fl[s[i]]]

\* The places from j on that the message being handled runs.
PlacesFrom(s, j) ==
    LET match == {i \in j..Len(s) : fl[s[i]].msg = shmsg.msg}
    IN  IF shmsg.block_return THEN {i \in match : \A k \in match : i <= k} ELSE match

\* The registry's variables, in terms of the list.
RegsAt(s) == ListAt(s) => Entries(next[HEAD]) = EntriesOf(s)

TodoAt(s) ==
    ListAt(s) => \A j \in 1..(Len(s) + 1) : lh = At(s, j) => Places = PlacesFrom(s, j)

LEMMA RegsAre == \A s \in Seq(Node) : RegsAt(s)
BY ListChain DEF RegsAt, ListAt, Entries, EntriesOf

LEMMA RestIs ==
    ASSUME NEW s \in Seq(Node), Ring(s), NEW j \in 1..(Len(s) + 1)
    PROVE  Len(Chain(At(s, j))) = Len(s) + 1 - j
<1>. DEFINE rest == [i \in 1..(Len(s) + 1 - j) |-> s[i + j - 1]]
<1>1. Len(s) \in Nat /\ \A i \in 1..Len(s) : s[i] \in Node
  OBVIOUS
<1>2. /\ rest \in Seq(Node)
      /\ Len(rest) = Len(s) + 1 - j
      /\ \A i \in 1..Len(rest) : rest[i] = s[i + j - 1] /\ i + j - 1 \in 1..Len(s)
  BY <1>1
<1>. HIDE DEF rest
<1>3. Injective(rest)
  <2>. SUFFICES ASSUME NEW i \in 1..Len(rest), NEW k \in 1..Len(rest), rest[i] = rest[k]
                PROVE  i = k
    BY DEF Injective
  <2>1. /\ i + j - 1 \in 1..Len(s) /\ k + j - 1 \in 1..Len(s)
        /\ s[i + j - 1] = s[k + j - 1]
    BY <1>2
  <2>2. i + j - 1 = k + j - 1
    BY <2>1 DEF Ring, Injective
  <2>3. i \in Int /\ k \in Int /\ j \in Int
    BY <1>1, <1>2
  <2>. QED BY <2>2, <2>3
<1>4. \A i \in 1..(Len(rest) + 1) : At(rest, i) = At(s, i + j - 1)
  BY <1>1, <1>2 DEF At
<1>5. Linked(next, rest)
  <2>. SUFFICES ASSUME NEW i \in 1..Len(rest)
                PROVE  next[rest[i]] = At(rest, i + 1)
    BY DEF Linked
  <2>1. i + j - 1 \in 1..Len(s) /\ rest[i] = s[i + j - 1]
    BY <1>2
  <2>2. i + j - 1 \in 0..Len(s) /\ At(s, i + j - 1) = s[i + j - 1]
    BY <2>1, <1>1 DEF At
  <2>3. next[At(s, i + j - 1)] = At(s, (i + j - 1) + 1)
    BY <2>2 DEF Ring
  <2>4. i + 1 \in 1..(Len(rest) + 1) /\ (i + 1) + j - 1 = (i + j - 1) + 1
    BY <1>1, <1>2
  <2>5. At(rest, i + 1) = At(s, (i + 1) + j - 1)
    BY <2>4, <1>4
  <2>. QED BY <2>1, <2>2, <2>3, <2>4, <2>5
<1>6. At(rest, 1) = At(s, j)
  <2>1. 1 \in 1..(Len(rest) + 1) /\ 1 + j - 1 = j
    BY <1>1, <1>2
  <2>2. At(rest, 1) = At(s, 1 + j - 1)
    BY <2>1, <1>4
  <2>. QED BY <2>1, <2>2
<1>. QED BY <1>2, <1>3, <1>5, <1>6, ChainIs, ChainWalk

LEMMA TodoIs == \A s \in Seq(Node) : TodoAt(s)
<1>. SUFFICES ASSUME NEW s \in Seq(Node), ListAt(s),
                     NEW j \in 1..(Len(s) + 1), lh = At(s, j)
              PROVE  Places = PlacesFrom(s, j)
  BY DEF TodoAt
<1>1. Len(s) \in Nat
  OBVIOUS
<1>2. Entries(next[HEAD]) = EntriesOf(s)
  BY RegsAre DEF RegsAt
<1>3. Len(Chain(lh)) = Len(s) + 1 - j
  BY RestIs DEF ListAt
<1>4. /\ Len(EntriesOf(s)) = Len(s) /\ DOMAIN EntriesOf(s) = 1..Len(s)
      /\ \A i \in 1..Len(s) : EntriesOf(s)[i] = fl[s[i]]
  BY <1>1 DEF EntriesOf
<1>5. {i \in 1..Len(s) : i > Len(s) - (Len(s) + 1 - j) /\ EntriesOf(s)[i].msg = shmsg.msg}
      = {i \in j..Len(s) : fl[s[i]].msg = shmsg.msg}
  BY <1>1, <1>4
<1>. QED BY <1>2, <1>3, <1>4, <1>5 DEF Places, PlacesFrom

LEMMA RegsArePrimed == (\A s \in Seq(Node) : RegsAt(s))'
BY RegsAre, PTL

LEMMA TodoIsPrimed == (\A s \in Seq(Node) : TodoAt(s))'
BY TodoIs, PTL

LEMMA RegsKept ==
    ASSUME NEW s \in Seq(Node), ListAt(s), ListAt(s)',
           \A i \in 1..Len(s) : fl'[s[i]] = fl[s[i]]
    PROVE  UNCHANGED Entries(next[HEAD])
<1>1. Entries(next[HEAD]) = EntriesOf(s) /\ Entries(next[HEAD])' = EntriesOf(s)'
  BY RegsAre, RegsArePrimed DEF RegsAt
<1>. QED BY <1>1 DEF EntriesOf

LEMMA WithoutIs ==
    ASSUME NEW r \in Seq(Entry), NEW j \in 1..Len(r),
           \A i \in 1..(j - 1) : r[i] # r[j]
    PROVE  Registry!Without(r, r[j])
           = [i \in 1..(Len(r) - 1) |-> IF i < j THEN r[i] ELSE r[i + 1]]
<1>. DEFINE front == SubSeq(r, 1, j - 1)
            back == SubSeq(r, j + 1, Len(r))
            First(i) == r[i] = r[j] /\ \A k \in 1..(i - 1) : r[k] # r[j]
            cut == [i \in 1..(Len(r) - 1) |-> IF i < j THEN r[i] ELSE r[i + 1]]
<1>0. Len(r) \in Nat /\ \A i \in 1..Len(r) : r[i] \in Entry
  OBVIOUS
<1>1. \A i \in 1..Len(r) : First(i) <=> i = j
  BY <1>0
<1>2. (CHOOSE i \in 1..Len(r) : First(i)) = j
  <2>. HIDE DEF First
  <2>. QED BY <1>1
<1>3. Registry!Without(r, r[j]) = front \o back
  <2>1. DOMAIN r = 1..Len(r) /\ \E i \in DOMAIN r : r[i] = r[j]
    OBVIOUS
  <2>. QED BY <2>1, <1>2 DEF Registry!Without
<1>4. front \in Seq(Entry) /\ Len(front) = j - 1 /\ \A i \in 1..(j - 1) : front[i] = r[i]
  OBVIOUS
<1>5. /\ back \in Seq(Entry) /\ Len(back) = Len(r) - j
      /\ \A i \in 1..(Len(r) - j) : back[i] = r[j + i]
  OBVIOUS
<1>. HIDE DEF front, back
<1>6. /\ front \o back \in Seq(Entry)
      /\ Len(front \o back) = Len(r) - 1
      /\ \A i \in 1..(Len(r) - 1) :
            (front \o back)[i] = IF i <= j - 1 THEN front[i] ELSE back[i - (j - 1)]
  <2>1. /\ front \o back \in Seq(Entry)
        /\ Len(front \o back) = Len(front) + Len(back)
        /\ \A i \in 1..(Len(front) + Len(back)) :
              (front \o back)[i] = IF i <= Len(front) THEN front[i] ELSE back[i - Len(front)]
    BY <1>4, <1>5, ConcatProperties
  <2>2. Len(front) = j - 1 /\ Len(front) + Len(back) = Len(r) - 1
    BY <1>0, <1>4, <1>5
  <2>. QED BY <2>1, <2>2
<1>7. \A i \in 1..(Len(r) - 1) : (front \o back)[i] = cut[i]
  <2>. TAKE i \in 1..(Len(r) - 1)
  <2>1. CASE i < j
    BY <2>1, <1>0, <1>4, <1>6
  <2>2. CASE ~(i < j)
    <3>1. i - (j - 1) \in 1..(Len(r) - j) /\ j + (i - (j - 1)) = i + 1
      BY <2>2, <1>0
    <3>2. (front \o back)[i] = back[i - (j - 1)]
      BY <2>2, <1>0, <1>6
    <3>. QED BY <2>2, <3>1, <3>2, <1>5
  <2>. QED BY <2>1, <2>2
<1>8. cut \in Seq(Entry) /\ Len(cut) = Len(r) - 1
  BY <1>0
<1>. HIDE DEF cut
<1>9. front \o back = cut
  BY <1>6, <1>7, <1>8, SeqEqual
<1>. QED BY <1>3, <1>9 DEF cut

\* A registration takes effect when the new node is linked in.
LEMMA PublishRegisters ==
    ASSUME NEW s \in Seq(Node), ListAt(s), AddPublish, PushedBy(s)
    PROVE  Registry!Next
<1>1. PICK t \in Seq(Node) : t = Pushed(s, new) /\ ListAt(t)'
  BY DEF PushedBy
<1>2. fl[new] \in Entry /\ fl' = fl /\ hpc = "main" /\ hpc' = "main"
  BY DEF ListAt, Caller, Registering, AddPublish, Main, MainDone, handVars
<1>3. Entries(next[HEAD]) = EntriesOf(s) /\ Entries(next[HEAD])' = EntriesOf(t)'
  BY <1>1, RegsAre, RegsArePrimed DEF RegsAt
<1>4. EntriesOf(t)' = <<fl[new]>> \o EntriesOf(s)
  <2>1. /\ Len(s) \in Nat /\ Len(t) = Len(s) + 1
        /\ t = [i \in 1..(Len(s) + 1) |-> IF i = 1 THEN new ELSE s[i - 1]]
    BY <1>1 DEF Pushed
  <2>2. /\ EntriesOf(s) \in Seq(Entry) /\ Len(EntriesOf(s)) = Len(s)
        /\ \A i \in 1..Len(s) : EntriesOf(s)[i] = fl[s[i]]
    BY <2>1 DEF EntriesOf, ListAt, Ring
  <2>3. EntriesOf(t)' = [i \in 1..(Len(s) + 1) |-> IF i = 1 THEN fl[new] ELSE fl[s[i - 1]]]
    BY <2>1, <1>2 DEF EntriesOf
  <2>4. <<fl[new]>> \in Seq(Entry) /\ Len(<<fl[new]>>) = 1
    BY <1>2
  <2>5. /\ <<fl[new]>> \o EntriesOf(s) \in Seq(Entry)
        /\ Len(<<fl[new]>> \o EntriesOf(s)) = Len(s) + 1
        /\ \A i \in 1..(Len(s) + 1) : (<<fl[new]>> \o EntriesOf(s))[i] =
              IF i <= 1 THEN <<fl[new]>>[i] ELSE EntriesOf(s)[i - 1]
    <3>1. Len(<<fl[new]>>) + Len(EntriesOf(s)) = Len(s) + 1
      BY <2>1, <2>2, <2>4
    <3>. QED BY <2>2, <2>4, <3>1, ConcatProperties
  <2>6. /\ EntriesOf(t)' \in Seq(Entry) /\ Len(EntriesOf(t)') = Len(s) + 1
    <3>1. \A i \in 1..(Len(s) + 1) : i # 1 => i - 1 \in 1..Len(s)
      BY <2>1
    <3>. QED BY <2>1, <2>3, <3>1, <1>2 DEF ListAt, Ring
  <2>7. \A i \in 1..(Len(s) + 1) : EntriesOf(t)'[i] = (<<fl[new]>> \o EntriesOf(s))[i]
    <3>. TAKE i \in 1..(Len(s) + 1)
    <3>1. CASE i = 1
      BY <3>1, <2>1, <2>3, <2>5
    <3>2. CASE i # 1
      <4>1. i - 1 \in 1..Len(s) /\ ~(i <= 1)
        BY <3>2, <2>1
      <4>. QED BY <4>1, <3>2, <2>2, <2>3, <2>5
    <3>. QED BY <3>1, <3>2
  <2>. QED BY <2>5, <2>6, <2>7, SeqEqual
<1>5. Registry!Register(fl[new])
  BY <1>2, <1>3, <1>4 DEF Registry!Register
<1>. QED BY <1>2, <1>5 DEF Registry!Next, Registry!Entry, Entry

\* The nodes' functions without the one in place j, the first of its kind.
LEMMA CutIsWithout ==
    ASSUME NEW s \in Seq(Node), ListAt(s), NEW j \in 1..Len(s),
           \A i \in 1..(j - 1) : fl[s[i]] # fl[s[j]],
           NEW t \in Seq(Node), t = Cut(s, j), ListAt(t)', fl' = fl
    PROVE  Entries(next[HEAD])' = Registry!Without(Entries(next[HEAD]), fl[s[j]])
<1>1. Entries(next[HEAD]) = EntriesOf(s) /\ Entries(next[HEAD])' = EntriesOf(t)'
  BY RegsAre, RegsArePrimed DEF RegsAt
<1>2. Len(s) \in Nat
  OBVIOUS
<1>3. /\ EntriesOf(s) \in Seq(Entry) /\ Len(EntriesOf(s)) = Len(s)
      /\ \A i \in 1..Len(s) : EntriesOf(s)[i] = fl[s[i]]
  BY <1>2 DEF EntriesOf, ListAt, Ring
<1>4. \A i \in 1..(j - 1) : EntriesOf(s)[i] # EntriesOf(s)[j]
  BY <1>2, <1>3
<1>5. Registry!Without(EntriesOf(s), EntriesOf(s)[j])
      = [i \in 1..(Len(s) - 1) |->
            IF i < j THEN EntriesOf(s)[i] ELSE EntriesOf(s)[i + 1]]
  <2>1. j \in 1..Len(EntriesOf(s))
    BY <1>3
  <2>2. Registry!Without(EntriesOf(s), EntriesOf(s)[j])
        = [i \in 1..(Len(EntriesOf(s)) - 1) |->
              IF i < j THEN EntriesOf(s)[i] ELSE EntriesOf(s)[i + 1]]
    BY ONLY <2>1, <1>3, <1>4, WithoutIs
  <2>. QED BY <2>2, <1>3
<1>6. EntriesOf(t)' = [i \in 1..(Len(s) - 1) |-> fl[t[i]]]
  <2>1. Len(t) = Len(s) - 1
    BY <1>2 DEF Cut
  <2>. QED BY <2>1 DEF EntriesOf
<1>7. ASSUME NEW i \in 1..(Len(s) - 1)
      PROVE  fl[t[i]] = IF i < j THEN EntriesOf(s)[i] ELSE EntriesOf(s)[i + 1]
  <2>1. t[i] = IF i < j THEN s[i] ELSE s[i + 1]
    BY DEF Cut
  <2>2. i \in 1..Len(s) /\ i + 1 \in 1..Len(s)
    BY <1>2
  <2>. QED BY <2>1, <2>2, <1>3
<1>. QED BY <1>1, <1>3, <1>5, <1>6, <1>7

\* An unregistration, when the node is unlinked.
LEMMA UnlinkUnregisters ==
    ASSUME NEW s \in Seq(Node), ListAt(s), DelNext, CutBy(s, new)
    PROVE  Registry!Next
<1>1. PICK j \in 1..Len(s), t \in Seq(Node) :
          /\ fl[s[j]] = fl[new] /\ \A i \in 1..(j - 1) : fl[s[i]] # fl[new]
          /\ t = Cut(s, j) /\ ListAt(t)'
  BY DEF CutBy
<1>2. fl' = fl /\ hpc = "main" /\ hpc' = "main"
  BY DEF DelNext, Main, MainDone, handVars
<1>3. fl[new] \in Entry
  BY <1>1 DEF ListAt, Ring
<1>4. Entries(next[HEAD])' = Registry!Without(Entries(next[HEAD]), fl[new])
  <2>1. Entries(next[HEAD])' = Registry!Without(Entries(next[HEAD]), fl[s[j]])
    BY <1>1, <1>2, CutIsWithout
  <2>. QED BY <2>1, <1>1
<1>5. Registry!Unregister(fl[new])
  BY <1>2, <1>4 DEF Registry!Unregister
<1>. QED BY <1>3, <1>5 DEF Registry!Next, Registry!Entry, Entry

\* The rest of a registration or an unregistration changes nothing.
LEMMA ProcessStutters ==
    ASSUME NEW s \in Seq(Node), ListAt(s), Process, Kept(s)
    PROVE  UNCHANGED Registry!vars
<1>1. hpc = "main" /\ hpc' = "main"
  BY DEF Process, emi_msg_register, AddFirst, AddFill, AddPublish, Sigaction,
     emi_msg_unregister, UnregisterTurn, DelPrev, DelNext, Free, Main, MainDone, handVars
<1>2. \A i \in 1..Len(s) : fl'[s[i]] = fl[s[i]]
  <2>1. CASE \E e \in Entry : emi_msg_register(e)
    <3>1. \E e \in Entry, c \in Node \ alloc : fl' = [fl EXCEPT ![c] = e]
      BY <2>1 DEF emi_msg_register
    <3>2. \A i \in 1..Len(s) : s[i] \in alloc
      BY DEF ListAt, Memory, NodesOf
    <3>. QED BY <3>1, <3>2 DEF ListAt, TypeOK
  <2>2. CASE ~\E e \in Entry : emi_msg_register(e)
    BY <2>2 DEF Process, AddFirst, AddFill, AddPublish, Sigaction, emi_msg_unregister,
       UnregisterTurn, DelPrev, DelNext, Free, listVars
  <2>. QED BY <2>1, <2>2
<1>3. UNCHANGED Entries(next[HEAD])
  BY <1>2, RegsKept DEF Kept
<1>. QED BY <1>1, <1>3 DEF Registry!vars

LEMMA SterotypeDelivers ==
    ASSUME NEW s \in Seq(Node), ListAt(s),
           NEW k \in Msg, NEW block_return \in BOOLEAN, func_sterotype(k, block_return)
    PROVE  Registry!Next
<1>1. ListAt(s)' /\ lh' = At(s, 1)
  BY SterotypeList
<1>2. /\ hpc = "main" /\ hpc' = "walk" /\ fl' = fl
      /\ shmsg' = [msg |-> k, block_return |-> block_return]
  BY DEF func_sterotype, listVars
<1>3. UNCHANGED Entries(next[HEAD])
  BY <1>1, <1>2, RegsKept
<1>4. Places' = PlacesFrom(s, 1)'
  <2>1. 1 \in 1..(Len(s) + 1) /\ lh' = At(s, 1)'
    BY <1>1 DEF At
  <2>. QED BY <2>1, <1>1, TodoIsPrimed DEF TodoAt
<1>5. Entries(next[HEAD]) = EntriesOf(s)
  BY RegsAre DEF RegsAt
<1>6. PlacesFrom(s, 1)' = Registry!Due(EntriesOf(s), k, block_return)
  <2>1. {i \in DOMAIN EntriesOf(s) : EntriesOf(s)[i].msg = k}
        = {i \in 1..Len(s) : fl[s[i]].msg = k}
    BY DEF EntriesOf
  <2>2. /\ PlacesFrom(s, 1)' =
             IF block_return
             THEN {i \in {j \in 1..Len(s) : fl[s[j]].msg = k} :
                      \A m \in {j \in 1..Len(s) : fl[s[j]].msg = k} : i <= m}
             ELSE {i \in 1..Len(s) : fl[s[i]].msg = k}
    BY <1>2 DEF PlacesFrom
  <2>. QED BY <2>1, <2>2 DEF Registry!Due
<1>7. Registry!Deliver(k, block_return)
  BY <1>2, <1>3, <1>4, <1>5, <1>6 DEF Registry!Deliver
<1>. QED BY <1>7 DEF Registry!Next

LEMMA WalkOnStutters ==
    ASSUME NEW s \in Seq(Node), ListAt(s), WalkOn
    PROVE  UNCHANGED Registry!vars
<1>. USE DEF WalkOn
<1>1. PICK j \in 1..(Len(s) + 1) :
              /\ lh = At(s, j)
              /\ lh = HEAD => j = Len(s) + 1
              /\ lh # HEAD => /\ j \in 1..Len(s) /\ lh = s[j] /\ Live(lh)
                              /\ next[lh] = At(s, j + 1) /\ j + 1 \in 1..(Len(s) + 1)
  BY WalkerPlace
<1>2. Len(s) \in Nat
  OBVIOUS
<1>3. ListAt(s)'
  BY WalkOnList
<1>4. UNCHANGED Entries(next[HEAD])
  BY <1>3, RegsKept DEF listVars
<1>5. lh \in alloc => lh # HEAD
  BY HeadAssumption DEF ListAt, TypeOK
<1>6. Places = PlacesFrom(s, j)
  BY <1>1, TodoIs DEF TodoAt
<1>7. CASE lh = HEAD
  <2>1. hpc' = "main" /\ hpc = "walk"
    BY <1>5, <1>7 DEF Leave
  <2>2. j..Len(s) = {}
    BY <1>1, <1>2, <1>7
  <2>3. PlacesFrom(s, j) = {}
    BY <2>2 DEF PlacesFrom
  <2>. QED BY <1>4, <1>6, <2>1, <2>3 DEF Registry!vars
<1>8. CASE lh # HEAD
  <2>1. /\ fl[lh].msg # shmsg.msg /\ lh' = At(s, j + 1) /\ fl' = fl
        /\ shmsg' = shmsg /\ hpc' = "walk" /\ hpc = "walk"
    BY <1>1, <1>8 DEF listVars, handVars
  <2>2. Places' = PlacesFrom(s, j + 1)'
    <3>1. j + 1 \in 1..(Len(s) + 1) /\ lh' = At(s, j + 1)'
      BY <1>1, <1>8, <2>1 DEF At
    <3>. QED BY <3>1, <1>3, TodoIsPrimed DEF TodoAt
  <2>3. {i \in (j + 1)..Len(s) : fl[s[i]].msg = shmsg.msg}
        = {i \in j..Len(s) : fl[s[i]].msg = shmsg.msg}
    BY <1>1, <1>2, <1>8, <2>1
  <2>4. PlacesFrom(s, j + 1)' = PlacesFrom(s, j)
    BY <2>1, <2>3 DEF PlacesFrom
  <2>. QED BY <1>4, <1>6, <2>1, <2>2, <2>4 DEF Registry!vars
<1>. QED BY <1>7, <1>8

\* What the handler is about to call is the first of what it has to.
LEMMA CallIsDue ==
    ASSUME NEW s \in Seq(Node), ListAt(s), Call
    PROVE  \E j \in 1..Len(s) :
              /\ lh = s[j] /\ next[lh] = At(s, j + 1) /\ j + 1 \in 1..(Len(s) + 1)
              /\ j \in Places /\ \A i \in Places : j <= i
              /\ shmsg.block_return => Places = {j}
              /\ ~shmsg.block_return => PlacesFrom(s, j + 1) = Places \ {j}
<1>1. lh # HEAD /\ hpc = "walk" /\ fl[lh].msg = shmsg.msg
  BY HeadAssumption DEF Call, ListAt, TypeOK
<1>2. PICK j \in 1..Len(s) :
          /\ lh = At(s, j) /\ lh = s[j]
          /\ next[lh] = At(s, j + 1) /\ j + 1 \in 1..(Len(s) + 1)
  BY <1>1, WalkerPlace
<1>3. Len(s) \in Nat /\ j \in 1..(Len(s) + 1)
  OBVIOUS
<1>4. Places = PlacesFrom(s, j)
  BY <1>2, <1>3, TodoIs DEF TodoAt
<1>. DEFINE match(k) == {i \in k..Len(s) : fl[s[i]].msg = shmsg.msg}
<1>5. /\ j \in match(j) /\ \A i \in match(j) : i \in Int /\ j <= i
      /\ match(j + 1) = match(j) \ {j}
  BY <1>1, <1>2, <1>3
<1>6. PlacesFrom(s, j) = IF shmsg.block_return
                         THEN {i \in match(j) : \A m \in match(j) : i <= m}
                         ELSE match(j)
  BY DEF PlacesFrom
<1>7. ~shmsg.block_return => PlacesFrom(s, j + 1) = match(j + 1)
  BY DEF PlacesFrom
<1>. HIDE DEF match
<1>8. shmsg.block_return => Places = {j}
  <2>. SUFFICES ASSUME shmsg.block_return PROVE Places = {j}
    OBVIOUS
  <2>1. Places = {i \in match(j) : \A m \in match(j) : i <= m}
    BY <1>4, <1>6
  <2>2. \A i \in match(j) : (\A m \in match(j) : i <= m) <=> i = j
    <3>. TAKE i \in match(j)
    <3>1. i \in Int /\ j <= i /\ j \in Int
      BY <1>3, <1>5
    <3>2. i <= j => i = j
      BY <3>1
    <3>. QED BY <1>5, <3>2
  <2>. QED BY <2>1, <2>2, <1>5
<1>. QED BY <1>2, <1>4, <1>5, <1>6, <1>7, <1>8

LEMMA CallCalls ==
    ASSUME NEW s \in Seq(Node), ListAt(s), Call, ~misused'
    PROVE  Registry!Next
<1>1. PICK j \in 1..Len(s) :
              /\ lh = s[j] /\ next[lh] = At(s, j + 1) /\ j + 1 \in 1..(Len(s) + 1)
              /\ j \in Places /\ \A i \in Places : j <= i
              /\ shmsg.block_return => Places = {j}
              /\ ~shmsg.block_return => PlacesFrom(s, j + 1) = Places \ {j}
  BY CallIsDue
<1>2. hpc = "walk" /\ fl' = fl
  BY DEF Call
<1>3. CASE UnregisterItself
  <2>1. PICK f \in 1..Len(s), t \in Seq(Node) :
              /\ fl[s[f]] = fl[lh] /\ \A i \in 1..(f - 1) : fl[s[i]] # fl[lh]
              /\ t = Cut(s, f) /\ ListAt(t)'
              /\ shmsg.block_return
    BY <1>3, CallItselfList
  <2>2. hpc' = "main"
    BY <2>1 DEF Call, Leave
  <2>3. Entries(next[HEAD])' = Registry!Without(Entries(next[HEAD]), fl[lh])
    <3>1. Entries(next[HEAD])' = Registry!Without(Entries(next[HEAD]), fl[s[f]])
      BY <2>1, <1>2, CutIsWithout
    <3>. QED BY <3>1, <2>1
  <2>4. Entries(next[HEAD])[j] = fl[lh]
    <3>1. Entries(next[HEAD]) = EntriesOf(s)
      BY RegsAre DEF RegsAt
    <3>. QED BY <3>1, <1>1 DEF EntriesOf
  <2>5. Places = {j} /\ {i - 1 : i \in Places \ {j}} = {}
    BY <1>1, <2>1
  <2>6. Registry!Call
    BY <1>1, <1>2, <2>2, <2>3, <2>4, <2>5 DEF Registry!Call
  <2>. QED BY <2>6 DEF Registry!Next
<1>4. CASE UNCHANGED <<next, prev, alloc, stray, misused>>
  <2>1. ListAt(s)'
    BY <1>4, CallList
  <2>2. UNCHANGED Entries(next[HEAD])
    BY <1>2, <2>1, RegsKept
  <2>3. (IF hpc = "main" THEN {} ELSE Places)' = Places \ {j}
    <3>1. CASE shmsg.block_return
      BY <1>1, <3>1 DEF Call, Leave
    <3>2. CASE ~shmsg.block_return
      <4>1. hpc' = "walk" /\ shmsg' = shmsg /\ lh' = At(s, j + 1)
        BY <1>1, <1>2, <3>2 DEF Call
      <4>2. Places' = PlacesFrom(s, j + 1)'
        <5>1. lh' = At(s, j + 1)'
          BY <4>1 DEF At
        <5>. QED BY <5>1, <1>1, <2>1, TodoIsPrimed DEF TodoAt
      <4>3. PlacesFrom(s, j + 1)' = PlacesFrom(s, j + 1)
        BY <4>1, <1>2 DEF PlacesFrom
      <4>. QED BY <1>1, <3>2, <4>1, <4>2, <4>3
    <3>. QED BY <3>1, <3>2
  <2>4. Registry!Call
    BY <1>1, <1>2, <2>2, <2>3 DEF Registry!Call
  <2>. QED BY <2>4 DEF Registry!Next
<1>. QED BY <1>3, <1>4 DEF Call

LEMMA RegistryInit == Init => Registry!Init
<1>. SUFFICES ASSUME Init PROVE Registry!Init
  OBVIOUS
<1>1. <<>> \in Seq(Node) /\ Len(<<>>) = 0 /\ 1..0 = {}
  OBVIOUS
<1>2. Entries(next[HEAD]) = EntriesOf(<<>>)
  BY <1>1, InitList, RegsAre DEF RegsAt
<1>3. EntriesOf(<<>>) = <<>>
  BY <1>1 DEF EntriesOf
<1>. QED BY <1>2, <1>3 DEF Init, Registry!Init

LEMMA RegistryStep ==
    ListInv /\ [Next]_vars => [~misused' => Registry!Next]_(Registry!vars)
<1>. SUFFICES ASSUME ListInv, [Next]_vars, ~misused', ~misused
              PROVE  Registry!Next \/ UNCHANGED Registry!vars
  <2>1. ~misused' /\ [Next]_vars => ~misused
    BY DEF Next, vars, Process, Handler, emi_msg_register, AddFirst, AddFill, AddPublish,
       Sigaction, emi_msg_unregister, UnregisterTurn, DelPrev, DelNext, Free, Main,
       func_sterotype, WalkOn, Call, Defined
  <2>. QED BY <2>1
<1>1. PICK s \in Seq(Node) : ListAt(s)
  BY DEF ListInv
<1>2. CASE UNCHANGED vars
  <2>1. UNCHANGED Entries(next[HEAD])
    BY <1>1, <1>2, StutterList, RegsKept DEF vars, listVars
  <2>2. UNCHANGED Places
    <3>1. UNCHANGED Chain(lh)
      BY <1>2, ChainWalk, ChainWalkPrimed DEF vars, listVars, handVars
    <3>. QED BY <2>1, <3>1, <1>2 DEF Places, vars, handVars
  <2>. QED BY <1>2, <2>1, <2>2 DEF Registry!vars, vars, handVars
<1>3. CASE Process
  BY <1>1, <1>3, ProcessList, ProcessStutters, PublishRegisters, UnlinkUnregisters
<1>4. CASE \E k \in Msg, block_return \in BOOLEAN : func_sterotype(k, block_return)
  BY <1>1, <1>4, SterotypeDelivers
<1>5. CASE WalkOn
  BY <1>1, <1>5, WalkOnStutters
<1>6. CASE Call
  BY <1>1, <1>6, CallCalls
<1>. QED BY <1>2, <1>3, <1>4, <1>5, <1>6 DEF Next, Handler

\* Until it is misused, the list implements FuncRegistry for any number of
\* messages, functions and nodes: each message runs each function that was
\* registered for it when it came once, the newest first, wherever SIGUSR2
\* interrupts the process's own writes (emi_if.c:222-245, list.h:39-67).
THEOREM RegistryCorrect == Spec => RegistryUntilMisuse
<1>. QED BY ListInvCorrect, RegistryInit, RegistryStep, PTL DEF Spec, RegistryUntilMisuse
=============================================================================
