-------------------------- MODULE SendReplyProofs --------------------------
(***************************************************************************)
(* Proofs about SendReply, for every size of data, every set of requests   *)
(* and every set of faults.                                                *)
(*                                                                         *)
(* What a sender learns depends on what is on the way to it.  SendInv says *)
(* of every place a message and its answer can be at what the other places *)
(* are at: the connection (LinkOK), the request on its way to the search   *)
(* for receivers (RequestOK), the answer and what it tells (AnswerOK), who *)
(* is still there when nothing breaks (StandOK), the answer to a BLOCK     *)
(* call (BlockOK), the returned data (WholeOK) and the data sent (DataOK). *)
(***************************************************************************)
EXTENDS SendReply, TLAPS

Unbroken == happened \cap {"reset", "die"} = {}
Waiting  == cpc \in {"header", "data", "reply"}
Gone     == cpc \in {"idle", "dead"}
Past     == spc \in {"returned", "e0", "none", "lost"}
Over     == spc \in {"e0", "none", "lost"}

LinkOK ==
    /\ spc # "none" => core /\ open["core"]
    /\ ~Gone => open["sender"]
    /\ Gone /\ spc # "none" => ~open["sender"]
    /\ Gone => wire["sender"] = Empty
    /\ wire["sender"] # Empty => Past
    /\ "reset" \notin happened /\ rst["core"] => Past
    /\ Unbroken /\ rst["core"] => Over
    /\ Unbroken /\ rst["sender"] => spc = "none"

RequestOK ==
    /\ cpc = "header" => wire["core"].head = {}
    /\ spc \in {"accept", "obtain", "header"} => wire["core"].head \subseteq {asked}
    /\ Waiting => msg = asked
    /\ spc \in {"data", "search"} /\ ~rst["core"] => msg_pos = asked
    /\ spc \in {"accept", "lost", "obtain", "header", "data", "search"} =>
          served = {} /\ seen = {}
    /\ spc = "reply" /\ ~rst["core"] =>
          /\ served = {asked}
          /\ msg_pos.flag \ {"SUCCEEDED"} = asked.flag \ {"SUCCEEDED"}
          /\ "SUCCEEDED" \in msg_pos.flag => "SUCCEEDED" \in asked.flag \/ seen # {}

AnswerOK ==
    /\ \A h \in wire["sender"].head :
          /\ served = {asked}
          /\ "SUCCEEDED" \in h.flag =>
                asked.flag \cap {"BLOCK", "SUCCEEDED"} # {} \/ seen # {}
    /\ /\ cpc = "returned" \/ (cpc \in {"close", "idle"} /\ ret = 0)
       /\ asked.flag \cap {"BLOCK", "BLOCK_RETURN"} # {}
       /\ "SUCCEEDED" \notin asked.flag
       => served = {asked} /\ Past /\ ("BLOCK" \in asked.flag \/ seen # {})

StandOK == Unbroken =>
    /\ core
    /\ spc = "returned" =>
          /\ "BLOCK" \notin asked.flag /\ "BLOCK_RETURN" \in asked.flag
          /\ "SUCCEEDED" \in msg_pos.flag /\ msg_pos.size > 0
          /\ \/ Waiting /\ wire["sender"] = [head |-> {msg_pos}, units |-> 0]
             \/ cpc = "returned" /\ wire["sender"] = Empty /\ msg = msg_pos
    /\ cpc = "returned" => Past
    /\ ~Over /\ Answers(asked.flag) => Waiting \/ cpc = "returned"

BlockOK ==
    Unbroken /\ "BLOCK" \in asked.flag /\ "NONBLOCK" \notin asked.flag
             /\ Over /\ served # {}
    =>  IF Waiting THEN wire["sender"].head = {[flag |-> {"SUCCEEDED"}, size |-> 0]}
        ELSE ret = 0

WholeOK == happened = {} /\ asked.flag \cap {"BLOCK", "SUCCEEDED"} = {} =>
    /\ \A h \in wire["sender"].head : "SUCCEEDED" \in h.flag /\ h.size > 0 =>
          spc = "returned" \/ wire["sender"].units = h.size
    /\ cpc = "returned" =>
          /\ wire["sender"].head = {} /\ msg.size > 0
          /\ spc = "returned" \/ wire["sender"].units = msg.size
    /\ "BLOCK_RETURN" \in asked.flag /\ cpc \in {"close", "idle"} /\ ret = 0 => whole

DataOK == "reset" \notin happened /\ "DATA" \in asked.flag /\ asked.size < MAX_DATA =>
    /\ spc = "search" => fill = "sent"
    /\ seen \in {{}, {"sent"}}

SendInv == /\ TypeOK /\ LinkOK /\ RequestOK /\ AnswerOK /\ StandOK /\ BlockOK
           /\ WholeOK /\ DataOK

-----------------------------------------------------------------------------
(* The connection                                                           *)

Wire == [head : SUBSET Header, units : Nat]

LEMMA EndFacts ==
    /\ "sender" \in End /\ "core" \in End
    /\ Peer("sender") = "core" /\ Peer("core") = "sender"
    /\ \A e \in End : e = "sender" \/ e = "core"
BY DEF End, Peer

LEMMA SizeFacts == Size \subseteq Nat
BY MaxAssumption DEF Size

\* A write of the sender changes nothing but what is on the way to emi_core.
LEMMA SenderWrites ==
    ASSUME TypeOK, NEW head \in SUBSET Header, NEW n \in Size, NEW r \in {-1} \cup Size,
           emi_write("sender", head, n, r)
    PROVE  /\ wire' \in [End -> Wire] /\ rst' \in [End -> BOOLEAN]
           /\ open' = open
           /\ happened' = happened \/ happened' = happened \cup {"stall"}
           /\ wire'["sender"] = wire["sender"]
           /\ \/ wire'["core"].head = wire["core"].head
              \/ wire'["core"].head = wire["core"].head \cup head
           /\ rst'["core"] = rst["core"]
           /\ rst'["sender"] => rst["sender"] \/ ~open["core"]
<1>1. wire["sender"] \in Wire /\ wire["core"] \in Wire
  BY EndFacts DEF TypeOK, Wire
<1>2. rst \in [End -> BOOLEAN] /\ wire \in [End -> Wire] /\ n \in Nat
  BY SizeFacts DEF TypeOK, Wire
<1>3. CASE /\ ~rst["sender"] /\ open["core"] /\ r = n
           /\ wire' = [wire EXCEPT !["core"].head = @ \cup head,
                                   !["core"].units = @ + n]
           /\ UNCHANGED <<open, rst, happened>>
  <2>1. /\ wire'["core"] = [head |-> wire["core"].head \cup head,
                              units |-> wire["core"].units + n]
        /\ wire'["sender"] = wire["sender"]
    BY <1>1, <1>2, <1>3, EndFacts DEF Wire
  <2>2. [head |-> wire["core"].head \cup head,
         units |-> wire["core"].units + n] \in Wire
    BY <1>1, <1>2 DEF Wire
  <2>3. wire' = [d \in End |-> wire'[d]]
    BY <1>2, <1>3
  <2>. QED BY <1>1, <1>2, <1>3, <2>1, <2>2, <2>3, EndFacts
<1>4. CASE /\ ~rst["sender"] /\ ~open["core"]
           /\ rst' = [rst EXCEPT !["sender"] = n > 0 \/ head # {}]
           /\ UNCHANGED <<wire, open, happened>>
  BY <1>1, <1>2, <1>4, EndFacts
<1>5. CASE rst["sender"] /\ UNCHANGED streamVars
  BY <1>1, <1>2, <1>5, EndFacts DEF streamVars
<1>6. CASE /\ ~rst["sender"] /\ r \in 1 .. n - 1
           /\ wire' = [wire EXCEPT !["core"].units = @ + r]
           /\ happened' = happened \cup {"stall"}
           /\ UNCHANGED <<open, rst>>
  <2>1. /\ wire'["core"] = [head |-> wire["core"].head,
                            units |-> wire["core"].units + r]
        /\ wire'["sender"] = wire["sender"]
    BY <1>1, <1>2, <1>6, EndFacts DEF Wire
  <2>2. [head |-> wire["core"].head, units |-> wire["core"].units + r] \in Wire
    BY <1>1, <1>2, <1>6 DEF Wire
  <2>3. wire' = [d \in End |-> wire'[d]]
    BY <1>2, <1>6
  <2>. QED BY <1>1, <1>2, <1>6, <2>1, <2>2, <2>3, EndFacts
<1>. QED BY <1>3, <1>4, <1>5, <1>6, EndFacts DEF emi_write

\* A write of emi_core reaches a sender that is there.
LEMMA CoreWrites ==
    ASSUME TypeOK, NEW head \in SUBSET Header, NEW n \in Size, NEW r \in {-1} \cup Size,
           emi_write("core", head, n, r)
    PROVE  /\ wire' \in [End -> Wire] /\ rst' \in [End -> BOOLEAN]
           /\ open' = open /\ happened' = happened
           /\ wire'["core"] = wire["core"]
           /\ rst'["sender"] = rst["sender"]
           /\ \/ /\ ~rst["core"] /\ ~rst'["core"] /\ open["sender"]
                 /\ wire'["sender"].head = wire["sender"].head \cup head
                 /\ wire'["sender"].units = wire["sender"].units + n
              \/ ~rst["core"] /\ ~open["sender"] /\ wire' = wire
              \/ rst["core"] /\ rst'["core"] /\ wire' = wire
<1>1. wire["sender"] \in Wire /\ wire["core"] \in Wire
  BY EndFacts DEF TypeOK, Wire
<1>2. rst \in [End -> BOOLEAN] /\ wire \in [End -> Wire] /\ n \in Nat
  BY SizeFacts DEF TypeOK, Wire
<1>3. CASE /\ ~rst["core"] /\ open["sender"] /\ r = n
           /\ wire' = [wire EXCEPT !["sender"].head = @ \cup head,
                                   !["sender"].units = @ + n]
           /\ UNCHANGED <<open, rst, happened>>
  <2>1. /\ wire'["sender"] = [head |-> wire["sender"].head \cup head,
                              units |-> wire["sender"].units + n]
        /\ wire'["core"] = wire["core"]
    BY <1>1, <1>2, <1>3, EndFacts DEF Wire
  <2>2. [head |-> wire["sender"].head \cup head,
         units |-> wire["sender"].units + n] \in Wire
    BY <1>1, <1>2 DEF Wire
  <2>3. wire' = [d \in End |-> wire'[d]]
    BY <1>2, <1>3
  <2>. QED BY <1>1, <1>2, <1>3, <2>1, <2>2, <2>3, EndFacts
<1>4. CASE /\ ~rst["core"] /\ ~open["sender"]
           /\ rst' = [rst EXCEPT !["core"] = n > 0 \/ head # {}]
           /\ UNCHANGED <<wire, open, happened>>
  BY <1>1, <1>2, <1>4, EndFacts
<1>5. CASE rst["core"] /\ UNCHANGED streamVars
  BY <1>1, <1>2, <1>5, EndFacts DEF streamVars
<1>. QED BY <1>3, <1>4, <1>5, EndFacts DEF emi_write

LEMMA CloseFacts ==
    ASSUME TypeOK, NEW e \in End, emi_close(e)
    PROVE  /\ wire' \in [End -> Wire] /\ rst' \in [End -> BOOLEAN]
           /\ open' \in [End -> BOOLEAN] /\ happened' = happened
           /\ ~open'[e] /\ open'[Peer(e)] = open[Peer(e)]
           /\ wire'[e] = Empty /\ wire'[Peer(e)] = wire[Peer(e)]
           /\ rst'[e] = rst[e]
           /\ rst'[Peer(e)] <=> rst[Peer(e)] \/ (open[e] /\ wire[e] # Empty)
BY EndFacts DEF TypeOK, Wire, emi_close, Empty

\* A read of a header takes it away.
LEMMA HeaderRead ==
    ASSUME TypeOK, NEW e \in End, NEW h, ReadHeader(e, h)
    PROVE  /\ wire' \in [End -> Wire]
           /\ h \in Header /\ h \in wire[e].head
           /\ wire'[e] = [head |-> {}, units |-> wire[e].units]
           /\ wire'[Peer(e)] = wire[Peer(e)]
           /\ open' = open /\ rst' = rst /\ happened' = happened
<1>1. wire[e] \in Wire /\ wire \in [End -> Wire]
  BY DEF TypeOK, Wire
<1>2. /\ wire'[e] = [head |-> {}, units |-> wire[e].units]
      /\ wire'[Peer(e)] = wire[Peer(e)]
  BY <1>1, EndFacts DEF Wire, ReadHeader
<1>3. wire' = [d \in End |-> wire'[d]]
  BY <1>1 DEF ReadHeader
<1>. QED BY <1>1, <1>2, <1>3, EndFacts DEF ReadHeader, Wire

\* A read of n units leaves headers alone, and what it takes is there.
LEMMA UnitsRead ==
    ASSUME TypeOK, NEW e \in End, NEW n \in Size, NEW r \in {-1} \cup Size,
           ReadUnits(e, n, r)
    PROVE  /\ wire' \in [End -> Wire]
           /\ wire'[e].head = wire[e].head /\ wire'[Peer(e)] = wire[Peer(e)]
           /\ open' = open /\ rst' = rst
           /\ happened' = happened \/ happened' = happened \cup {"segment"}
           /\ \/ n = 0 /\ r = 0 /\ wire' = wire
              \/ /\ n > 0 /\ r > 0 /\ r <= n /\ wire[e].units > 0
                 /\ happened' = {} => r = n \/ r = wire[e].units
              \/ /\ n > 0 /\ wire[e].units = 0 /\ wire' = wire
                 /\ \/ rst[e] /\ r = -1
                    \/ ~rst[e] /\ ~open[Peer(e)] /\ r = 0
<1>1. wire[e] \in Wire /\ wire \in [End -> Wire] /\ n \in Nat /\ r \in Int
  BY SizeFacts DEF TypeOK, Wire
<1>2. CASE n = 0 /\ r = 0 /\ UNCHANGED streamVars
  BY <1>1, <1>2 DEF streamVars
<1>3. ASSUME n > 0, 
             LET most == IF n < wire[e].units THEN n ELSE wire[e].units
             IN  /\ r \in 1 .. most
                 /\ happened' = happened \cup (IF r < most THEN {"segment"} ELSE {}),
             wire' = [wire EXCEPT ![e].units = @ - r], UNCHANGED <<open, rst>>
      PROVE  /\ wire' \in [End -> Wire]
             /\ wire'[e].head = wire[e].head /\ wire'[Peer(e)] = wire[Peer(e)]
             /\ r > 0 /\ r <= n /\ wire[e].units > 0
             /\ happened' = {} => r = n \/ r = wire[e].units
             /\ happened' = happened \/ happened' = happened \cup {"segment"}
  <2>1. /\ wire'[e] = [head |-> wire[e].head, units |-> wire[e].units - r]
        /\ wire'[Peer(e)] = wire[Peer(e)]
    BY <1>1, <1>3, EndFacts DEF Wire
  <2>2. wire[e].units - r \in Nat
    BY <1>1, <1>3 DEF Wire
  <2>3. wire' = [d \in End |-> wire'[d]]
    BY <1>1, <1>3
  <2>4. wire' \in [End -> Wire]
    BY <1>1, <2>1, <2>2, <2>3, EndFacts DEF Wire
  <2>5. happened' = {} => r = n \/ r = wire[e].units
    BY <1>1, <1>3 DEF Wire
  <2>6. r > 0 /\ r <= n /\ wire[e].units > 0
    BY <1>1, <1>3 DEF Wire
  <2>7. happened' = happened \/ happened' = happened \cup {"segment"}
    BY <1>3
  <2>. QED BY <2>1, <2>4, <2>5, <2>6, <2>7
<1>4. CASE n > 0 /\ wire[e].units = 0 /\ ReadFails(e, r)
  BY <1>1, <1>4 DEF ReadFails, streamVars
<1>5. \/ n = 0 /\ r = 0 /\ UNCHANGED streamVars
      \/ /\ n > 0
         /\ LET most == IF n < wire[e].units THEN n ELSE wire[e].units
            IN  /\ r \in 1 .. most
                /\ happened' = happened \cup (IF r < most THEN {"segment"} ELSE {})
         /\ wire' = [wire EXCEPT ![e].units = @ - r]
         /\ UNCHANGED <<open, rst>>
      \/ n > 0 /\ wire[e].units = 0 /\ ReadFails(e, r)
  BY DEF ReadUnits
<1>. QED BY <1>2, <1>3, <1>4, <1>5

-----------------------------------------------------------------------------
(* The steps                                                                *)

\* Nothing is asked yet.
LEMMA InitEstablishes ==
    ASSUME Init
    PROVE  SendInv
<1>1. wire["sender"] = Empty /\ wire["core"] = Empty /\ Empty.head = {}
  BY EndFacts DEF Init, Connected, Empty
<1>2. TypeOK
  BY MaxAssumption
     DEF Init, Connected, TypeOK, ClientLabel, ThreadLabel, Fill, Zero, Header, Size,
         Empty
<1>3. LinkOK /\ RequestOK
  BY <1>1, EndFacts
     DEF Init, Connected, LinkOK, RequestOK, Gone, Waiting, Past, Over, Unbroken
<1>4. AnswerOK /\ WholeOK /\ DataOK
  BY <1>1 DEF Init, AnswerOK, WholeOK, DataOK, Zero
<1>5. StandOK /\ BlockOK
  BY <1>1 DEF Init, StandOK, BlockOK, Over, Unbroken
<1>. QED BY <1>2, <1>3, <1>4, <1>5 DEF SendInv

\* A call starts over: a connection of its own, or none.
LEMMA CallKeeps ==
    ASSUME SendInv, NEW flag \in Request, NEW size \in Sizes, NEW again \in BOOLEAN,
           Call(flag, size, again)
    PROVE  SendInv'
<1>1. /\ Gone /\ spc \in {"none", "lost"} /\ TypeOK /\ wire["sender"] = Empty
      /\ msg' \in Header /\ asked' = msg' /\ served' = {} /\ seen' = {}
      /\ whole' = TRUE /\ fill' = "old" /\ UNCHANGED <<core, msg_pos>>
  <2>1. flag \subseteq Bit /\ size \in Size
    BY RequestAssumption, SizesAssumption DEF HighLevel, Bit
  <2>2. TypeOK /\ Gone /\ wire["sender"] = Empty
    BY DEF SendInv, LinkOK, Gone, Call
  <2>3. msg' \in Header
    BY <2>1, <2>2 DEF Call, TypeOK, emi_fill_msg, Zero, Header
  <2>. QED BY <2>2, <2>3 DEF Call
<1>2. CASE core /\ cpc' = "header" /\ spc' = "accept" /\ emi_connect /\ ret' = 0
  <2>1. /\ wire' = [e \in End |-> Empty]
        /\ open' = [e \in End |-> TRUE]
        /\ rst' = [e \in End |-> FALSE]
        /\ happened' = {}
    BY <1>2 DEF emi_connect
  <2>2. wire'["sender"] = Empty /\ wire'["core"].head = {} /\ Empty.head = {}
    BY <2>1, EndFacts DEF Empty
  <2>3. open'["sender"] /\ open'["core"] /\ ~rst'["sender"] /\ ~rst'["core"]
    BY <2>1, EndFacts
  <2>4. TypeOK'
    BY <1>1, <1>2, <2>1 DEF TypeOK, ClientLabel, ThreadLabel, Fill, Fault, Empty
  <2>5. LinkOK' /\ RequestOK'
    BY <1>1, <1>2, <2>2, <2>3
       DEF LinkOK, RequestOK, Gone, Waiting, Past, Over, Unbroken
  <2>6. AnswerOK' /\ WholeOK' /\ DataOK'
    BY <1>1, <1>2, <2>2 DEF AnswerOK, WholeOK, DataOK
  <2>7. StandOK' /\ BlockOK'
    BY <1>1, <1>2 DEF StandOK, BlockOK, Waiting, Past
  <2>. QED BY <2>4, <2>5, <2>6, <2>7 DEF SendInv
<1>3. CASE cpc' = "idle" /\ ret' = -1 /\ UNCHANGED <<spc, streamVars>>
  <2>1. UNCHANGED <<spc, wire, open, rst, happened>>
    BY <1>3 DEF streamVars
  <2>2. TypeOK'
    BY <1>1, <1>3, <2>1 DEF TypeOK, ClientLabel, Fill
  <2>3. LinkOK' /\ RequestOK'
    BY <1>1, <1>3, <2>1
       DEF SendInv, LinkOK, RequestOK, Gone, Waiting, Past, Over, Unbroken
  <2>4. AnswerOK' /\ WholeOK' /\ DataOK'
    BY <1>1, <1>3, <2>1 DEF AnswerOK, WholeOK, DataOK, Empty
  <2>5. StandOK' /\ BlockOK'
    BY <1>1, <1>3, <2>1 DEF SendInv, StandOK, BlockOK, Over, Unbroken
  <2>. QED BY <2>2, <2>3, <2>4, <2>5 DEF SendInv
<1>. QED BY <1>2, <1>3 DEF Call

\* The header of the request goes on its way.
LEMMA WriteHeaderKeeps ==
    ASSUME SendInv, WriteHeader
    PROVE  SendInv'
<1>1. /\ TypeOK /\ cpc = "header" /\ cpc' \in {"data", "reply"} /\ ret' = 0
      /\ msg = asked /\ msg \in Header
      /\ UNCHANGED <<msg, whole, core, spc, msg_pos, fill, asked, served, seen>>
  BY DEF SendInv, TypeOK, RequestOK, Waiting, WriteHeader, threadVars, ghosts
<1>2. \E n \in {-1, 0} : emi_write("sender", {msg}, 0, n)
  BY DEF WriteHeader
<1>3. 0 \in Size /\ {msg} \in SUBSET Header
  BY <1>1, MaxAssumption DEF Size
<1>4. /\ wire' \in [End -> Wire] /\ rst' \in [End -> BOOLEAN]
      /\ open' = open
      /\ happened' = happened \/ happened' = happened \cup {"stall"}
      /\ wire'["sender"] = wire["sender"]
      /\ \/ wire'["core"].head = wire["core"].head
         \/ wire'["core"].head = wire["core"].head \cup {msg}
      /\ rst'["core"] = rst["core"]
      /\ rst'["sender"] => rst["sender"] \/ ~open["core"]
  BY <1>1, <1>2, <1>3, SenderWrites
<1>5. TypeOK'
  BY <1>1, <1>4 DEF SendInv, TypeOK, ClientLabel, ThreadLabel, Fill, Fault, Wire
<1>6. LinkOK'
  BY <1>1, <1>4 DEF SendInv, LinkOK, Unbroken, Gone, Past, Over, Empty
<1>7. RequestOK'
  BY <1>1, <1>4 DEF SendInv, RequestOK, Waiting
<1>8. AnswerOK'
  BY <1>1, <1>4 DEF SendInv, AnswerOK, Past
<1>9. StandOK'
  BY <1>1, <1>4 DEF SendInv, StandOK, Unbroken, Waiting, Past, Over, Empty, Answers
<1>10. BlockOK'
  BY <1>1, <1>4 DEF SendInv, BlockOK, Unbroken, Waiting, Over
<1>11. WholeOK'
  BY <1>1, <1>4 DEF SendInv, WholeOK
<1>12. DataOK'
  BY <1>1, <1>4 DEF SendInv, DataOK
<1>. QED BY <1>5, <1>6, <1>7, <1>8, <1>9, <1>10, <1>11, <1>12 DEF SendInv

\* So do its data.
LEMMA WriteDataKeeps ==
    ASSUME SendInv, WriteData
    PROVE  SendInv'
<1>1. /\ TypeOK /\ cpc = "data" /\ cpc' = "reply" /\ ret' \in {-1, 0}
      /\ msg.size \in Size
      /\ UNCHANGED <<msg, whole, core, spc, msg_pos, fill, asked, served, seen>>
  BY DEF SendInv, TypeOK, Header, WriteData, threadVars, ghosts
<1>2. \E n \in {-1} \cup Size : emi_write("sender", {}, msg.size, n)
  BY DEF WriteData
<1>3. /\ wire' \in [End -> Wire] /\ rst' \in [End -> BOOLEAN]
      /\ open' = open
      /\ happened' = happened \/ happened' = happened \cup {"stall"}
      /\ wire'["sender"] = wire["sender"]
      /\ \/ wire'["core"].head = wire["core"].head
         \/ wire'["core"].head = wire["core"].head \cup {}
      /\ rst'["core"] = rst["core"]
      /\ rst'["sender"] => rst["sender"] \/ ~open["core"]
  BY <1>1, <1>2, SenderWrites
<1>4. TypeOK'
  BY <1>1, <1>3 DEF SendInv, TypeOK, ClientLabel, ThreadLabel, Fill, Fault, Wire
<1>5. LinkOK'
  BY <1>1, <1>3 DEF SendInv, LinkOK, Unbroken, Gone, Past, Over, Empty
<1>6. RequestOK'
  BY <1>1, <1>3 DEF SendInv, RequestOK, Waiting
<1>7. AnswerOK'
  BY <1>1, <1>3 DEF SendInv, AnswerOK, Past
<1>8. StandOK'
  BY <1>1, <1>3 DEF SendInv, StandOK, Unbroken, Waiting, Past, Over, Empty, Answers
<1>9. BlockOK'
  BY <1>1, <1>3 DEF SendInv, BlockOK, Unbroken, Waiting, Over
<1>10. WholeOK'
  BY <1>1, <1>3 DEF SendInv, WholeOK
<1>11. DataOK'
  BY <1>1, <1>3 DEF SendInv, DataOK
<1>. QED BY <1>4, <1>5, <1>6, <1>7, <1>8, <1>9, <1>10, <1>11 DEF SendInv

\* A NONBLOCK call does not wait.
LEMMA NoReplyKeeps ==
    ASSUME SendInv, NoReply
    PROVE  SendInv'
<1>1. /\ cpc = "reply" /\ cpc' = "close" /\ msg = asked
      /\ asked.flag \cap {"BLOCK", "BLOCK_RETURN"} = {}
      /\ UNCHANGED <<msg, whole, ret, wire, open, rst, happened, core, spc,
                     msg_pos, fill, asked, served, seen>>
  BY DEF SendInv, RequestOK, Waiting, NoReply, streamVars, threadVars, ghosts
<1>2. TypeOK'
  BY <1>1 DEF SendInv, TypeOK, ClientLabel, ThreadLabel, Fill, Fault, Wire
<1>3. LinkOK'
  BY <1>1 DEF SendInv, LinkOK, Unbroken, Gone, Past, Over, Empty
<1>4. RequestOK'
  BY <1>1 DEF SendInv, RequestOK, Waiting
<1>5. AnswerOK'
  BY <1>1 DEF SendInv, AnswerOK, Past
<1>6. StandOK'
  BY <1>1 DEF SendInv, StandOK, Unbroken, Waiting, Past, Over, Empty, Answers
<1>7. BlockOK'
  BY <1>1 DEF SendInv, BlockOK, Unbroken, Waiting, Over
<1>8. WholeOK'
  BY <1>1 DEF SendInv, WholeOK
<1>9. DataOK'
  BY <1>1 DEF SendInv, DataOK
<1>. QED BY <1>2, <1>3, <1>4, <1>5, <1>6, <1>7, <1>8, <1>9 DEF SendInv

\* An answer that is there ends a BLOCK call with 0 if it says so.
LEMMA ReadBlockKeeps ==
    ASSUME SendInv, ReadBlock
    PROVE  SendInv'
<1>1. /\ TypeOK /\ cpc = "reply" /\ cpc' = "close" /\ ret' \in {-1, 0}
      /\ msg = asked /\ "BLOCK" \in asked.flag
      /\ UNCHANGED <<msg, whole, core, spc, msg_pos, fill, asked, served, seen>>
  BY DEF SendInv, RequestOK, Waiting, ReadBlock, threadVars, ghosts
<1>2. /\ open' = open /\ rst' = rst /\ happened' = happened
      /\ wire' \in [End -> Wire] /\ wire'["core"] = wire["core"]
      /\ wire'["sender"].head = {}
      /\ wire'["sender"] # Empty => wire["sender"] # Empty
      /\ \/ \E cmd \in wire["sender"].head :
               /\ ret' = IF "SUCCEEDED" \in cmd.flag THEN 0 ELSE -1
               /\ Past
         \/ /\ wire["sender"].head = {} /\ ret' = -1
            /\ Unbroken => spc = "none"
  <2>1. CASE \E cmd \in Header :
                 /\ ReadHeader("sender", cmd)
                 /\ ret' = IF "SUCCEEDED" \in cmd.flag THEN 0 ELSE -1
    <3>1. PICK cmd \in Header :
              /\ ReadHeader("sender", cmd)
              /\ ret' = IF "SUCCEEDED" \in cmd.flag THEN 0 ELSE -1
      BY <2>1
    <3>2. cmd \in wire["sender"].head /\ wire["sender"] # Empty
      BY <3>1 DEF ReadHeader, Empty
    <3>3. Past
      BY <3>2 DEF SendInv, LinkOK
    <3>4. /\ wire' \in [End -> Wire] /\ wire'["core"] = wire["core"]
          /\ wire'["sender"] = [head |-> {}, units |-> wire["sender"].units]
          /\ open' = open /\ rst' = rst /\ happened' = happened
      BY <1>1, <3>1, HeaderRead, EndFacts
    <3>. QED BY <3>1, <3>2, <3>3, <3>4
  <2>2. CASE (\E n \in {-1, 0} : NoHeader("sender", n)) /\ ret' = -1
    <3>1. /\ UNCHANGED <<wire, open, rst, happened>> /\ wire["sender"].head = {}
          /\ rst["sender"] \/ ~open["core"]
      BY <2>2, EndFacts DEF NoHeader, ReadFails, streamVars
    <3>2. Unbroken => spc = "none"
      BY <3>1 DEF SendInv, LinkOK
    <3>. QED BY <1>1, <2>2, <3>1, <3>2 DEF TypeOK, Wire
  <2>. QED BY <2>1, <2>2 DEF ReadBlock
<1>3. TypeOK'
  BY <1>1, <1>2 DEF SendInv, TypeOK, ClientLabel, ThreadLabel, Fill, Fault, Wire
<1>4. LinkOK'
  BY <1>1, <1>2 DEF SendInv, LinkOK, Unbroken, Gone, Past, Over, Empty
<1>5. RequestOK'
  BY <1>1, <1>2 DEF SendInv, RequestOK, Waiting
<1>6. AnswerOK'
  BY <1>1, <1>2 DEF SendInv, AnswerOK, Past
<1>7. StandOK'
  BY <1>1, <1>2 DEF SendInv, StandOK, Unbroken, Waiting, Past, Over, Empty, Answers
<1>8. BlockOK'
  <2>1. wire["sender"].head = {[flag |-> {"SUCCEEDED"}, size |-> 0]} => ret' = 0
    <3>. SUFFICES ASSUME wire["sender"].head = {[flag |-> {"SUCCEEDED"}, size |-> 0]}
                  PROVE  ret' = 0
      OBVIOUS
    <3>1. wire["sender"].head # {}
      OBVIOUS
    <3>2. PICK cmd \in wire["sender"].head :
              ret' = IF "SUCCEEDED" \in cmd.flag THEN 0 ELSE -1
      BY <1>2, <3>1
    <3>3. cmd.flag = {"SUCCEEDED"}
      OBVIOUS
    <3>. QED BY <3>2, <3>3
  <2>2. Unbroken /\ Over' => Over /\ Waiting
    BY <1>1 DEF Over, Waiting
  <2>. QED BY <1>1, <1>2, <2>1, <2>2 DEF SendInv, BlockOK, Unbroken, Waiting
<1>9. WholeOK'
  BY <1>1, <1>2 DEF SendInv, WholeOK
<1>10. DataOK'
  BY <1>1, <1>2 DEF SendInv, DataOK
<1>. QED BY <1>3, <1>4, <1>5, <1>6, <1>7, <1>8, <1>9, <1>10 DEF SendInv

\* The answer to a BLOCK_RETURN call replaces its message.
LEMMA ReadBlockReturnKeeps ==
    ASSUME SendInv, ReadBlockReturn
    PROVE  SendInv'
<1>1. /\ TypeOK /\ cpc = "reply" /\ msg = asked /\ ret' \in {-1, 0, ret}
      /\ "BLOCK_RETURN" \in asked.flag /\ "BLOCK" \notin asked.flag
      /\ IF "SUCCEEDED" \notin msg'.flag THEN cpc' = "close" /\ ret' = -1
         ELSE cpc' = IF msg'.size = 0 THEN "close" ELSE "returned"
      /\ UNCHANGED <<core, spc, msg_pos, fill, asked, served, seen>>
  BY DEF SendInv, RequestOK, Waiting, ReadBlockReturn, threadVars, ghosts
<1>2. /\ open' = open /\ rst' = rst /\ happened' = happened /\ msg' \in Header
      /\ wire' \in [End -> Wire] /\ wire'["core"] = wire["core"]
      /\ \/ /\ msg' \in wire["sender"].head /\ whole' = (msg'.size = 0) /\ Past
            /\ wire'["sender"] = [head |-> {}, units |-> wire["sender"].units]
         \/ /\ wire' = wire /\ wire["sender"].head = {} /\ UNCHANGED <<msg, whole>>
            /\ Unbroken => spc = "none"
  <2>1. CASE \E head \in Header : /\ ReadHeader("sender", head)
                                 /\ msg' = head /\ whole' = (head.size = 0)
    <3>1. ReadHeader("sender", msg') /\ msg' \in Header /\ whole' = (msg'.size = 0)
      BY <2>1
    <3>2. msg' \in wire["sender"].head /\ wire["sender"] # Empty
      BY <3>1 DEF ReadHeader, Empty
    <3>3. Past
      BY <3>2 DEF SendInv, LinkOK
    <3>. QED BY <1>1, <3>1, <3>2, <3>3, HeaderRead, EndFacts
  <2>2. CASE \E n \in {-1, 0} : NoHeader("sender", n) /\ UNCHANGED <<msg, whole>>
    <3>1. /\ UNCHANGED <<wire, open, rst, happened>> /\ wire["sender"].head = {}
          /\ rst["sender"] \/ ~open["core"]
      BY <2>2, EndFacts DEF NoHeader, ReadFails, streamVars
    <3>2. Unbroken => spc = "none"
      BY <3>1 DEF SendInv, LinkOK
    <3>. QED BY <1>1, <2>2, <3>1, <3>2 DEF TypeOK, Wire
  <2>. QED BY <2>1, <2>2 DEF ReadBlockReturn
<1>3. wire'["sender"] # Empty => wire["sender"] # Empty
  BY <1>2 DEF Empty
<1>4. TypeOK'
  BY <1>1, <1>2, <1>3 DEF SendInv, TypeOK, ClientLabel, ThreadLabel, Fill, Fault, Wire
<1>5. LinkOK'
  BY <1>1, <1>2, <1>3 DEF SendInv, LinkOK, Unbroken, Gone, Past, Over, Empty
<1>6. RequestOK'
  BY <1>1, <1>2, <1>3 DEF SendInv, RequestOK, Waiting
<1>7. AnswerOK'
  BY <1>1, <1>2, <1>3 DEF SendInv, AnswerOK, Past
<1>8. StandOK'
  <2>1. ASSUME Unbroken, spc = "returned"
        PROVE  cpc' = "returned" /\ wire'["sender"] = Empty /\ msg' = msg_pos
    <3>1. /\ wire["sender"] = [head |-> {msg_pos}, units |-> 0]
          /\ msg_pos.size > 0 /\ "SUCCEEDED" \in msg_pos.flag
      BY <1>1, <2>1 DEF SendInv, StandOK
    <3>. QED BY <1>1, <1>2, <2>1, <3>1 DEF Empty
  <2>. QED
    BY <1>1, <1>2, <2>1 DEF SendInv, StandOK, Unbroken, Over, Past, Waiting
<1>9. BlockOK'
  BY <1>1, <1>2, <1>3 DEF SendInv, BlockOK, Unbroken, Waiting, Over
<1>10. WholeOK'
  <2>. SUFFICES ASSUME happened' = {}, asked.flag \cap {"BLOCK", "SUCCEEDED"} = {}
                PROVE  WholeOK'
    BY <1>1 DEF WholeOK
  <2>1. happened = {} /\ "SUCCEEDED" \notin msg.flag
    BY <1>1, <1>2
  <2>2. CASE msg' \in wire["sender"].head
    <3>1. wire'["sender"].head = {} /\ wire'["sender"].units = wire["sender"].units
      BY <1>2, <2>2
    <3>2. msg'.size \in Nat
      BY <1>2, SizeFacts DEF Header
    <3>3. cpc' = "returned" =>
             msg'.size > 0 /\ (spc = "returned" \/ wire["sender"].units = msg'.size)
      BY <1>1, <2>1, <2>2, <3>2 DEF SendInv, WholeOK
    <3>4. cpc' = "close" /\ ret' = 0 => whole'
      <4>1. whole' = (msg'.size = 0)
        BY <1>2, <2>2
      <4>2. cpc' = "close" /\ ret' = 0 => msg'.size = 0
        BY <1>1
      <4>. QED BY <4>1, <4>2
    <3>. QED BY <1>1, <3>1, <3>3, <3>4 DEF WholeOK
  <2>3. CASE UNCHANGED <<wire, msg>> /\ wire["sender"].head = {}
    BY <1>1, <2>1, <2>3 DEF WholeOK
  <2>. QED BY <1>2, <2>2, <2>3
<1>11. DataOK'
  BY <1>1, <1>2, <1>3 DEF SendInv, DataOK
<1>. QED BY <1>4, <1>5, <1>6, <1>7, <1>8, <1>9, <1>10, <1>11 DEF SendInv

\* Without a fault the returned data come in one piece.
LEMMA ReadReturnedKeeps ==
    ASSUME SendInv, ReadReturned
    PROVE  SendInv'
<1>1. /\ TypeOK /\ cpc = "returned" /\ cpc' = "close" /\ ret' = 0 /\ msg.size \in Size
      /\ UNCHANGED <<msg, core, spc, msg_pos, fill, asked, served, seen>>
  BY DEF SendInv, TypeOK, Header, ReadReturned, threadVars, ghosts
<1>2. PICK n \in {-1} \cup Size :
          ReadUnits("sender", msg.size, n) /\ whole' = (n = msg.size)
  BY DEF ReadReturned
<1>3. /\ wire' \in [End -> Wire]
      /\ wire'["sender"].head = wire["sender"].head /\ wire'["core"] = wire["core"]
      /\ open' = open /\ rst' = rst
      /\ happened' = happened \/ happened' = happened \cup {"segment"}
      /\ \/ msg.size = 0 /\ n = 0 /\ wire' = wire
         \/ /\ msg.size > 0 /\ n > 0 /\ n <= msg.size /\ wire["sender"].units > 0
            /\ happened' = {} => n = msg.size \/ n = wire["sender"].units
         \/ /\ msg.size > 0 /\ wire["sender"].units = 0 /\ wire' = wire
            /\ \/ rst["sender"] /\ n = -1
               \/ ~rst["sender"] /\ ~open["core"] /\ n = 0
  <2>1. TypeOK /\ msg.size \in Size /\ "sender" \in End
    BY <1>1, EndFacts
  <2>2. /\ wire' \in [End -> Wire]
        /\ wire'["sender"].head = wire["sender"].head
        /\ wire'[Peer("sender")] = wire[Peer("sender")]
        /\ open' = open /\ rst' = rst
        /\ happened' = happened \/ happened' = happened \cup {"segment"}
    BY <1>2, <2>1, UnitsRead
  <2>3. \/ msg.size = 0 /\ n = 0 /\ wire' = wire
        \/ /\ msg.size > 0 /\ n > 0 /\ n <= msg.size /\ wire["sender"].units > 0
           /\ happened' = {} => n = msg.size \/ n = wire["sender"].units
        \/ /\ msg.size > 0 /\ wire["sender"].units = 0 /\ wire' = wire
           /\ \/ rst["sender"] /\ n = -1
              \/ ~rst["sender"] /\ ~open[Peer("sender")] /\ n = 0
    BY <1>2, <2>1, UnitsRead
  <2>. QED BY <2>2, <2>3, EndFacts
<1>4. wire'["sender"] # Empty => wire["sender"] # Empty
  BY <1>1, <1>3, SizeFacts DEF Empty
<1>5. whole' \in BOOLEAN
  BY <1>2
<1>6. TypeOK'
  BY <1>1, <1>3, <1>4, <1>5
     DEF SendInv, TypeOK, ClientLabel, ThreadLabel, Fill, Fault, Wire
<1>7. LinkOK'
  BY <1>1, <1>3, <1>4, <1>5 DEF SendInv, LinkOK, Unbroken, Gone, Past, Over, Empty
<1>8. RequestOK'
  BY <1>1, <1>3, <1>4, <1>5 DEF SendInv, RequestOK, Waiting
<1>9. AnswerOK'
  BY <1>1, <1>3, <1>4, <1>5 DEF SendInv, AnswerOK, Past
<1>10. StandOK'
  BY <1>1, <1>3, <1>4, <1>5
     DEF SendInv, StandOK, LinkOK, Unbroken, Waiting, Past, Over, Empty, Answers,
         Gone
<1>11. BlockOK'
  BY <1>1, <1>3, <1>4, <1>5 DEF SendInv, BlockOK, Unbroken, Waiting, Over
<1>12. WholeOK'
  <2>. SUFFICES ASSUME happened' = {}, asked.flag \cap {"BLOCK", "SUCCEEDED"} = {}
                PROVE  WholeOK'
    BY <1>1 DEF WholeOK
  <2>1. happened = {} /\ Unbroken
    BY <1>3 DEF Unbroken
  <2>2. /\ wire["sender"].head = {} /\ msg.size > 0
        /\ spc = "returned" \/ wire["sender"].units = msg.size
    BY <1>1, <2>1 DEF SendInv, WholeOK
  <2>3. n = msg.size
    <3>1. CASE spc = "returned"
      <4>1. wire["sender"].units = 0
        BY <1>1, <2>1, <3>1 DEF SendInv, StandOK, Waiting, Empty
      <4>2. open["core"] /\ ~rst["sender"]
        BY <2>1, <3>1 DEF SendInv, LinkOK
      <4>. QED BY <1>3, <2>2, <4>1, <4>2
    <3>2. CASE wire["sender"].units = msg.size
      BY <1>3, <2>2, <3>2
    <3>. QED BY <2>2, <3>1, <3>2
  <2>. QED BY <1>1, <1>2, <1>3, <2>2, <2>3 DEF WholeOK
<1>13. DataOK'
  BY <1>1, <1>3, <1>4, <1>5 DEF SendInv, DataOK
<1>. QED BY <1>6, <1>7, <1>8, <1>9, <1>10, <1>11, <1>12, <1>13 DEF SendInv

\* The call ends with what it has learned.
LEMMA CloseKeeps ==
    ASSUME SendInv, Close
    PROVE  SendInv'
<1>1. /\ TypeOK /\ cpc = "close" /\ cpc' = "idle" /\ emi_close("sender")
      /\ UNCHANGED <<msg, whole, ret, core, spc, msg_pos, fill, asked,
                     served, seen>>
  BY DEF SendInv, Close, threadVars, ghosts
<1>2. /\ wire' \in [End -> Wire] /\ rst' \in [End -> BOOLEAN]
      /\ open' \in [End -> BOOLEAN] /\ happened' = happened
      /\ ~open'["sender"] /\ open'["core"] = open["core"]
      /\ wire'["sender"] = Empty /\ wire'["core"] = wire["core"]
      /\ rst'["sender"] = rst["sender"]
      /\ rst'["core"] <=> rst["core"] \/ (open["sender"] /\ wire["sender"] # Empty)
  BY <1>1, CloseFacts, EndFacts
<1>3. TypeOK'
  BY <1>1, <1>2, EndFacts
     DEF SendInv, TypeOK, ClientLabel, ThreadLabel, Fill, Fault, Wire
<1>4. LinkOK'
  BY <1>1, <1>2, EndFacts
     DEF SendInv, LinkOK, StandOK, Unbroken, Gone, Past, Over, Empty, Waiting,
         Answers
<1>5. RequestOK'
  BY <1>1, <1>2, EndFacts DEF SendInv, RequestOK, Waiting
<1>6. AnswerOK'
  BY <1>1, <1>2, EndFacts
     DEF SendInv, AnswerOK, LinkOK, Past, Unbroken, Gone, Over, Empty
<1>7. StandOK'
  BY <1>1, <1>2, EndFacts
     DEF SendInv, StandOK, Unbroken, Waiting, Past, Over, Empty, Answers
<1>8. BlockOK'
  BY <1>1, <1>2, EndFacts DEF SendInv, BlockOK, Unbroken, Waiting, Over
<1>9. WholeOK'
  BY <1>1, <1>2, EndFacts
     DEF SendInv, WholeOK, LinkOK, Unbroken, Gone, Past, Over, Empty
<1>10. DataOK'
  BY <1>1, <1>2, EndFacts DEF SendInv, DataOK
<1>. QED BY <1>3, <1>4, <1>5, <1>6, <1>7, <1>8, <1>9, <1>10 DEF SendInv

\* Its process takes back nothing, and what it leaves unread resets emi_core.
LEMMA SenderDiesKeeps ==
    ASSUME SendInv, SenderDies
    PROVE  SendInv'
<1>1. /\ TypeOK /\ cpc' = "dead" /\ msg' = Zero /\ whole' = TRUE /\ ret' = 0
      /\ UNCHANGED <<core, spc, msg_pos, fill, asked, served, seen>>
  BY DEF SendInv, SenderDies, threadVars, ghosts
<1>2. /\ wire' = [wire EXCEPT !["sender"] = Empty]
      /\ open' = [open EXCEPT !["sender"] = FALSE]
      /\ rst' = [rst EXCEPT !["core"] = @ \/ wire["sender"] # Empty]
      /\ happened' = happened \cup {"die"}
  BY DEF SenderDies
<1>3. /\ wire' \in [End -> Wire]
      /\ open' \in [End -> BOOLEAN] /\ rst' \in [End -> BOOLEAN]
      /\ wire'["sender"] = Empty /\ wire'["core"] = wire["core"]
      /\ ~open'["sender"] /\ open'["core"] = open["core"]
      /\ rst'["core"] <=> rst["core"] \/ wire["sender"] # Empty
      /\ rst'["sender"] = rst["sender"]
      /\ happened' = happened \cup {"die"}
  BY <1>1, <1>2, EndFacts DEF TypeOK, Wire, Empty
<1>4. TypeOK'
  BY <1>1, <1>3, SizeFacts, MaxAssumption
     DEF SendInv, TypeOK, ClientLabel, ThreadLabel, Fill, Fault, Wire, Zero, Header,
         Size
<1>5. LinkOK'
  BY <1>1, <1>3 DEF SendInv, LinkOK, Unbroken, Gone, Past, Over, Empty
<1>6. RequestOK'
  BY <1>1, <1>3 DEF SendInv, RequestOK, Waiting
<1>7. AnswerOK'
  BY <1>1, <1>3 DEF SendInv, AnswerOK, LinkOK, Past, Unbroken, Gone, Over, Empty
<1>8. StandOK'
  BY <1>1, <1>3 DEF SendInv, StandOK, Unbroken, Waiting, Past, Over, Empty, Answers
<1>9. BlockOK'
  BY <1>1, <1>3 DEF SendInv, BlockOK, Unbroken, Waiting, Over
<1>10. WholeOK'
  BY <1>1, <1>3 DEF SendInv, WholeOK
<1>11. DataOK'
  BY <1>1, <1>3 DEF SendInv, DataOK
<1>. QED BY <1>4, <1>5, <1>6, <1>7, <1>8, <1>9, <1>10, <1>11 DEF SendInv

\* The connection has a thread or nobody.
LEMMA AcceptKeeps ==
    ASSUME SendInv, Accept
    PROVE  SendInv'
<1>1. /\ spc = "accept" /\ spc' \in {"obtain", "lost"}
      /\ happened' = happened \/ happened' = happened \cup {"unstarted"}
      /\ UNCHANGED <<cpc, msg, whole, ret, wire, open, rst, core,
                     msg_pos, fill, asked, served, seen>>
  BY DEF Accept, clientVars, ghosts
<1>2. TypeOK'
  BY <1>1 DEF SendInv, TypeOK, ClientLabel, ThreadLabel, Fill, Fault, Wire
<1>3. LinkOK'
  BY <1>1 DEF SendInv, LinkOK, Unbroken, Gone, Past, Over, Empty
<1>4. RequestOK'
  BY <1>1 DEF SendInv, RequestOK, Waiting
<1>5. AnswerOK'
  BY <1>1 DEF SendInv, AnswerOK, Past
<1>6. StandOK'
  BY <1>1 DEF SendInv, StandOK, Unbroken, Waiting, Past, Over, Empty, Answers
<1>7. BlockOK'
  BY <1>1 DEF SendInv, BlockOK, RequestOK, Unbroken, Waiting, Over
<1>8. WholeOK'
  BY <1>1 DEF SendInv, WholeOK
<1>9. DataOK'
  BY <1>1 DEF SendInv, DataOK
<1>. QED BY <1>2, <1>3, <1>4, <1>5, <1>6, <1>7, <1>8, <1>9 DEF SendInv

\* The thread has an area or gives up.
LEMMA ObtainKeeps ==
    ASSUME SendInv, Obtain
    PROVE  SendInv'
<1>1. /\ spc = "obtain" /\ spc' \in {"header", "e0"}
      /\ UNCHANGED <<cpc, msg, whole, ret, wire, open, rst, happened, core,
                     msg_pos, fill, asked, served, seen>>
  BY DEF Obtain, clientVars, streamVars, ghosts
<1>2. TypeOK'
  BY <1>1 DEF SendInv, TypeOK, ClientLabel, ThreadLabel, Fill, Fault, Wire
<1>3. LinkOK'
  BY <1>1 DEF SendInv, LinkOK, Unbroken, Gone, Past, Over, Empty
<1>4. RequestOK'
  BY <1>1 DEF SendInv, RequestOK, Waiting
<1>5. AnswerOK'
  BY <1>1 DEF SendInv, AnswerOK, Past
<1>6. StandOK'
  BY <1>1 DEF SendInv, StandOK, Unbroken, Waiting, Past, Over, Empty, Answers
<1>7. BlockOK'
  BY <1>1 DEF SendInv, BlockOK, RequestOK, Unbroken, Waiting, Over
<1>8. WholeOK'
  BY <1>1 DEF SendInv, WholeOK
<1>9. DataOK'
  BY <1>1 DEF SendInv, DataOK
<1>. QED BY <1>2, <1>3, <1>4, <1>5, <1>6, <1>7, <1>8, <1>9 DEF SendInv

\* What the thread reads is the request, unless the connection is reset.
LEMMA ReadRequestKeeps ==
    ASSUME SendInv, ReadRequest
    PROVE  SendInv'
<1>1. /\ TypeOK /\ spc = "header"
      /\ UNCHANGED <<cpc, msg, whole, ret, core, fill, asked, served, seen>>
  BY DEF SendInv, ReadRequest, clientVars, ghosts
<1>2. /\ open' = open /\ rst' = rst /\ happened' = happened
      /\ wire' \in [End -> Wire] /\ wire'["sender"] = wire["sender"]
      /\ wire'["core"].head = {} /\ msg_pos' \in Header
      /\ \/ msg_pos' \in wire["core"].head /\ spc' = "data"
         \/ msg_pos' = msg_pos /\ spc' = "e0"
         \/ msg_pos' = msg_pos /\ spc' = "data" /\ rst["core"]
  <2>1. CASE \E head \in Header :
                 ReadHeader("core", head) /\ msg_pos' = head /\ spc' = "data"
    <3>1. ReadHeader("core", msg_pos') /\ msg_pos' \in Header /\ spc' = "data"
      BY <2>1
    <3>2. /\ wire' \in [End -> Wire] /\ wire'["sender"] = wire["sender"]
          /\ wire'["core"] = [head |-> {}, units |-> wire["core"].units]
          /\ msg_pos' \in wire["core"].head
          /\ open' = open /\ rst' = rst /\ happened' = happened
      BY <1>1, <3>1, HeaderRead, EndFacts
    <3>. QED BY <3>1, <3>2
  <2>2. CASE NoHeader("core", 0) /\ spc' = "e0" /\ UNCHANGED msg_pos
    BY <1>1, <2>2 DEF TypeOK, Wire, NoHeader, ReadFails, streamVars
  <2>3. CASE NoHeader("core", -1) /\ spc' = "data" /\ UNCHANGED msg_pos
    BY <1>1, <2>3 DEF TypeOK, Wire, NoHeader, ReadFails, streamVars
  <2>. QED BY <2>1, <2>2, <2>3 DEF ReadRequest
<1>3. TypeOK'
  BY <1>1, <1>2 DEF SendInv, TypeOK, ClientLabel, ThreadLabel, Fill, Fault, Wire
<1>4. LinkOK'
  BY <1>1, <1>2 DEF SendInv, LinkOK, Unbroken, Gone, Past, Over, Empty
<1>5. RequestOK'
  BY <1>1, <1>2 DEF SendInv, RequestOK, Waiting
<1>6. AnswerOK'
  BY <1>1, <1>2 DEF SendInv, AnswerOK, Past
<1>7. StandOK'
  BY <1>1, <1>2 DEF SendInv, StandOK, Unbroken, Waiting, Past, Over, Empty, Answers
<1>8. BlockOK'
  BY <1>1, <1>2 DEF SendInv, BlockOK, RequestOK, Unbroken, Waiting, Over
<1>9. WholeOK'
  BY <1>1, <1>2 DEF SendInv, WholeOK
<1>10. DataOK'
  BY <1>1, <1>2 DEF SendInv, DataOK
<1>. QED BY <1>3, <1>4, <1>5, <1>6, <1>7, <1>8, <1>9, <1>10 DEF SendInv

\* So are the data.
LEMMA ReadDataKeeps ==
    ASSUME SendInv, ReadData
    PROVE  SendInv'
<1>1. /\ TypeOK /\ spc = "data" /\ msg_pos.size \in Size
      /\ UNCHANGED <<cpc, msg, whole, ret, core, msg_pos, asked, served, seen>>
  BY DEF SendInv, TypeOK, Header, ReadData, clientVars, ghosts
<1>2. /\ wire' \in [End -> Wire] /\ wire'["sender"] = wire["sender"]
      /\ wire'["core"].head = wire["core"].head
      /\ open' = open /\ rst' = rst
      /\ happened' = happened \/ happened' = happened \cup {"segment"}
      /\ spc' \in {"e0", "search"} /\ fill' \in Fill
      /\ "DATA" \in msg_pos.flag /\ msg_pos.size < MAX_DATA /\ spc' = "search"
            => rst["core"] \/ fill' = "sent"
  <2>1. CASE ~("DATA" \in msg_pos.flag /\ msg_pos.size < MAX_DATA)
    BY <1>1, <2>1 DEF ReadData, TypeOK, Wire, streamVars
  <2>2. CASE "DATA" \in msg_pos.flag /\ msg_pos.size < MAX_DATA
    <3>1. PICK n \in {-1} \cup Size :
              /\ ReadUnits("core", msg_pos.size, n)
              /\ spc' = IF TooFew(n, msg_pos.size) THEN "e0" ELSE "search"
              /\ fill' = IF n = msg_pos.size THEN "sent" ELSE fill
      BY <2>2 DEF ReadData
    <3>2. /\ wire' \in [End -> Wire] /\ wire'["sender"] = wire["sender"]
          /\ wire'["core"].head = wire["core"].head
          /\ open' = open /\ rst' = rst
          /\ happened' = happened \/ happened' = happened \cup {"segment"}
      BY <1>1, <3>1, UnitsRead, EndFacts
    <3>3. msg_pos.size \in Nat /\ n \in Nat \cup {-1}
      BY <1>1, SizeFacts
    <3>4. \/ n = 0
          \/ n > 0 /\ n <= msg_pos.size
          \/ n = -1 /\ rst["core"]
      BY <1>1, <3>1, UnitsRead, EndFacts
    <3>5. TooFew(n, msg_pos.size) \/ n = msg_pos.size \/ (n = -1 /\ rst["core"])
      BY <3>3, <3>4 DEF TooFew
    <3>. QED
      BY <1>1, <3>1, <3>2, <3>5 DEF TypeOK, Fill
  <2>. QED BY <2>1, <2>2
<1>3. TypeOK'
  BY <1>1, <1>2 DEF SendInv, TypeOK, ClientLabel, ThreadLabel, Fill, Fault, Wire
<1>4. LinkOK'
  BY <1>1, <1>2 DEF SendInv, LinkOK, Unbroken, Gone, Past, Over, Empty
<1>5. RequestOK'
  BY <1>1, <1>2
     DEF SendInv, RequestOK, LinkOK, AnswerOK, StandOK, Waiting, Unbroken, Gone,
         Past, Over, Empty, Answers
<1>6. AnswerOK'
  BY <1>1, <1>2 DEF SendInv, AnswerOK, Past
<1>7. StandOK'
  BY <1>1, <1>2 DEF SendInv, StandOK, Unbroken, Waiting, Past, Over, Empty, Answers
<1>8. BlockOK'
  BY <1>1, <1>2 DEF SendInv, BlockOK, RequestOK, Unbroken, Waiting, Over
<1>9. WholeOK'
  BY <1>1, <1>2 DEF SendInv, WholeOK
<1>10. DataOK'
  BY <1>1, <1>2
     DEF SendInv, DataOK, LinkOK, RequestOK, Unbroken, Gone, Past, Over, Empty,
         Waiting
<1>. QED BY <1>3, <1>4, <1>5, <1>6, <1>7, <1>8, <1>9, <1>10 DEF SendInv

\* Whoever is registered is served.
LEMMA SearchKeeps ==
    ASSUME SendInv, Search
    PROVE  SendInv'
<1>1. /\ spc = "search" /\ spc' = "reply" /\ served' = {msg_pos}
      /\ UNCHANGED <<cpc, msg, whole, ret, wire, open, rst, happened, core, asked>>
  BY DEF Search, clientVars, streamVars
<1>2. /\ msg_pos' \in Header /\ fill' \in Fill
      /\ msg_pos'.flag \ {"SUCCEEDED"} = msg_pos.flag \ {"SUCCEEDED"}
      /\ "SUCCEEDED" \in msg_pos'.flag => "SUCCEEDED" \in msg_pos.flag \/ seen' # {}
      /\ seen' \in {{}, {fill}}
  <2>1. msg_pos \in Header /\ fill \in Fill
    BY DEF SendInv, TypeOK
  <2>2. CASE UNCHANGED <<msg_pos, fill>> /\ seen' \in {{}, {fill}}
    BY <2>1, <2>2
  <2>3. CASE \E ok \in BOOLEAN :
                /\ msg_pos' = [msg_pos EXCEPT !.flag = SetSucceeded(@, ok)]
                /\ fill' = fill /\ seen' = {fill}
    BY <2>1, <2>3 DEF Header, Bit, SetSucceeded
  <2>4. CASE \E ok \in BOOLEAN, n \in Sizes :
                /\ msg_pos' = [flag |-> SetSucceeded(msg_pos.flag, ok), size |-> n]
                /\ fill' = "returned" /\ seen' = {fill}
    BY <2>1, <2>4, SizesAssumption DEF Header, Bit, SetSucceeded, Fill
  <2>. QED BY <2>2, <2>3, <2>4 DEF Search
<1>3. TypeOK'
  BY <1>1, <1>2 DEF SendInv, TypeOK, ClientLabel, ThreadLabel, Fill, Fault, Wire
<1>4. LinkOK'
  BY <1>1, <1>2 DEF SendInv, LinkOK, Unbroken, Gone, Past, Over, Empty
<1>5. RequestOK'
  BY <1>1, <1>2 DEF SendInv, RequestOK, Waiting
<1>6. AnswerOK'
  BY <1>1, <1>2 DEF SendInv, AnswerOK, LinkOK, Past, Unbroken, Gone, Over, Empty
<1>7. StandOK'
  BY <1>1, <1>2 DEF SendInv, StandOK, Unbroken, Waiting, Past, Over, Empty, Answers
<1>8. BlockOK'
  BY <1>1, <1>2 DEF SendInv, BlockOK, Unbroken, Waiting, Over
<1>9. WholeOK'
  BY <1>1, <1>2 DEF SendInv, WholeOK
<1>10. DataOK'
  BY <1>1, <1>2 DEF SendInv, DataOK
<1>. QED BY <1>3, <1>4, <1>5, <1>6, <1>7, <1>8, <1>9, <1>10 DEF SendInv

\* A thread that does not answer has read a message that wants no answer.
LEMMA NoAnswerKeeps ==
    ASSUME SendInv, NoAnswer
    PROVE  SendInv'
<1>1. /\ spc = "reply" /\ ~Answers(msg_pos.flag) /\ spc' = "e0"
      /\ UNCHANGED <<cpc, msg, whole, ret, wire, open, rst, happened, core,
                     msg_pos, fill, asked, served, seen>>
  BY DEF NoAnswer, clientVars, streamVars, ghosts
<1>2. TypeOK'
  BY <1>1 DEF SendInv, TypeOK, ClientLabel, ThreadLabel, Fill, Fault, Wire
<1>3. LinkOK'
  BY <1>1 DEF SendInv, LinkOK, Unbroken, Gone, Past, Over, Empty
<1>4. RequestOK'
  BY <1>1 DEF SendInv, RequestOK, Waiting
<1>5. AnswerOK'
  BY <1>1 DEF SendInv, AnswerOK, Past
<1>6. StandOK'
  BY <1>1 DEF SendInv, StandOK, Unbroken, Waiting, Past, Over, Empty, Answers
<1>7. BlockOK'
  <2>1. ASSUME Unbroken, "BLOCK" \in asked.flag, "NONBLOCK" \notin asked.flag
        PROVE  FALSE
    <3>1. ~rst["core"]
      BY <1>1, <2>1 DEF SendInv, LinkOK, Over
    <3>2. msg_pos.flag \ {"SUCCEEDED"} = asked.flag \ {"SUCCEEDED"}
      BY <1>1, <3>1 DEF SendInv, RequestOK
    <3>. QED BY <1>1, <2>1, <3>2 DEF Answers
  <2>. QED BY <1>1, <2>1 DEF BlockOK, Unbroken
<1>8. WholeOK'
  BY <1>1 DEF SendInv, WholeOK
<1>9. DataOK'
  BY <1>1 DEF SendInv, DataOK
<1>. QED BY <1>2, <1>3, <1>4, <1>5, <1>6, <1>7, <1>8, <1>9 DEF SendInv

\* The answer to a BLOCK call says that it has been served.
LEMMA AnswerBlockKeeps ==
    ASSUME SendInv, AnswerBlock
    PROVE  SendInv'
<1>1. /\ TypeOK /\ spc = "reply" /\ spc' = "e0"
      /\ "BLOCK" \in msg_pos.flag /\ "NONBLOCK" \notin msg_pos.flag
      /\ UNCHANGED <<cpc, msg, whole, ret, core, msg_pos, fill, asked,
                     served, seen>>
  BY DEF SendInv, AnswerBlock, clientVars, ghosts
<1>2. \E n \in {-1, 0} :
          emi_write("core", {[flag |-> {"SUCCEEDED"}, size |-> 0]}, 0, n)
  BY DEF AnswerBlock
<1>3. 0 \in Size /\ {[flag |-> {"SUCCEEDED"}, size |-> 0]} \in SUBSET Header
  BY MaxAssumption DEF Header, Bit, Size
<1>4. /\ wire' \in [End -> Wire] /\ rst' \in [End -> BOOLEAN]
      /\ open' = open /\ happened' = happened
      /\ wire'["core"] = wire["core"]
      /\ rst'["sender"] = rst["sender"]
      /\ \/ /\ ~rst["core"] /\ ~rst'["core"] /\ open["sender"]
            /\ wire'["sender"].head =
                  wire["sender"].head \cup {[flag |-> {"SUCCEEDED"}, size |-> 0]}
            /\ wire'["sender"].units = wire["sender"].units + 0
         \/ ~rst["core"] /\ ~open["sender"] /\ wire' = wire
         \/ rst["core"] /\ rst'["core"] /\ wire' = wire
  BY <1>1, <1>2, <1>3, CoreWrites
<1>5. TypeOK'
  BY <1>1, <1>4 DEF SendInv, TypeOK, ClientLabel, ThreadLabel, Fill, Fault, Wire
<1>6. LinkOK'
  BY <1>1, <1>4 DEF SendInv, LinkOK, Unbroken, Gone, Past, Over, Empty
<1>7. RequestOK'
  BY <1>1, <1>4 DEF SendInv, RequestOK, Waiting
<1>8. AnswerOK'
  BY <1>1, <1>4 DEF SendInv, AnswerOK, RequestOK, Past, Waiting
<1>9. StandOK'
  BY <1>1, <1>4 DEF SendInv, StandOK, Unbroken, Waiting, Past, Over, Empty, Answers
<1>10. BlockOK'
  BY <1>1, <1>4
     DEF SendInv, BlockOK, LinkOK, StandOK, Unbroken, Waiting, Over, Gone, Past,
         Empty, Answers
<1>11. WholeOK'
  BY <1>1, <1>4 DEF SendInv, WholeOK, LinkOK, Unbroken, Gone, Past, Over, Empty
<1>12. DataOK'
  BY <1>1, <1>4 DEF SendInv, DataOK
<1>. QED BY <1>5, <1>6, <1>7, <1>8, <1>9, <1>10, <1>11, <1>12 DEF SendInv

\* The answer to a BLOCK_RETURN call has SUCCEEDED only from a receiver.
LEMMA AnswerBlockReturnKeeps ==
    ASSUME SendInv, AnswerBlockReturn
    PROVE  SendInv'
<1>1. /\ TypeOK /\ spc = "reply" /\ msg_pos \in Header
  BY DEF SendInv, TypeOK, AnswerBlockReturn
<1>2. /\ msg_pos' \in Header /\ msg_pos'.size = msg_pos.size
      /\ "BLOCK_RETURN" \in msg_pos.flag /\ "BLOCK" \notin msg_pos.flag
      /\ "NONBLOCK" \notin msg_pos.flag
      /\ "SUCCEEDED" \in msg_pos'.flag => "SUCCEEDED" \in msg_pos.flag
      /\ spc' = IF "SUCCEEDED" \in msg_pos'.flag /\ msg_pos'.size > 0
                THEN "returned" ELSE "e0"
      /\ UNCHANGED <<cpc, msg, whole, ret, core, fill, asked, served, seen>>
  BY <1>1 DEF AnswerBlockReturn, Header, Bit, clientVars, ghosts
<1>3. \E n \in {-1, 0} : emi_write("core", {msg_pos'}, 0, n)
  BY DEF AnswerBlockReturn
<1>4. 0 \in Size
  BY MaxAssumption DEF Size
<1>5. /\ wire' \in [End -> Wire] /\ rst' \in [End -> BOOLEAN]
      /\ open' = open /\ happened' = happened
      /\ wire'["core"] = wire["core"]
      /\ rst'["sender"] = rst["sender"]
      /\ \/ /\ ~rst["core"] /\ ~rst'["core"] /\ open["sender"]
            /\ wire'["sender"].head = wire["sender"].head \cup {msg_pos'}
            /\ wire'["sender"].units = wire["sender"].units + 0
         \/ ~rst["core"] /\ ~open["sender"] /\ wire' = wire
         \/ rst["core"] /\ rst'["core"] /\ wire' = wire
  BY <1>1, <1>2, <1>3, <1>4, CoreWrites
<1>6. wire["sender"] = Empty
  BY <1>1 DEF SendInv, LinkOK, Past
<1>7. TypeOK'
  BY <1>1, <1>2, <1>5, <1>6
     DEF SendInv, TypeOK, ClientLabel, ThreadLabel, Fill, Fault, Wire
<1>8. LinkOK'
  BY <1>1, <1>2, <1>5, <1>6
     DEF SendInv, LinkOK, RequestOK, StandOK, Unbroken, Gone, Past, Over, Empty,
         Waiting, Answers
<1>9. RequestOK'
  BY <1>1, <1>2, <1>5, <1>6 DEF SendInv, RequestOK, Waiting
<1>10. AnswerOK'
  BY <1>1, <1>2, <1>5, <1>6 DEF SendInv, AnswerOK, RequestOK, Past, Waiting
<1>11. StandOK'
  <2>. SUFFICES ASSUME Unbroken' PROVE StandOK'
    BY DEF StandOK
  <2>1. Unbroken
    BY <1>5 DEF Unbroken
  <2>2. ~rst["core"]
    BY <1>1, <2>1 DEF SendInv, LinkOK, Over
  <2>3. /\ "BLOCK" \notin asked.flag /\ "BLOCK_RETURN" \in asked.flag
        /\ Answers(asked.flag)
    BY <1>1, <1>2, <2>2 DEF SendInv, RequestOK, Answers
  <2>4. Waiting /\ open["sender"]
    BY <1>1, <2>1, <2>3
       DEF SendInv, LinkOK, StandOK, Over, Past, Waiting, Gone
  <2>5. wire'["sender"].head = {msg_pos'} /\ wire'["sender"].units = 0
    BY <1>5, <1>6, <2>2, <2>4 DEF Empty
  <2>6. wire'["sender"] = [head |-> {msg_pos'}, units |-> 0]
    BY <1>5, <2>5, EndFacts DEF Wire
  <2>. QED
    BY <1>2, <2>1, <2>3, <2>4, <2>6 DEF SendInv, StandOK, Waiting, Over, Past
<1>12. BlockOK'
  BY <1>1, <1>2, <1>5, <1>6
     DEF SendInv, BlockOK, LinkOK, RequestOK, Unbroken, Waiting, Over, Gone, Past,
         Empty
<1>13. WholeOK'
  BY <1>1, <1>2, <1>5, <1>6
     DEF SendInv, WholeOK, LinkOK, Unbroken, Gone, Past, Over, Empty
<1>14. DataOK'
  BY <1>1, <1>2, <1>5, <1>6 DEF SendInv, DataOK
<1>. QED BY <1>7, <1>8, <1>9, <1>10, <1>11, <1>12, <1>13, <1>14 DEF SendInv

\* The returned data follow.
LEMMA AnswerDataKeeps ==
    ASSUME SendInv, AnswerData
    PROVE  SendInv'
<1>1. /\ TypeOK /\ spc = "returned" /\ spc' = "e0" /\ msg_pos.size \in Size
      /\ UNCHANGED <<cpc, msg, whole, ret, core, msg_pos, fill, asked,
                     served, seen>>
  BY DEF SendInv, TypeOK, Header, AnswerData, clientVars, ghosts
<1>2. \E n \in {-1} \cup Size : emi_write("core", {}, msg_pos.size, n)
  BY DEF AnswerData
<1>3. /\ wire' \in [End -> Wire] /\ rst' \in [End -> BOOLEAN]
      /\ open' = open /\ happened' = happened
      /\ wire'["core"] = wire["core"]
      /\ rst'["sender"] = rst["sender"]
      /\ \/ /\ ~rst["core"] /\ ~rst'["core"] /\ open["sender"]
            /\ wire'["sender"].head = wire["sender"].head \cup {}
            /\ wire'["sender"].units = wire["sender"].units + msg_pos.size
         \/ ~rst["core"] /\ ~open["sender"] /\ wire' = wire
         \/ rst["core"] /\ rst'["core"] /\ wire' = wire
  BY <1>1, <1>2, CoreWrites
<1>4. TypeOK'
  BY <1>1, <1>3 DEF SendInv, TypeOK, ClientLabel, ThreadLabel, Fill, Fault, Wire
<1>5. LinkOK'
  BY <1>1, <1>3 DEF SendInv, LinkOK, Unbroken, Gone, Past, Over, Empty
<1>6. RequestOK'
  BY <1>1, <1>3 DEF SendInv, RequestOK, Waiting
<1>7. AnswerOK'
  BY <1>1, <1>3 DEF SendInv, AnswerOK, Past
<1>8. StandOK'
  BY <1>1, <1>3 DEF SendInv, StandOK, Unbroken, Waiting, Past, Over, Empty, Answers
<1>9. BlockOK'
  BY <1>1, <1>3
     DEF SendInv, BlockOK, StandOK, Unbroken, Waiting, Over, Past, Empty, Answers
<1>10. WholeOK'
  <2>. SUFFICES ASSUME happened' = {}, asked.flag \cap {"BLOCK", "SUCCEEDED"} = {}
                PROVE  WholeOK'
    BY <1>1 DEF WholeOK
  <2>1. Unbroken /\ happened = {}
    BY <1>3 DEF Unbroken
  <2>2. ~rst["core"]
    BY <1>1, <2>1 DEF SendInv, LinkOK, Over
  <2>3. /\ \/ Waiting /\ wire["sender"] = [head |-> {msg_pos}, units |-> 0]
           \/ cpc = "returned" /\ wire["sender"] = Empty /\ msg = msg_pos
        /\ msg_pos.size > 0
    BY <1>1, <2>1 DEF SendInv, StandOK
  <2>4. open["sender"]
    BY <2>3 DEF SendInv, LinkOK, Waiting, Gone
  <2>5. /\ wire'["sender"].head = wire["sender"].head
        /\ wire'["sender"].units = wire["sender"].units + msg_pos.size
    BY <1>3, <2>2, <2>4
  <2>6. msg_pos.size \in Nat
    BY <1>1, SizeFacts
  <2>7. wire'["sender"].units = msg_pos.size
    BY <2>3, <2>5, <2>6 DEF Empty
  <2>. QED
    BY <1>1, <2>1, <2>3, <2>5, <2>7 DEF SendInv, WholeOK, Empty, Waiting
<1>11. DataOK'
  BY <1>1, <1>3 DEF SendInv, DataOK
<1>. QED BY <1>4, <1>5, <1>6, <1>7, <1>8, <1>9, <1>10, <1>11 DEF SendInv

\* The thread ends; its answer can still be read.
LEMMA LeaveKeeps ==
    ASSUME SendInv, Leave
    PROVE  SendInv'
<1>1. /\ TypeOK /\ spc = "e0" /\ spc' = "none" /\ emi_close("core")
      /\ UNCHANGED <<cpc, msg, whole, ret, core, msg_pos, fill, asked,
                     served, seen>>
  BY DEF SendInv, Leave, clientVars, ghosts
<1>2. /\ wire' \in [End -> Wire] /\ rst' \in [End -> BOOLEAN]
      /\ open' \in [End -> BOOLEAN] /\ happened' = happened
      /\ ~open'["core"] /\ open'["sender"] = open["sender"]
      /\ wire'["core"] = Empty /\ wire'["sender"] = wire["sender"]
      /\ rst'["core"] = rst["core"]
      /\ rst'["sender"] <=> rst["sender"] \/ (open["core"] /\ wire["core"] # Empty)
  BY <1>1, CloseFacts, EndFacts
<1>3. TypeOK'
  BY <1>1, <1>2, EndFacts
     DEF SendInv, TypeOK, ClientLabel, ThreadLabel, Fill, Fault, Wire
<1>4. LinkOK'
  BY <1>1, <1>2, EndFacts DEF SendInv, LinkOK, Unbroken, Gone, Past, Over, Empty
<1>5. RequestOK'
  BY <1>1, <1>2, EndFacts
     DEF SendInv, RequestOK, LinkOK, Waiting, Unbroken, Gone, Past, Over, Empty
<1>6. AnswerOK'
  BY <1>1, <1>2, EndFacts DEF SendInv, AnswerOK, Past
<1>7. StandOK'
  BY <1>1, <1>2, EndFacts
     DEF SendInv, StandOK, Unbroken, Waiting, Past, Over, Empty, Answers
<1>8. BlockOK'
  BY <1>1, <1>2, EndFacts DEF SendInv, BlockOK, Unbroken, Waiting, Over
<1>9. WholeOK'
  BY <1>1, <1>2, EndFacts DEF SendInv, WholeOK
<1>10. DataOK'
  BY <1>1, <1>2, EndFacts DEF SendInv, DataOK
<1>. QED BY <1>3, <1>4, <1>5, <1>6, <1>7, <1>8, <1>9, <1>10 DEF SendInv

\* Without a broken connection SIGPIPE does not come.
LEMMA CoreDiesKeeps ==
    ASSUME SendInv, CoreDies
    PROVE  SendInv'
<1>1. /\ TypeOK /\ spc \in {"returned", "reply"} /\ rst["core"]
      /\ core' = FALSE /\ spc' = "none"
      /\ UNCHANGED <<cpc, msg, whole, ret, msg_pos, fill, asked, served, seen>>
  BY DEF SendInv, CoreDies, clientVars, ghosts
<1>2. TypeOK /\ emi_close("core")
  BY DEF SendInv, CoreDies
<1>3. /\ wire' \in [End -> Wire] /\ rst' \in [End -> BOOLEAN]
      /\ open' \in [End -> BOOLEAN] /\ happened' = happened
      /\ ~open'["core"] /\ open'["sender"] = open["sender"]
      /\ wire'["core"] = Empty /\ wire'["sender"] = wire["sender"]
      /\ rst'["core"] = rst["core"]
      /\ rst'["sender"] <=> rst["sender"] \/ (open["core"] /\ wire["core"] # Empty)
  BY <1>2, CloseFacts, EndFacts
<1>4. ~Unbroken
  BY <1>1 DEF SendInv, LinkOK, Over
<1>5. TypeOK'
  BY <1>1, <1>3, <1>4, EndFacts
     DEF SendInv, TypeOK, ClientLabel, ThreadLabel, Fill, Fault, Wire
<1>6. LinkOK'
  BY <1>1, <1>3, <1>4, EndFacts DEF SendInv, LinkOK, Unbroken, Gone, Past, Over, Empty
<1>7. RequestOK'
  BY <1>1, <1>3, <1>4, EndFacts
     DEF SendInv, RequestOK, LinkOK, Waiting, Unbroken, Gone, Past, Over, Empty
<1>8. AnswerOK'
  BY <1>1, <1>3, <1>4, EndFacts DEF SendInv, AnswerOK, Past
<1>9. StandOK'
  BY <1>1, <1>3, <1>4, EndFacts
     DEF SendInv, StandOK, Unbroken, Waiting, Past, Over, Empty, Answers
<1>10. BlockOK'
  BY <1>1, <1>3, <1>4, EndFacts DEF SendInv, BlockOK, Unbroken, Waiting, Over
<1>11. WholeOK'
  BY <1>1, <1>3, <1>4, EndFacts
     DEF SendInv, WholeOK, LinkOK, Unbroken, Gone, Past, Over, Empty
<1>12. DataOK'
  BY <1>1, <1>3, <1>4, EndFacts DEF SendInv, DataOK
<1>. QED BY <1>5, <1>6, <1>7, <1>8, <1>9, <1>10, <1>11, <1>12 DEF SendInv

\* A new emi_core has no thread.
LEMMA CoreStartsKeeps ==
    ASSUME SendInv, CoreStarts
    PROVE  SendInv'
<1>1. /\ ~core /\ core' = TRUE /\ msg_pos' = Zero
      /\ UNCHANGED <<cpc, msg, whole, ret, wire, open, rst, happened, spc,
                     fill, asked, served, seen>>
  BY DEF CoreStarts, clientVars, streamVars, ghosts
<1>2. spc = "none"
  BY <1>1 DEF SendInv, LinkOK
<1>3. TypeOK'
  BY <1>1, <1>2, MaxAssumption
     DEF SendInv, TypeOK, ClientLabel, ThreadLabel, Fill, Fault, Wire, Zero, Header,
         Size
<1>4. LinkOK'
  BY <1>1, <1>2 DEF SendInv, LinkOK, Unbroken, Gone, Past, Over, Empty
<1>5. RequestOK'
  BY <1>1, <1>2 DEF SendInv, RequestOK, Waiting
<1>6. AnswerOK'
  BY <1>1, <1>2 DEF SendInv, AnswerOK, Past
<1>7. StandOK'
  BY <1>1, <1>2 DEF SendInv, StandOK, Unbroken, Waiting, Past, Over, Empty, Answers
<1>8. BlockOK'
  BY <1>1, <1>2 DEF SendInv, BlockOK, Unbroken, Waiting, Over
<1>9. WholeOK'
  BY <1>1, <1>2 DEF SendInv, WholeOK
<1>10. DataOK'
  BY <1>1, <1>2 DEF SendInv, DataOK
<1>. QED BY <1>3, <1>4, <1>5, <1>6, <1>7, <1>8, <1>9, <1>10 DEF SendInv

\* A broken connection breaks no promise.
LEMMA BreakKeeps ==
    ASSUME SendInv, Break
    PROVE  SendInv'
<1>1. /\ open' = open /\ "reset" \in happened' /\ happened' \subseteq Fault
      /\ rst' \in [End -> BOOLEAN] /\ wire' \in [End -> Wire]
      /\ \A e \in End : rst'[e] /\ wire'[e] \in {wire[e], Empty}
  BY FaultsAssumption DEF SendInv, TypeOK, Break, Reset, Fault, Wire, Empty
<1>2. /\ UNCHANGED <<cpc, msg, whole, ret, core, spc, msg_pos, fill, asked,
                     served, seen>>
  BY DEF Break, clientVars, threadVars, ghosts
<1>3. TypeOK'
  BY <1>1, <1>2, EndFacts
     DEF SendInv, TypeOK, ClientLabel, ThreadLabel, Fill, Fault, Wire
<1>4. LinkOK'
  BY <1>1, <1>2, EndFacts DEF SendInv, LinkOK, Unbroken, Gone, Past, Over, Empty
<1>5. RequestOK'
  BY <1>1, <1>2, EndFacts
     DEF SendInv, RequestOK, LinkOK, Waiting, Unbroken, Gone, Past, Over, Empty
<1>6. AnswerOK'
  BY <1>1, <1>2, EndFacts
     DEF SendInv, AnswerOK, LinkOK, Past, Unbroken, Gone, Over, Empty
<1>7. StandOK'
  BY <1>1, <1>2, EndFacts
     DEF SendInv, StandOK, Unbroken, Waiting, Past, Over, Empty, Answers
<1>8. BlockOK'
  BY <1>1, <1>2, EndFacts DEF SendInv, BlockOK, Unbroken, Waiting, Over
<1>9. WholeOK'
  BY <1>1, <1>2, EndFacts DEF SendInv, WholeOK
<1>10. DataOK'
  BY <1>1, <1>2, EndFacts DEF SendInv, DataOK
<1>. QED BY <1>3, <1>4, <1>5, <1>6, <1>7, <1>8, <1>9, <1>10 DEF SendInv

-----------------------------------------------------------------------------
(* The theorems                                                             *)

LEMMA NextKeeps ==
    ASSUME SendInv, [Next]_vars
    PROVE  SendInv'
<1>1. CASE UNCHANGED vars
  <2>1. /\ UNCHANGED <<cpc, msg, whole, ret, wire, open, rst, happened>>
        /\ UNCHANGED <<core, spc, msg_pos, fill, asked, served, seen>>
    BY <1>1 DEF vars, streamVars
  <2>2. TypeOK' /\ LinkOK' /\ RequestOK' /\ AnswerOK'
    BY <2>1 DEF SendInv, TypeOK, LinkOK, RequestOK, AnswerOK, Unbroken, Waiting,
                Gone, Past, Over
  <2>3. StandOK' /\ BlockOK' /\ WholeOK' /\ DataOK'
    BY <2>1 DEF SendInv, StandOK, BlockOK, WholeOK, DataOK, Unbroken, Waiting,
                Past, Over
  <2>. QED BY <2>2, <2>3 DEF SendInv
<1>2. CASE \E flag \in Request, size \in Sizes, again \in BOOLEAN :
               Call(flag, size, again)
  BY <1>2, CallKeeps
<1>3. CASE Sender
  BY <1>3, WriteHeaderKeeps, WriteDataKeeps, NoReplyKeeps, ReadBlockKeeps,
     ReadBlockReturnKeeps, ReadReturnedKeeps, CloseKeeps
     DEF Sender
<1>4. CASE Thread
  BY <1>4, AcceptKeeps, ObtainKeeps, ReadRequestKeeps, ReadDataKeeps, SearchKeeps,
     NoAnswerKeeps, AnswerBlockKeeps, AnswerBlockReturnKeeps, AnswerDataKeeps,
     LeaveKeeps
     DEF Thread, Proceeds
<1>5. CASE SenderDies \/ CoreDies \/ CoreStarts \/ Break
  BY <1>5, SenderDiesKeeps, CoreDiesKeeps, CoreStartsKeeps, BreakKeeps
<1>. QED BY <1>1, <1>2, <1>3, <1>4, <1>5 DEF Next

\* Every state of a sender, a connection and a thread of emi_core has its
\* types, and SendInv.
THEOREM SendInvCorrect == Spec => []SendInv
BY InitEstablishes, NextKeeps, PTL DEF Spec

\* A BLOCK or BLOCK_RETURN call that returns 0 has been served, whatever faults
\* there are (emi_if.c:301-335, emi_core.c:354-508).
THEOREM ZeroMeansServedCorrect == Spec => []ZeroMeansServed
<1>1. SendInv => ZeroMeansServed
  BY DEF SendInv, AnswerOK, ZeroMeansServed, Ended
<1>. QED BY <1>1, SendInvCorrect, PTL

\* A BLOCK_RETURN call that returns 0 had a receiver (emi_if.c:317-335,
\* emi_core.c:487-502).
THEOREM ZeroMeansHandledCorrect == Spec => []ZeroMeansHandled
<1>1. SendInv => ZeroMeansHandled
  BY DEF SendInv, AnswerOK, ZeroMeansHandled, Ended
<1>. QED BY <1>1, SendInvCorrect, PTL

\* A BLOCK call that fails on an unbroken connection has not been served
\* (emi_if.c:301-315, emi_core.c:478-485).
THEOREM FailureIsUnservedCorrect == Spec => []FailureIsUnserved
<1>1. SendInv => FailureIsUnserved
  <2>. SUFFICES ASSUME SendInv, Ended, ret = -1, "BLOCK" \in asked.flag,
                       "NONBLOCK" \notin asked.flag, Unbroken
                PROVE  served = {}
    BY DEF FailureIsUnserved, Unbroken
  <2>1. ~Waiting /\ cpc # "returned"
    BY DEF Ended, Waiting
  <2>2. Over
    BY <2>1 DEF SendInv, StandOK, Answers
  <2>. QED BY <2>1, <2>2 DEF SendInv, BlockOK
<1>. QED BY <1>1, SendInvCorrect, PTL

\* Functions get all of the data that were sent (emi_core.c:401-411).
THEOREM DataAreWholeCorrect == Spec => []DataAreWhole
<1>1. SendInv => DataAreWhole
  BY DEF SendInv, DataOK, DataAreWhole
<1>. QED BY <1>1, SendInvCorrect, PTL

\* Only a sender that dies or a connection that breaks can end emi_core by
\* SIGPIPE (emi_core.c:478-508).
THEOREM CoreSurvivesCorrect == Spec => []CoreSurvives
<1>1. SendInv => CoreSurvives
  BY DEF SendInv, StandOK, CoreSurvives, Unbroken
<1>. QED BY <1>1, SendInvCorrect, PTL

\* A BLOCK_RETURN call that returns 0 has all of the returned data when no
\* fault happens (emi_if.c:317-335, emi_core.c:487-505).
THEOREM ZeroMeansWholeCorrect == Spec => []ZeroMeansWhole
<1>1. SendInv => ZeroMeansWhole
  BY DEF SendInv, WholeOK, ZeroMeansWhole, Ended
<1>. QED BY <1>1, SendInvCorrect, PTL
=============================================================================
