------------------------------ MODULE FuncList ------------------------------
(****************************************************************************)
(* The list of a process's functions (emi_if.c:65, list.h): emi_msg_register*)
(* and emi_msg_unregister change it write by write, and SIGUSR2 interrupts  *)
(* them between any two writes to walk it in func_sterotype.  The build     *)
(* defines EXLUSIVE_MSG, so that the branches for EXCLUSIVE_MSG are out,    *)
(* and a message may have several functions.                                *)
(*                                                                          *)
(* The writes are taken in the order of the source, in which gcc -O2 leaves *)
(* them.  What goes on with emi_core is EmiCore's.  A malloc that fails     *)
(* changes nothing here.  A function that runs may unregister itself; one   *)
(* that registers functions or unregisters others from inside the handler   *)
(* is not modelled.                                                         *)
(****************************************************************************)
EXTENDS Integers, Sequences, FiniteSets

CONSTANTS
    Msg, Func,
    Node,      \* what malloc gives out for struct func_list's
    HEAD,      \* __func_list
    NULL

ASSUME HeadAssumption == /\ HEAD \notin Node /\ NULL \notin Node \cup {HEAD}
                         /\ NULL \notin Func
ASSUME NodeAssumption == IsFiniteSet(Node)

VARIABLES
    next, prev,    \* [Cell -> Cell \cup {NULL}]
    fl,            \* [Node -> Entry \cup {NULL}]
    alloc,         \* the nodes that are allocated
    installed,     \* SIGUSR2 has its handler
    mpc,           \* where the process is, outside the handler
    arg,           \* the arguments defined_msg and func of its call
    new,           \* its fl or lh
    p, n,          \* the arguments prev and next of __list_add and __list_del
    hpc,           \* "main", or "walk" in the handler
    lh,            \* the handler's
    shmsg,         \* the message it handles: [msg, block_return]
    stray,         \* memory that is not allocated was read or written
    misused        \* history: functions were unregistered as they must not be

listVars == <<next, prev, fl, alloc>>
mainVars == <<installed, mpc, arg, new, p, n>>
handVars == <<hpc, lh, shmsg>>
vars     == <<listVars, mainVars, handVars, stray, misused>>

Cell  == Node \cup {HEAD}
Entry == [msg : Msg, func : Func]

Init ==
    /\ next = [c \in Cell |-> IF c = HEAD THEN HEAD ELSE NULL]
    /\ prev = next
    /\ fl = [c \in Node |-> NULL]
    /\ alloc = {}
    /\ installed = FALSE
    /\ mpc = "idle" /\ arg = NULL /\ new = NULL /\ p = NULL /\ n = NULL
    /\ hpc = "main" /\ lh = NULL /\ shmsg = NULL
    /\ stray = FALSE
    /\ misused = FALSE

\* Memory that may be read and written.
Live(c) == c \in alloc \cup {HEAD}

\* The nodes from c to the head, or more than there are in a list that has lost
\* its end.
Chain(c) ==
    LET Walk[i \in 0..Cardinality(Node)] ==
          IF i = 0 THEN c
          ELSE IF Walk[i - 1] \in Node THEN next[Walk[i - 1]] ELSE Walk[i - 1]
        length == Cardinality({i \in DOMAIN Walk : Walk[i] \in Node})
    IN  [i \in 1..length |-> Walk[i - 1]]

Entries(c) == LET chain == Chain(c) IN [i \in DOMAIN chain |-> fl[chain[i]]]

\* What the program does after that is not modelled.
Defined == ~stray /\ ~misused

\* The process runs, and not its handler.
Main(label) == mpc = label /\ hpc = "main" /\ Defined
MainDone(label) == mpc' = label /\ UNCHANGED <<handVars, installed, arg>>

-----------------------------------------------------------------------------
(* __emi_msg_register, when emi_core has answered (lines 502-521)           *)

\* malloc, memset and the arguments of __list_add(new, head, head->next).
emi_msg_register(e) ==
    /\ Main("idle")
    /\ \E c \in Node \ alloc :
          /\ alloc' = alloc \cup {c}
          /\ fl' = [fl EXCEPT ![c] = e]
          /\ next' = [next EXCEPT ![c] = NULL]
          /\ prev' = [prev EXCEPT ![c] = NULL]
          /\ new' = c
    /\ p' = HEAD /\ n' = next[HEAD]
    /\ MainDone("add")
    /\ UNCHANGED <<stray, misused>>

\* Faulty variant: the new node is in the list before it is complete.
AddFirst_publishes ==
    /\ Main("add")
    /\ prev' = [prev EXCEPT ![n] = new]
    /\ next' = [next EXCEPT ![p] = new]
    /\ stray' = ~Live(n)
    /\ MainDone("fill")
    /\ UNCHANGED <<fl, alloc, new, p, n, misused>>

\* next->prev = new_lst
AddFirst ==
    /\ Main("add")
    /\ prev' = [prev EXCEPT ![n] = new]
    /\ stray' = ~Live(n)
    /\ MainDone("fill")
    /\ UNCHANGED <<next, fl, alloc, new, p, n, misused>>

\* The two writes to the new node, which nobody can reach yet.
AddFill ==
    /\ Main("fill")
    /\ next' = [next EXCEPT ![new] = n]
    /\ prev' = [prev EXCEPT ![new] = p]
    /\ MainDone("publish")
    /\ UNCHANGED <<fl, alloc, new, p, n, stray, misused>>

\* prev->next = new_lst
AddPublish ==
    /\ Main("publish")
    /\ next' = [next EXCEPT ![p] = new]
    /\ MainDone("sigaction")
    /\ UNCHANGED <<prev, fl, alloc, new, p, n, stray, misused>>

\* Lines 512-521.
Sigaction ==
    /\ Main("sigaction")
    /\ installed' = TRUE
    /\ mpc' = "idle" /\ arg' = NULL /\ new' = NULL /\ p' = NULL /\ n' = NULL
    /\ UNCHANGED <<listVars, handVars, stray, misused>>

-----------------------------------------------------------------------------
(* emi_msg_unregister (lines 532-552)                                       *)

\* func is NULL to unregister all functions of the message.
emi_msg_unregister(k, func) ==
    /\ Main("idle")
    /\ arg' = [msg |-> k, func |-> func]
    /\ new' = next[HEAD]
    /\ mpc' = "unregister"
    /\ UNCHANGED <<listVars, handVars, installed, p, n, stray, misused>>

Matches(c) == fl[c].msg = arg.msg /\ arg.func \in {NULL, fl[c].func}

Return == mpc' = "idle" /\ arg' = NULL /\ new' = NULL /\ p' = NULL /\ n' = NULL

\* One turn of the loop, up to the call of __list_del.
UnregisterTurn ==
    /\ Main("unregister")
    /\ \/ new = HEAD /\ Return /\ UNCHANGED stray
       \/ /\ new # HEAD /\ ~Live(new)
          /\ stray' = TRUE
          /\ UNCHANGED <<mpc, arg, new, p, n>>
       \/ /\ new \in alloc /\ ~Matches(new)
          /\ new' = next[new]
          /\ UNCHANGED <<mpc, arg, p, n, stray>>
       \/ /\ new \in alloc /\ Matches(new)
          /\ p' = prev[new] /\ n' = next[new]
          /\ mpc' = "del"
          /\ UNCHANGED <<arg, new, stray>>
    /\ UNCHANGED <<listVars, installed, handVars, misused>>

\* next->prev = prev
DelPrev ==
    /\ Main("del")
    /\ prev' = [prev EXCEPT ![n] = p]
    /\ stray' = ~Live(n)
    /\ MainDone("unlink")
    /\ UNCHANGED <<next, fl, alloc, new, p, n, misused>>

\* Faulty variant: only the link back is changed.
DelNext_forgotten ==
    /\ Main("unlink")
    /\ stray' = ~Live(p)
    /\ MainDone("free")
    /\ UNCHANGED <<listVars, new, p, n, misused>>

\* prev->next = next
DelNext ==
    /\ Main("unlink")
    /\ next' = [next EXCEPT ![p] = n]
    /\ stray' = ~Live(p)
    /\ MainDone("free")
    /\ UNCHANGED <<prev, fl, alloc, new, p, n, misused>>

\* Faulty variant: the node is not freed when the function returns at once.
Free_forgotten ==
    /\ Main("free")
    /\ alloc' = IF arg.func = NULL THEN alloc \ {new} ELSE alloc
    /\ \/ arg.func # NULL /\ Return /\ UNCHANGED <<stray, misused>>
       \/ /\ arg.func = NULL
          /\ stray' = TRUE /\ misused' = TRUE
          /\ UNCHANGED <<mpc, arg, new, p, n>>
    /\ UNCHANGED <<next, prev, fl, installed, handVars>>

\* free, and the return; with NULL for a function the loop goes on instead, and
\* reads lh->next in the node that it has freed (lines 538-541).
Free ==
    /\ Main("free")
    /\ alloc' = alloc \ {new}
    /\ \/ arg.func # NULL /\ Return /\ UNCHANGED <<stray, misused>>
       \/ /\ arg.func = NULL
          /\ stray' = TRUE /\ misused' = TRUE
          /\ UNCHANGED <<mpc, arg, new, p, n>>
    /\ UNCHANGED <<next, prev, fl, installed, handVars>>

-----------------------------------------------------------------------------
(* func_sterotype; the process does nothing else until it returns           *)

\* SIGUSR2, up to the first turn of the loop (lines 206-222).
func_sterotype(k, block_return) ==
    /\ hpc = "main" /\ Defined
    /\ installed
    /\ hpc' = "walk"
    /\ lh' = next[HEAD]
    /\ shmsg' = [msg |-> k, block_return |-> block_return]
    /\ UNCHANGED <<listVars, mainVars, stray, misused>>

Leave == hpc' = "main" /\ lh' = NULL /\ shmsg' = NULL

\* A turn that calls no function, or the end of the loop.
WalkOn ==
    /\ hpc = "walk" /\ Defined
    /\ \/ lh = HEAD /\ Leave /\ UNCHANGED stray
       \/ lh # HEAD /\ ~Live(lh) /\ stray' = TRUE /\ UNCHANGED handVars
       \/ /\ lh \in alloc /\ fl[lh].msg # shmsg.msg
          /\ lh' = next[lh]
          /\ UNCHANGED <<hpc, shmsg, stray>>
    /\ UNCHANGED <<listVars, mainVars, misused>>

\* The function's own emi_msg_unregister(fl->msg, fl->func), which nothing
\* interrupts.  It finds the first node that has both.
UnregisterItself ==
    LET chain == Chain(next[HEAD])
        first == CHOOSE i \in DOMAIN chain :
                    /\ fl[chain[i]] = fl[lh]
                    /\ \A j \in 1..(i - 1) : fl[chain[j]] # fl[lh]
        c     == chain[first]
    IN  /\ prev' = [prev EXCEPT ![next[c]] = prev[c]]
        /\ next' = [next EXCEPT ![prev[c]] = next[c]]
        /\ alloc' = alloc \ {c}
        /\ stray' = (~Live(prev[c]) \/ ~Live(next[c])
                      \/ (c = lh /\ ~shmsg.block_return))
        /\ misused' = (~shmsg.block_return \/ mpc # "idle")

\* Faulty variant: a BLOCK_RETURN message does not end the loop.
Call_goes_on ==
    /\ hpc = "walk" /\ Defined
    /\ lh \in alloc /\ fl[lh].msg = shmsg.msg
    /\ lh' = next[lh]
    /\ \/ UnregisterItself
       \/ UNCHANGED <<next, prev, alloc, stray, misused>>
    /\ UNCHANGED <<fl, mainVars, hpc, shmsg>>

\* A turn that calls (lines 225-240).  The loop then reads lh->next, unless the
\* message is a BLOCK_RETURN one.
Call ==
    /\ hpc = "walk" /\ Defined
    /\ lh \in alloc /\ fl[lh].msg = shmsg.msg
    /\ IF shmsg.block_return THEN Leave ELSE lh' = next[lh] /\ UNCHANGED <<hpc, shmsg>>
    /\ \/ UnregisterItself
       \/ UNCHANGED <<next, prev, alloc, stray, misused>>
    /\ UNCHANGED <<fl, mainVars>>

-----------------------------------------------------------------------------
Process ==
    \/ \E e \in Entry : emi_msg_register(e)
    \/ AddFirst \/ AddFill \/ AddPublish \/ Sigaction
    \/ \E k \in Msg, func \in Func \cup {NULL} : emi_msg_unregister(k, func)
    \/ UnregisterTurn \/ DelPrev \/ DelNext \/ Free

Handler ==
    \/ \E k \in Msg, block_return \in BOOLEAN : func_sterotype(k, block_return)
    \/ WalkOn \/ Call

Next == Process \/ Handler

Spec == Init /\ [][Next]_vars
-----------------------------------------------------------------------------
(* Properties *)

\* Wherever the handler interrupts a registration or an unregistration, nobody
\* uses memory that is not allocated - unless all functions of a message are
\* unregistered in one call, or a function unregisters itself in the middle of
\* the handler's or the process's own use of the list (emi_if.c:222, 534).
NeverAstray == stray => misused

\* Outside calls the list has exactly the nodes that are allocated.
NothingLeaked ==
    mpc = "idle" /\ ~misused =>
        LET chain == Chain(next[HEAD])
        IN  /\ {chain[i] : i \in DOMAIN chain} = alloc
            /\ Len(chain) = Cardinality(alloc)

\* The places in the list of the functions that the handler is still to call.
Places ==
    LET regs   == Entries(next[HEAD])
        passed == Len(regs) - Len(Chain(lh))
        match  == {i \in DOMAIN regs : i > passed /\ regs[i].msg = shmsg.msg}
    IN  IF shmsg.block_return
        THEN {i \in match : \A j \in match : i <= j}
        ELSE match

\* The list implements the abstract registry: each message runs each function
\* that was registered for it when it came once, the newest first.
Registry == INSTANCE FuncRegistry WITH
    regs <- Entries(next[HEAD]),
    todo <- IF hpc = "main" THEN {} ELSE Places
RegistryUntilMisuse == Registry!Init /\ [][~misused' => Registry!Next]_(Registry!vars)
=============================================================================
