------------------------------- MODULE Startup -------------------------------
(***************************************************************************)
(* The life of emi_core (main, runing_check, int_global_shm_space and      *)
(* sig_release, emi_core.c:67-337): starts, with and without -d, that race *)
(* for the lock file, the shared memory segment and the port, and the ways *)
(* one ends.                                                               *)
(*                                                                         *)
(* A program that exits, or is killed, loses its locks and its port; the   *)
(* segment stays until somebody removes it.  fork() gives the child a new  *)
(* pid and none of the parent's fcntl locks.                               *)
(***************************************************************************)
CONSTANTS
    Inst,      \* invocations of emi_core
    None       \* nobody

ASSUME NoneAssumption == None \notin Inst

VARIABLES
    pc,        \* [Inst -> Label]: where main is; "off" if it does not run
    daemon,    \* [Inst -> BOOLEAN]: DAEMONIZE
    handled,   \* [Inst -> BOOLEAN]: sig_release is installed
    core_shmid,\* [Inst -> BOOLEAN]: it is not -1
    client_sd, \* [Inst -> Pointer]: what the global points to
    lock,      \* who holds the lock of the lock file
    pidfile,   \* the invocation whose pid is in it, as it was before fork
    segment,   \* who made the segment with the key emi_key
    port,      \* who is bound to emi_port
    blame      \* history: why the segment may have been left behind

vars == <<pc, daemon, handled, core_shmid, client_sd, lock, pidfile, segment,
          port, blame>>

Label   == {"off", "check", "pid", "fork", "handlers", "shmget", "store",
            "space", "socket", "bind", "accept"}
Pointer == {"null", "live", "freed"}
Cause   == {"killed", "between", "freed", "failed"}

Goto(i, l) == pc' = [pc EXCEPT ![i] = l]

Init ==
    /\ pc = [i \in Inst |-> "off"]
    /\ daemon = [i \in Inst |-> FALSE]
    /\ handled = [i \in Inst |-> FALSE]
    /\ core_shmid = [i \in Inst |-> FALSE]
    /\ client_sd = [i \in Inst |-> "null"]
    /\ lock = None /\ pidfile = None /\ segment = None /\ port = None
    /\ blame = {}

\* What the kernel does when i exits or dies.
Ends(i) ==
    /\ Goto(i, "off")
    /\ lock' = IF lock = i THEN None ELSE lock
    /\ port' = IF port = i THEN None ELSE port
    /\ daemon' = [daemon EXCEPT ![i] = FALSE]
    /\ handled' = [handled EXCEPT ![i] = FALSE]
    /\ core_shmid' = [core_shmid EXCEPT ![i] = FALSE]
    /\ client_sd' = [client_sd EXCEPT ![i] = "null"]

\* shmctl(core_shmid,IPC_RMID,NULL).
Remove(i) ==
    segment' = IF core_shmid[i] /\ segment = i THEN None ELSE segment

\* An error return that removes the segment, one that does not, and one that
\* may have emptied the lock file as well.
Fails(i)  == Ends(i) /\ Remove(i) /\ UNCHANGED <<pidfile, blame>>
LeavesFile(i) == /\ Ends(i)
                 /\ pidfile' \in {pidfile, None}
                 /\ blame' = IF segment = i THEN blame \cup {"failed"} ELSE blame
                 /\ UNCHANGED segment
Leaves(i) == LeavesFile(i) /\ UNCHANGED pidfile

-----------------------------------------------------------------------------
(* main                                                                     *)

\* Lines 172-200.
Start(i, d) ==
    /\ pc[i] = "off"
    /\ Goto(i, "check")
    /\ daemon' = [daemon EXCEPT ![i] = d]
    /\ UNCHANGED <<handled, core_shmid, client_sd, lock, pidfile, segment, port, blame>>

\* Faulty variant: an F_SETLK that fails is taken for the own lock.
Check_not(i) ==
    /\ pc[i] = "check"
    /\ lock' = IF lock = None THEN i ELSE lock
    /\ Goto(i, "pid")
    /\ UNCHANGED <<daemon, handled, core_shmid, client_sd, pidfile, segment, port, blame>>

\* Lines 90-98.
Check(i) ==
    /\ pc[i] = "check"
    /\ \/ /\ lock = None
          /\ lock' = i
          /\ Goto(i, "pid")
          /\ UNCHANGED <<daemon, handled, core_shmid, client_sd, pidfile, segment, port, blame>>
       \/ lock # None /\ Leaves(i)

\* Lines 99-110; line 228.  ftruncate or write may fail.
WritePid(i) ==
    /\ pc[i] = "pid"
    /\ \/ /\ pidfile' = i
          /\ Goto(i, IF daemon[i] THEN "fork" ELSE "handlers")
          /\ UNCHANGED <<daemon, handled, core_shmid, client_sd, lock, segment, port, blame>>
       \/ LeavesFile(i)

\* Lines 229-236: the parent, which has the lock, returns.
Fork(i) ==
    /\ pc[i] = "fork"
    /\ \/ /\ Goto(i, "handlers")
          /\ lock' = None
          /\ UNCHANGED <<daemon, handled, core_shmid, client_sd, pidfile, segment, port, blame>>
       \/ Leaves(i)

\* Lines 242-254.
Handlers(i) ==
    /\ pc[i] = "handlers"
    /\ handled' = [handled EXCEPT ![i] = TRUE]
    /\ Goto(i, "shmget")
    /\ UNCHANGED <<daemon, core_shmid, client_sd, lock, pidfile, segment, port, blame>>

\* Faulty variant: without IPC_EXCL.
Shmget_shared(i) ==
    /\ pc[i] = "shmget"
    /\ segment' = IF segment = None THEN i ELSE segment
    /\ blame' = {}
    /\ Goto(i, "store")
    /\ UNCHANGED <<daemon, handled, core_shmid, client_sd, lock, pidfile, port>>

\* Line 123: the system call, with IPC_CREAT|IPC_EXCL ...
Shmget(i) ==
    /\ pc[i] = "shmget"
    /\ \/ /\ segment = None
          /\ segment' = i
          /\ blame' = {}
          /\ Goto(i, "store")
          /\ UNCHANGED <<daemon, handled, core_shmid, client_sd, lock, pidfile, port>>
       \/ Leaves(i)

\* ... and the assignment of what it returns.
Store(i) ==
    /\ pc[i] = "store"
    /\ core_shmid' = [core_shmid EXCEPT ![i] = TRUE]
    /\ Goto(i, "space")
    /\ UNCHANGED <<daemon, handled, client_sd, lock, pidfile, segment, port, blame>>

\* Lines 264-277: shmat (lines 127-131), and emi_init_msg_space, whose error
\* return does not remove the segment.
Space(i) ==
    /\ pc[i] = "space"
    /\ \/ /\ Goto(i, "socket")
          /\ UNCHANGED <<daemon, handled, core_shmid, client_sd, lock, pidfile, segment, port, blame>>
       \/ Fails(i)
       \/ Leaves(i)

\* Lines 280-284; lines 286-290, which do not remove the segment.
Socket(i) ==
    /\ pc[i] = "socket"
    /\ \/ /\ Goto(i, "bind")
          /\ UNCHANGED <<daemon, handled, core_shmid, client_sd, lock, pidfile, segment, port, blame>>
       \/ Fails(i)
       \/ Leaves(i)

\* Faulty variant: an error return that forgets the segment.
Bind_leaves(i) ==
    /\ pc[i] = "bind"
    /\ \/ /\ port = None
          /\ port' = i
          /\ Goto(i, "accept")
          /\ UNCHANGED <<daemon, handled, core_shmid, client_sd, lock, pidfile, segment, blame>>
       \/ Ends(i) /\ UNCHANGED <<segment, pidfile, blame>>

\* Lines 293-305.
Bind(i) ==
    /\ pc[i] = "bind"
    /\ \/ /\ port = None
          /\ port' = i
          /\ Goto(i, "accept")
          /\ UNCHANGED <<daemon, handled, core_shmid, client_sd, lock, pidfile, segment, blame>>
       \/ Fails(i)

\* Lines 308-336.  A connection for which no thread is started is SendReply's
\* Accept; here its client_sd is live for good.
Accept(i) ==
    /\ pc[i] = "accept"
    /\ \E p \in {"live", "null"} : client_sd' = [client_sd EXCEPT ![i] = p]
    /\ UNCHANGED <<pc, daemon, handled, core_shmid, lock, pidfile, segment, port, blame>>

\* Line 512: the thread closes its connection, which main still points to.
ThreadEnds(i) ==
    /\ client_sd[i] = "live"
    /\ client_sd' = [client_sd EXCEPT ![i] = "freed"]
    /\ UNCHANGED <<pc, daemon, handled, core_shmid, lock, pidfile, segment, port, blame>>

-----------------------------------------------------------------------------
(* The end                                                                  *)

\* Lines 70-79.  A second free of client_sd ends the program there or goes
\* unnoticed.
sig_release(i) ==
    /\ Ends(i)
    /\ \/ /\ Remove(i)
          /\ blame' = IF segment = i /\ ~core_shmid[i]
                      THEN blame \cup {"between"} ELSE blame
       \/ /\ client_sd[i] = "freed"
          /\ blame' = blame \cup {"freed"}
          /\ UNCHANGED segment
    /\ UNCHANGED pidfile

\* SIGTERM or SIGINT.
Stop(i) ==
    /\ pc[i] # "off"
    /\ IF handled[i] THEN sig_release(i)
       ELSE Ends(i) /\ UNCHANGED <<pidfile, segment, blame>>

\* SIGKILL.
Kill(i) ==
    /\ pc[i] # "off"
    /\ Ends(i)
    /\ blame' = IF segment = i THEN blame \cup {"killed"} ELSE blame
    /\ UNCHANGED <<pidfile, segment>>

\* tools/clemi.sh, which is for when no emi_core runs (README:26).
Clean ==
    /\ \A i \in Inst : pc[i] = "off"
    /\ segment' = None
    /\ UNCHANGED <<pc, daemon, handled, core_shmid, client_sd, lock, pidfile, port, blame>>

-----------------------------------------------------------------------------
Run(i) ==
    \/ Check(i) \/ WritePid(i) \/ Fork(i) \/ Handlers(i) \/ Shmget(i) \/ Store(i)
    \/ Space(i) \/ Socket(i) \/ Bind(i) \/ Accept(i) \/ ThreadEnds(i)

Next ==
    \/ \E i \in Inst : Run(i) \/ Stop(i) \/ Kill(i) \/ (\E d \in BOOLEAN : Start(i, d))
    \/ Clean

Spec == Init /\ [][Next]_vars

-----------------------------------------------------------------------------
TypeOK ==
    /\ pc \in [Inst -> Label]
    /\ daemon \in [Inst -> BOOLEAN]
    /\ handled \in [Inst -> BOOLEAN]
    /\ core_shmid \in [Inst -> BOOLEAN]
    /\ client_sd \in [Inst -> Pointer]
    /\ lock \in Inst \cup {None} /\ pidfile \in Inst \cup {None}
    /\ segment \in Inst \cup {None} /\ port \in Inst \cup {None}
    /\ blame \subseteq Cause

\* Where main has made a segment.
Owner == {"store", "space", "socket", "bind", "accept"}

\* An emi_core that has got past shmget works with the segment that its clients
\* find by the key, whoever else starts, fails to start or is stopped meanwhile
\* (emi_core.c:122-133, 70-79); so there is never a second one.
ServesOwnSegment == \A i \in Inst : pc[i] \in Owner => segment = i

\* Without -d the lock file is locked by, and has the pid of, the emi_core that
\* serves (emi_core.c:81-111).  With -d neither is so: the daemon is a child of
\* the process that took the lock and wrote its pid.
PidFileNamesServer ==
    \A i \in Inst : pc[i] = "accept" /\ ~daemon[i] => lock = i /\ pidfile = i

\* When no emi_core runs there is no segment that would keep the next one from
\* starting, unless the last one was killed, was stopped just between shmget and
\* its assignment, freed client_sd twice, or failed where main forgets the
\* segment (emi_core.c:70-79, 264-305).
NothingLeft == (\A i \in Inst : pc[i] = "off") /\ segment # None => blame # {}

\* What the proofs add.  The lock is held from the moment it is taken, unless
\* the holder forks; main knows of a segment once shmget has been assigned, and
\* would remove it when stopped; a segment without its maker has a reason.
Locked == \A i \in Inst :
    /\ pc[i] = "fork" => daemon[i]
    /\ \/ pc[i] \in {"pid", "fork"}
       \/ pc[i] \notin {"off", "check"} /\ ~daemon[i]
       => lock = i
Named  == \A i \in Inst :
    pc[i] \notin {"off", "check", "pid"} /\ ~daemon[i] => pidfile = i
Known  == \A i \in Inst :
    /\ core_shmid[i] <=> (pc[i] \in Owner \ {"store"})
    /\ pc[i] \in Owner \cup {"shmget"} => handled[i]
Blamed == segment # None => pc[segment] \in Owner \/ blame # {}

StartInv == TypeOK /\ ServesOwnSegment /\ Locked /\ Named /\ Known /\ Blamed
=============================================================================
