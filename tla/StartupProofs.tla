---------------------------- MODULE StartupProofs ----------------------------
(***************************************************************************)
(* Proofs about Startup, for any number of invocations of emi_core.        *)
(*                                                                         *)
(* ServesOwnSegment is inductive by itself.  PidFileNamesServer needs that *)
(* the lock is held all the way from the check to accept (Locked), so that *)
(* nobody else can have written the file meanwhile (Named); NothingLeft    *)
(* needs that main knows its segment at every error return (Known), and    *)
(* speaks of the moment of the last exit, so that Blamed says it of any    *)
(* segment whose maker has gone.                                           *)
(***************************************************************************)
EXTENDS Startup, TLAPS

LEMMA StartInit == Init => StartInv
BY DEF Init, StartInv, TypeOK, ServesOwnSegment, Locked, Named, Known, Blamed,
       Label, Pointer, Owner

\* An end of one invocation keeps the invariant if it takes away no other's
\* segment, leaves its own with a reason, and empties the lock file only if it
\* has the lock.
LEMMA EndsKeeps ==
    ASSUME StartInv, NEW i \in Inst, Ends(i),
           pidfile' = pidfile \/ (lock = i /\ pidfile' = None),
           segment' = segment \/ (segment = i /\ segment' = None),
           blame' \subseteq Cause, blame \subseteq blame',
           segment' = i => blame' # {}
    PROVE  StartInv'
<1>. USE NoneAssumption DEF Ends, Goto, StartInv, TypeOK
<1>1. TypeOK'
  BY DEF Label, Pointer
<1>2. \A j \in Inst : pc'[j] = IF j = i THEN "off" ELSE pc[j]
  OBVIOUS
<1>3. ServesOwnSegment'
  BY <1>2 DEF ServesOwnSegment, Owner
<1>4. Locked'
  BY <1>2 DEF Locked
<1>5. Named'
  BY <1>2 DEF Locked, Named
<1>6. Known'
  BY <1>2 DEF Known, Owner
<1>7. Blamed'
  BY <1>2 DEF Blamed
<1>. QED BY <1>1, <1>3, <1>4, <1>5, <1>6, <1>7

LEMMA FailsKeeps ==
    ASSUME StartInv, NEW i \in Inst, pc[i] \in Owner \ {"store"}, Fails(i)
    PROVE  StartInv'
<1>1. core_shmid[i]
  BY DEF StartInv, Known
<1>. QED BY <1>1, EndsKeeps, NoneAssumption
     DEF StartInv, TypeOK, Fails, Remove

LEMMA LeavesKeeps ==
    ASSUME StartInv, NEW i \in Inst, Leaves(i)
    PROVE  StartInv'
BY EndsKeeps DEF StartInv, TypeOK, Leaves, LeavesFile, Cause

LEMMA LeavesFileKeeps ==
    ASSUME StartInv, NEW i \in Inst, pc[i] = "pid", LeavesFile(i)
    PROVE  StartInv'
<1>1. lock = i
  BY DEF StartInv, Locked
<1>. QED BY <1>1, EndsKeeps DEF StartInv, TypeOK, LeavesFile, Cause

LEMMA StopKeeps ==
    ASSUME StartInv, NEW i \in Inst, Stop(i)
    PROVE  StartInv'
<1>1. CASE handled[i]
  <2>. sig_release(i)
    BY <1>1 DEF Stop
  <2>. QED BY EndsKeeps, NoneAssumption
       DEF StartInv, TypeOK, sig_release, Remove, Cause
<1>2. CASE ~handled[i]
  <2>1. Ends(i) /\ UNCHANGED <<pidfile, segment, blame>>
    BY <1>2 DEF Stop
  <2>2. segment = i => blame # {}
    BY <1>2, NoneAssumption DEF StartInv, Known, Blamed
  <2>. QED BY <2>1, <2>2, EndsKeeps DEF StartInv, TypeOK
<1>. QED BY <1>1, <1>2

LEMMA KillKeeps ==
    ASSUME StartInv, NEW i \in Inst, Kill(i)
    PROVE  StartInv'
BY EndsKeeps DEF StartInv, TypeOK, Kill, Cause

\* Every step of main and of its threads: an error return, or one action that
\* goes on.
LEMMA RunKeeps ==
    ASSUME StartInv, NEW i \in Inst, Run(i)
    PROVE  StartInv'
<1>1. CASE Leaves(i)
  BY <1>1, LeavesKeeps
<1>2. CASE Fails(i) /\ (Space(i) \/ Socket(i) \/ Bind(i))
  BY <1>2, FailsKeeps DEF Space, Socket, Bind, Owner
<1>3. SUFFICES ASSUME ~Leaves(i),
                      Fails(i) => ~(Space(i) \/ Socket(i) \/ Bind(i))
               PROVE  StartInv'
  BY <1>1, <1>2
<1>. USE NoneAssumption
<1>. USE DEF StartInv, TypeOK, ServesOwnSegment, Locked, Named, Known, Blamed,
             Label, Pointer, Cause, Owner, Goto
<1>4. CASE Check(i)
  <2>1. /\ pc[i] = "check" /\ pc' = [pc EXCEPT ![i] = "pid"]
        /\ lock = None /\ lock' = i
        /\ UNCHANGED <<daemon, handled, core_shmid, client_sd,
                      pidfile, segment, port, blame>>
    BY ONLY <1>3, <1>4 DEF Check, Goto
  <2>. QED BY <2>1
<1>5. CASE WritePid(i)
  <2>1. CASE LeavesFile(i)
    BY <1>5, <2>1, LeavesFileKeeps DEF WritePid
  <2>2. CASE ~LeavesFile(i)
    <3>1. /\ pc[i] = "pid" /\ pidfile' = i
          /\ pc' = [pc EXCEPT ![i] = IF daemon[i] THEN "fork" ELSE "handlers"]
          /\ UNCHANGED <<daemon, handled, core_shmid, client_sd,
                        lock, segment, port, blame>>
      BY ONLY <1>5, <2>2 DEF WritePid, Goto
    <3>. QED BY <3>1
  <2>. QED BY <2>1, <2>2
<1>6. CASE Fork(i)
  <2>1. /\ pc[i] = "fork" /\ pc' = [pc EXCEPT ![i] = "handlers"]
        /\ lock' = None
        /\ UNCHANGED <<daemon, handled, core_shmid, client_sd,
                      pidfile, segment, port, blame>>
    BY ONLY <1>3, <1>6 DEF Fork, Goto
  <2>. QED BY <2>1
<1>7. CASE Handlers(i)
  BY <1>7 DEF Handlers
<1>8. CASE Shmget(i)
  <2>1. /\ pc[i] = "shmget" /\ pc' = [pc EXCEPT ![i] = "store"]
        /\ segment = None /\ segment' = i /\ blame' = {}
        /\ UNCHANGED <<daemon, handled, core_shmid, client_sd,
                      lock, pidfile, port>>
    BY ONLY <1>3, <1>8 DEF Shmget, Goto
  <2>. QED BY <2>1
<1>9. CASE Store(i)
  BY <1>9 DEF Store
<1>10. CASE Space(i)
  <2>1. /\ pc[i] = "space" /\ pc' = [pc EXCEPT ![i] = "socket"]
        /\ UNCHANGED <<daemon, handled, core_shmid, client_sd,
                      lock, pidfile, segment, port, blame>>
    BY ONLY <1>3, <1>10 DEF Space, Goto
  <2>. QED BY <2>1
<1>11. CASE Socket(i)
  <2>1. /\ pc[i] = "socket" /\ pc' = [pc EXCEPT ![i] = "bind"]
        /\ UNCHANGED <<daemon, handled, core_shmid, client_sd,
                      lock, pidfile, segment, port, blame>>
    BY ONLY <1>3, <1>11 DEF Socket, Goto
  <2>. QED BY <2>1
<1>12. CASE Bind(i)
  <2>1. /\ pc[i] = "bind" /\ pc' = [pc EXCEPT ![i] = "accept"]
        /\ port = None /\ port' = i
        /\ UNCHANGED <<daemon, handled, core_shmid, client_sd,
                      lock, pidfile, segment, blame>>
    BY ONLY <1>3, <1>12 DEF Bind, Goto
  <2>. QED BY <2>1
<1>13. CASE Accept(i)
  BY <1>13 DEF Accept
<1>14. CASE ThreadEnds(i)
  BY <1>14 DEF ThreadEnds
<1>. QED BY <1>4, <1>5, <1>6, <1>7, <1>8, <1>9, <1>10, <1>11, <1>12, <1>13,
            <1>14 DEF Run

LEMMA StartNext == StartInv /\ [Next]_vars => StartInv'
<1>. SUFFICES ASSUME StartInv, [Next]_vars PROVE StartInv'
  OBVIOUS
<1>. USE NoneAssumption
<1>. USE DEF StartInv, TypeOK, ServesOwnSegment, Locked, Named, Known, Blamed,
             Label, Pointer, Cause, Owner
<1>1. ASSUME NEW i \in Inst, NEW d \in BOOLEAN, Start(i, d) PROVE StartInv'
  BY <1>1 DEF Start, Goto
<1>2. CASE Clean
  BY <1>2 DEF Clean
<1>3. CASE UNCHANGED vars
  BY <1>3 DEF vars
<1>. QED BY <1>1, <1>2, <1>3, RunKeeps, StopKeeps, KillKeeps DEF Next

THEOREM StartInvCorrect == Spec => []StartInv
BY StartInit, StartNext, PTL DEF Spec

\* Every variable has its type.
THEOREM TypeCorrect == Spec => []TypeOK
<1>1. StartInv => TypeOK
  BY DEF StartInv
<1>. QED BY <1>1, StartInvCorrect, PTL

\* An emi_core past shmget has the segment of the key.
THEOREM ServesOwnSegmentCorrect == Spec => []ServesOwnSegment
<1>1. StartInv => ServesOwnSegment
  BY DEF StartInv
<1>. QED BY <1>1, StartInvCorrect, PTL

\* Without -d the lock file tells of the one that serves.
THEOREM PidFileNamesServerCorrect == Spec => []PidFileNamesServer
<1>1. StartInv => PidFileNamesServer
  BY DEF StartInv, Locked, Named, PidFileNamesServer
<1>. QED BY <1>1, StartInvCorrect, PTL

\* A segment that keeps the next emi_core from starting has a known reason.
THEOREM NothingLeftCorrect == Spec => []NothingLeft
<1>1. StartInv => NothingLeft
  BY DEF StartInv, TypeOK, Blamed, Owner, NothingLeft
<1>. QED BY <1>1, StartInvCorrect, PTL
=============================================================================
