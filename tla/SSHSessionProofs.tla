-------------------------- MODULE SSHSessionProofs --------------------------
(***************************************************************************)
(* Requests of an SSH session use the pool as its specification allows, so *)
(* what is proved of the pool in ConnectionPoolProofs and in               *)
(* ConnectionLeasesProofs holds under them.                                *)
(***************************************************************************)
EXTENDS SSHSession, ConnectionLeasesProofs

USE DEF taskVars, listVars, statVars, cleanerVars, closerVars, dropVars, sessVars

LEMMA SSHStepIsPoolStep == [SSHNext]_sshVars => [Next]_vars
<1> USE DEF Next, Call
<1>1. ASSUME NEW t \in Task, Request(t) \/ BackoffOver(t) \/ StartClosed(t)
                             \/ AcquireRaised(t) \/ Answer(t)
      PROVE  UNCHANGED vars
    BY <1>1 DEF Request, BackoffOver, StartClosed, AcquireRaised, Answer
<1>2. ASSUME NEW t \in Task, StartAcquire(t) \/ CommandOk(t) \/ CommandBad(t)
                             \/ Raise(t) \/ InPool(t)
      PROVE  Next
    BY <1>2 DEF StartAcquire, CommandOk, CommandBad, Raise, InPool
<1>3. ASSUME NEW t \in Task, Cancel(t)
      PROVE  [Next]_vars
    BY <1>3 DEF Cancel
<1>4. ASSUME Initialize \/ SessionClose \/ PoolBackground
      PROVE  [Next]_vars
    BY <1>4 DEF Initialize, SessionClose, PoolBackground
<1>5. ASSUME UNCHANGED sshVars
      PROVE  UNCHANGED vars
    BY <1>5 DEF sshVars
<1> QED
    BY <1>1, <1>2, <1>3, <1>4, <1>5 DEF SSHNext, TaskStep

\* Whatever a session does, its pool behaves as ConnectionPool.
THEOREM SSHUsesPool == SSHSpec => UsesPool
<1>1. SSHInit => Init
    BY DEF SSHInit
<1> QED
    BY <1>1, SSHStepIsPoolStep, PTL DEF SSHSpec, UsesPool, Spec

\* Hence concurrent requests never share a connection.
THEOREM SSHSingleOwner == SSHSpec => []SingleOwner
BY SSHUsesPool, SingleOwnership, PTL DEF UsesPool

\* Hence also, under any requests, failures and cancellations of a session: permits are
\* accounted for, a closed pool stays empty, no connection is forgotten or counted
\* twice, and every connection has the life ConnectionLeases describes.
THEOREM SSHPoolCorrect ==
    SSHSpec => /\ [](PermitAccounting /\ ClosedStaysEmpty /\ NoOrphans /\ StatsNeverOvercount)
               /\ ListSteps /\ ImplementsLeases
BY SSHUsesPool, PermitsAccounted, ClosedPoolStaysEmpty, NothingOrphaned, StatsHonest,
   ListsStepwise, RefinesLeases, PTL DEF UsesPool

-----------------------------------------------------------------------------
\* Where a request stands decides where its task is in the pool: a request that
\* sleeps, starts or has ended is in no call, and only a sleep that has attempts
\* left is one.
SSHInv ==
    /\ SSHTypeOK
    /\ \A t \in Task : req[t] \in {"idle", "start", "backoff"} => pc[t] = "idle"
    /\ \A t \in Task : req[t] = "backoff" => attempt[t] < MaxAttempts

LEMMA FailedInv ==
    ASSUME SSHInv, NEW t \in Task, Failed(t), pc'[t] = "idle",
           \A u \in Task : u # t => pc'[u] = pc[u]
    PROVE  SSHInv'
BY SSHAssumption DEF SSHInv, SSHTypeOK, ReqStage, Failed, To

LEMMA SSHInvStep ==
    ASSUME SSHInv, TypeOK, [SSHNext]_sshVars
    PROVE  SSHInv'
<1> USE SSHAssumption DEF SSHInv, SSHTypeOK, ReqStage
<1>1. ASSUME NEW t \in Task, Request(t)
      PROVE  SSHInv'
    BY <1>1 DEF Request, vars
<1>2. ASSUME NEW t \in Task, BackoffOver(t)
      PROVE  SSHInv'
    BY <1>2 DEF BackoffOver, vars
<1>3. ASSUME NEW t \in Task, StartClosed(t) \/ AcquireRaised(t)
      PROVE  SSHInv'
    BY <1>3, FailedInv DEF StartClosed, AcquireRaised, vars
<1>4. ASSUME NEW t \in Task, StartAcquire(t)
      PROVE  SSHInv'
    <2>1. \A u \in Task : u # t => pc'[u] = pc[u]
        BY <1>4 DEF StartAcquire, AcquireCall, Lookup, Reuse, Miss, TypeOK
    <2> QED
        BY <1>4, <2>1 DEF StartAcquire, To
<1>5. ASSUME NEW t \in Task, CommandOk(t)
      PROVE  SSHInv'
    <2>1. \A u \in Task : u # t => pc'[u] = pc[u]
        BY <1>5 DEF CommandOk, Release, ReleaseCall, ReleaseLate, PutBack, Keep, Evict, TypeOK
    <2> QED
        BY <1>5, <2>1 DEF CommandOk, To
<1>6. ASSUME NEW t \in Task, CommandBad(t)
      PROVE  SSHInv'
    <2>1. \A u \in Task : u # t => pc'[u] = pc[u]
        BY <1>6 DEF CommandBad, MarkCall, TypeOK
    <2> QED
        BY <1>6, <2>1 DEF CommandBad, To
<1>7. ASSUME NEW t \in Task, Answer(t)
      PROVE  SSHInv'
    BY <1>7 DEF Answer, To, vars
<1>8. ASSUME NEW t \in Task, Raise(t)
      PROVE  SSHInv'
    BY <1>8, FailedInv DEF Raise, Drop, TypeOK
<1>9. ASSUME NEW t \in Task, Cancel(t)
      PROVE  SSHInv'
    BY <1>9 DEF Cancel, To, Drop, TypeOK, vars
<1>10. ASSUME NEW t \in Task, InPool(t)
      PROVE  SSHInv'
    <2>1. pc[t] # "idle" /\ \A u \in Task : u # t => pc'[u] = pc[u]
        BY <1>10 DEF InPool, Resume, AcquireLookup, Lookup, Reuse, Miss, TakePermit,
             CreateOk, CreateFail, ReleaseLocked, PutBack, Keep, Evict, EvictDone,
             LateCloseDone, MarkLocked, TypeOK
    <2> QED
        BY <1>10, <2>1 DEF InPool
<1>11. ASSUME Initialize \/ SessionClose \/ PoolBackground
      PROVE  SSHInv'
    <2>1. UNCHANGED <<req, attempt, requests, ownPool, pc>> /\ sessClosed' \in BOOLEAN
        BY <1>11 DEF Initialize, Start, SessionClose, CloseCall, PoolBackground, Clean,
             CleanerWake, CleanerLocked, CleanerScan, CleanerClose, CleanerUpdate,
             CleanerFinish, CleanerCancelled, Close, CloseCleanerGone, CloseLocked,
             CloseConn, CloseConnDone, CloseDone, CloseCancelled, Tick, vars
    <2> QED
        BY <2>1
<1>12. ASSUME UNCHANGED sshVars
      PROVE  SSHInv'
    BY <1>12 DEF sshVars, vars
<1> QED
    BY <1>1, <1>2, <1>3, <1>4, <1>5, <1>6, <1>7, <1>8, <1>9, <1>10, <1>11, <1>12
    DEF SSHNext, TaskStep

LEMMA SSHInitInv == SSHInit => SSHInv
<1> SUFFICES ASSUME SSHInit PROVE SSHInv
    OBVIOUS
<1>1. requests \in 0..MaxRequests /\ attempt \in [Task -> 0..MaxAttempts]
    BY SSHAssumption DEF SSHInit
<1>2. req \in [Task -> ReqStage] /\ \A t \in Task : req[t] = "idle" /\ pc[t] = "idle"
    BY DEF SSHInit, ReqStage, Init
<1> QED
    BY <1>1, <1>2 DEF SSHInit, SSHInv, SSHTypeOK

-----------------------------------------------------------------------------
\* A session that made its pool closes it when it is closed, and nobody else
\* does; one that was given a pool never closes it.
ClosedTogether == closed <=> sessClosed /\ ownPool

LEMMA SSHClosesPool ==
    ASSUME ClosedTogether, SSHTypeOK, [SSHNext]_sshVars
    PROVE  ClosedTogether'
<1>1. ASSUME NEW t \in Task, Request(t) \/ TaskStep(t) \/ Cancel(t)
      PROVE  UNCHANGED <<closed, sessClosed, ownPool>>
    BY <1>1 DEF Request, TaskStep, BackoffOver, StartClosed, StartAcquire, AcquireRaised,
         CommandOk, Answer, CommandBad, Raise, InPool, Failed, To, Cancel, Drop, vars,
         AcquireCall, Release, ReleaseCall, ReleaseLate, MarkCall, Resume, AcquireLookup,
         TakePermit, CreateOk, CreateFail, ReleaseLocked, EvictDone, LateCloseDone, MarkLocked
<1>2. ASSUME Initialize \/ PoolBackground
      PROVE  UNCHANGED <<closed, sessClosed, ownPool>>
    BY <1>2 DEF Initialize, Start, PoolBackground, Clean,
         CleanerWake, CleanerLocked, CleanerScan, CleanerClose, CleanerUpdate,
         CleanerFinish, CleanerCancelled, Close, CloseCleanerGone, CloseLocked,
         CloseConn, CloseConnDone, CloseDone, CloseCancelled, Tick
<1>3. ASSUME SessionClose
      PROVE  ClosedTogether'
    BY <1>3 DEF SessionClose, CloseCall, ClosedTogether, SSHTypeOK, vars
<1>4. ASSUME UNCHANGED sshVars
      PROVE  UNCHANGED <<closed, sessClosed, ownPool>>
    BY <1>4 DEF sshVars, vars
<1> QED
    BY <1>1, <1>2, <1>3, <1>4 DEF SSHNext, ClosedTogether

\* After close(), once the requests have returned: a pool of the session's own has
\* nothing open but what failed or cancelled commands gave up, and a pool that it was
\* given, as Backend's is, is still open with what is open in it listed
\* (SSHSession.close, ssh.py:295-306).
THEOREM SSHCloseSettles == SSHSpec => []CloseSettlesPool
<1>1. SSHInit => SSHInv /\ ClosedTogether
    BY SSHInitInv DEF SSHInit, Init, ClosedTogether
<1>2. SSHInv /\ TypeOK /\ [SSHNext]_sshVars => SSHInv'
    BY SSHInvStep
<1>3. ClosedTogether /\ SSHInv /\ [SSHNext]_sshVars => ClosedTogether'
    BY SSHClosesPool DEF SSHInv
<1>4. SSHSpec => [](PoolInv /\ NoOrphans)
    BY SSHUsesPool, PoolConsistent, NothingOrphaned, PTL DEF UsesPool
<1>5. PoolInv => TypeOK
    BY DEF PoolInv
<1>6. SSHInv /\ ClosedTogether /\ PoolInv /\ NoOrphans => CloseSettlesPool
    <2> SUFFICES ASSUME SSHInv, ClosedTogether, PoolInv, NoOrphans, AtRest
                 PROVE  IF ownPool THEN open \subseteq dropped
                                   ELSE ~closed /\ open \subseteq Pooled \union dropped
        BY DEF CloseSettlesPool
    <2>1. Owners = {}
        BY DEF SSHInv, AtRest, Owners, Owning
    <2>2. CASE ownPool
        <3>1. closer = "done"
            BY <2>2 DEF AtRest, ClosedTogether, PoolInv, CloserInv
        <3>2. Pooled = {}
            BY <3>1 DEF PoolInv, SweepInv, Pooled
        <3> QED
            BY <2>1, <2>2, <3>2 DEF NoOrphans
    <2>3. CASE ~ownPool
        BY <2>1, <2>3 DEF NoOrphans, ClosedTogether
    <2> QED
        BY <2>2, <2>3
<1> QED
    BY <1>1, <1>2, <1>3, <1>4, <1>5, <1>6, PTL DEF SSHSpec

=============================================================================
