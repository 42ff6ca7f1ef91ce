------------------------ MODULE ConnectionPoolProofs ------------------------
(***************************************************************************)
(* Proofs about ConnectionPool, for every set of tasks and keys, every     *)
(* limit and every length of the behaviour.                                *)
(***************************************************************************)
EXTENDS ConnectionPool, FiniteSetTheorems, SequenceTheorems, TLAPS

USE DEF taskVars, listVars, statVars, cleanerVars, closerVars, dropVars, Room, ToKeep

-----------------------------------------------------------------------------
(* Lemmas about the lock's queue *)

\* Removing one entry of a sequence leaves a sequence over the same set.
LEMMA RemoveAtType ==
    ASSUME NEW S, NEW s \in Seq(S), NEW i \in DOMAIN s
    PROVE  RemoveAt(s, i) \in Seq(S)
<1>1. i \in 1..Len(s) /\ Len(s) \in Nat
    BY LenProperties
<1>2. \A j \in 1..(i-1) : s[j] \in S
    BY <1>1, ElementOfSeq
<1>3. \A j \in (i+1)..Len(s) : s[j] \in S
    BY <1>1, ElementOfSeq
<1>4. SubSeq(s, 1, i-1) \in Seq(S)
    BY <1>1, <1>2, SubSeqProperties
<1>5. SubSeq(s, i+1, Len(s)) \in Seq(S)
    BY <1>1, <1>3, SubSeqProperties
<1> QED
    BY <1>4, <1>5, ConcatProperties DEF RemoveAt

\* Whatever an actor does with the lock, the queue stays a queue of actors.
LEMMA QueueStepType ==
    ASSUME queue \in Seq(Actor), NEW a \in Actor,
           \/ Enqueue(a) \/ Unlock \/ StayLocked(a) \/ LeaveQueue(a)
           \/ UNCHANGED queue
    PROVE  queue' \in Seq(Actor)
<1>1. CASE Enqueue(a)
    BY <1>1, AppendProperties DEF Enqueue
<1>2. CASE Unlock
    BY <1>2, HeadTailProperties, EmptySeq DEF Unlock
<1>3. CASE StayLocked(a)
    BY <1>3 DEF StayLocked
<1>4. CASE LeaveQueue(a)
    BY <1>4, RemoveAtType DEF LeaveQueue
<1>5. CASE UNCHANGED queue
    BY <1>5
<1> QED
    BY <1>1, <1>2, <1>3, <1>4, <1>5

LEMMA ActorType ==
    "cleaner" \in Actor /\ "closer" \in Actor /\ \A t \in Task : t \in Actor
BY DEF Actor

-----------------------------------------------------------------------------
(* Type correctness *)

LEMMA InitType == Init => TypeOK
<1> SUFFICES ASSUME Init PROVE TypeOK
    OBVIOUS
<1>1. queue \in Seq(Actor)
    BY EmptySeq DEF Init
<1>2. pc \in [Task -> Stage] /\ pool \in [Key -> SUBSET Conn]
    BY DEF Init, Stage
<1>3. idle \in [Conn -> 0..(KeepaliveTimeout + 1)]
    BY PoolAssumption DEF Init
<1>4. conn \in [Task -> Conn \union {NoConn}] /\ permits \in Nat
    BY PoolAssumption DEF Init
<1>5. total_created \in 0..MaxLeases
    BY PoolAssumption DEF Init
<1> QED
    BY <1>1, <1>2, <1>3, <1>4, <1>5 DEF Init, TypeOK

LEMMA LookupType ==
    ASSUME TypeOK, NEW t \in Task, NEW k \in Key, Lookup(t, k)
    PROVE  /\ pc' \in [Task -> Stage]
           /\ conn' \in [Task -> Conn \union {NoConn}]
           /\ pool' \in [Key -> SUBSET Conn]
           /\ idle' \in [Conn -> 0..(KeepaliveTimeout + 1)]
           /\ unhealthy' \subseteq Conn
           /\ queue' \in Seq(Actor)
           /\ permits' \in Nat
           /\ total_reused' \in Nat
<1>1. queue' \in Seq(Actor)
    BY QueueStepType, ActorType DEF Lookup, TypeOK
<1>2. CASE Reuse(t, k)
    BY <1>1, <1>2, PoolAssumption DEF Lookup, Reuse, Fresh, TypeOK, Stage, Leasing, Owning
<1>3. CASE Miss(t, k)
    <2>1. pc' \in [Task -> Stage] /\ permits' \in Nat
        BY <1>3 DEF Miss, TypeOK, Stage, Acquiring
    <2> QED
        BY <1>1, <1>3, <2>1 DEF Lookup, Miss, TypeOK
<1> QED
    BY <1>2, <1>3 DEF Lookup

LEMMA PutBackType ==
    ASSUME TypeOK, NEW t \in Task, conn[t] \in Conn, PutBack(t)
    PROVE  /\ pc' \in [Task -> Stage]
           /\ pool' \in [Key -> SUBSET Conn]
           /\ idle' \in [Conn -> 0..(KeepaliveTimeout + 1)]
           /\ unhealthy' \subseteq Conn
           /\ queue' \in Seq(Actor)
           /\ permits' \in Nat
           /\ open' \subseteq Conn
<1>1. queue' \in Seq(Actor)
    BY QueueStepType, ActorType DEF PutBack, Keep, Evict, TypeOK
<1>2. CASE Keep(t, key[t])
    BY <1>1, <1>2, PoolAssumption DEF Keep, TypeOK, Stage
<1>3. CASE Evict(t, key[t])
    BY <1>1, <1>3 DEF Evict, TypeOK, Stage, Leasing
<1> QED
    BY <1>2, <1>3 DEF PutBack

\* A task that owns a lease has a connection, and so has a step of release.
HasConn == \A t \in Owners : conn[t] \in Conn

LEMMA NextType ==
    ASSUME TypeOK, HasConn, [Next]_vars
    PROVE  TypeOK'
<1> USE PoolAssumption, ActorType
<1>1. ASSUME NEW t \in Task, NEW k \in Key, AcquireCall(t, k) PROVE TypeOK'
    BY <1>1, LookupType, QueueStepType DEF AcquireCall, TypeOK, Stage, Acquiring
<1>2. ASSUME NEW t \in Task, AcquireLookup(t) PROVE TypeOK'
    BY <1>2, LookupType DEF AcquireLookup, TypeOK
<1>3. ASSUME NEW t \in Task, TakePermit(t) PROVE TypeOK'
    BY <1>3 DEF TakePermit, TypeOK, Stage, Acquiring
<1>4. ASSUME NEW t \in Task, CreateOk(t) PROVE TypeOK'
    BY <1>4 DEF CreateOk, TypeOK, Stage, Leasing, Owning, Conn
<1>5. ASSUME NEW t \in Task, CreateFail(t) PROVE TypeOK'
    BY <1>5 DEF CreateFail, TypeOK, Stage
<1>6. ASSUME NEW t \in Task, ReleaseCall(t) PROVE TypeOK'
    BY <1>6, PutBackType, QueueStepType DEF ReleaseCall, TypeOK, HasConn, Owners, Owning, Stage, Leasing
<1>7. ASSUME NEW t \in Task, ReleaseLocked(t) PROVE TypeOK'
    BY <1>7, PutBackType DEF ReleaseLocked, TypeOK, HasConn, Owners, Owning
<1>8. ASSUME NEW t \in Task, ReleaseLate(t) PROVE TypeOK'
    BY <1>8 DEF ReleaseLate, TypeOK, Stage, Leasing
<1>9. ASSUME NEW t \in Task, EvictDone(t) PROVE TypeOK'
    BY <1>9, QueueStepType DEF EvictDone, TypeOK, Stage
<1>10. ASSUME NEW t \in Task, LateCloseDone(t) PROVE TypeOK'
    BY <1>10 DEF LateCloseDone, TypeOK, Stage
<1>11. ASSUME NEW t \in Task, MarkCall(t) PROVE TypeOK'
    BY <1>11, QueueStepType DEF MarkCall, Mark, TypeOK, Stage, InLock
<1>12. ASSUME NEW t \in Task, MarkLocked(t) PROVE TypeOK'
    BY <1>12, QueueStepType DEF MarkLocked, Mark, TypeOK, Stage, Leasing, Owning
<1>13. ASSUME NEW t \in Task, Drop(t) PROVE TypeOK'
    BY <1>13, QueueStepType DEF Drop, TypeOK, Stage, HasConn, Owners
<1>14. ASSUME Start PROVE TypeOK'
    BY <1>14 DEF Start, TypeOK
<1>15. ASSUME CleanerWake PROVE TypeOK'
    BY <1>15, QueueStepType DEF CleanerWake, TypeOK
<1>16. ASSUME CleanerLocked PROVE TypeOK'
    BY <1>16 DEF CleanerLocked, TypeOK
<1>17. ASSUME CleanerScan PROVE TypeOK'
    BY <1>17 DEF CleanerScan, Stale, TypeOK
<1>18. ASSUME CleanerClose PROVE TypeOK'
    BY <1>18 DEF CleanerClose, TypeOK
<1>19. ASSUME CleanerUpdate PROVE TypeOK'
    BY <1>19 DEF CleanerUpdate, TypeOK
<1>20. ASSUME CleanerFinish PROVE TypeOK'
    BY <1>20, QueueStepType DEF CleanerFinish, TypeOK
<1>21. ASSUME CleanerCancelled PROVE TypeOK'
    BY <1>21, QueueStepType DEF CleanerCancelled, TypeOK
<1>22. ASSUME CloseCall PROVE TypeOK'
    BY <1>22, QueueStepType DEF CloseCall, SweepOrWait, Pooled, TypeOK
<1>23. ASSUME CloseCleanerGone PROVE TypeOK'
    BY <1>23, QueueStepType DEF CloseCleanerGone, SweepOrWait, Pooled, TypeOK
<1>24. ASSUME CloseLocked PROVE TypeOK'
    BY <1>24 DEF CloseLocked, Pooled, TypeOK
<1>25. ASSUME CloseConn PROVE TypeOK'
    BY <1>25 DEF CloseConn, TypeOK
<1>26. ASSUME CloseConnDone PROVE TypeOK'
    BY <1>26 DEF CloseConnDone, TypeOK
<1>27. ASSUME CloseDone PROVE TypeOK'
    BY <1>27, QueueStepType DEF CloseDone, TypeOK
<1>28. ASSUME CloseCancelled PROVE TypeOK'
    BY <1>28, QueueStepType DEF CloseCancelled, TypeOK
<1>29. ASSUME Tick PROVE TypeOK'
    BY <1>29 DEF Tick, TypeOK
<1>30. ASSUME UNCHANGED vars PROVE TypeOK'
    BY <1>30 DEF vars, TypeOK
<1> QED
    BY <1>1, <1>2, <1>3, <1>4, <1>5, <1>6, <1>7, <1>8, <1>9, <1>10, <1>11, <1>12, <1>13, <1>14, <1>15, <1>16, <1>17, <1>18, <1>19, <1>20, <1>21, <1>22, <1>23, <1>24, <1>25, <1>26, <1>27, <1>28, <1>29, <1>30
    DEF Next, Call, Resume, Release, Clean, Close

-----------------------------------------------------------------------------
(* Ownership: what a step does to who has which connection.                  *)

\* A task takes connection c out of the list of k.
TakesListed(t, k, c) ==
    /\ t \notin Owners /\ c \in pool[k]
    /\ Owners' = Owners \union {t}
    /\ conn' = [conn EXCEPT ![t] = c]
    /\ pool' = [pool EXCEPT ![k] = @ \ {c}]
    /\ total_created' = total_created

\* A task gets a connection that never existed before.
TakesNew(t) ==
    /\ t \notin Owners
    /\ total_created < MaxLeases
    /\ Owners' = Owners \union {t}
    /\ conn' = [conn EXCEPT ![t] = total_created + 1]
    /\ pool' = pool
    /\ total_created' = total_created + 1

\* A task puts its connection on its list, which is not full.
PutsBack(t) ==
    /\ t \in Owners
    /\ Owners' = Owners \ {t}
    /\ conn' = conn
    /\ Cardinality(pool[key[t]]) < MaxKeepalive
    /\ pool' = [pool EXCEPT ![key[t]] = @ \union {conn[t]}]
    /\ total_created' = total_created

\* Nobody gets anything.
OnlyLoses ==
    /\ Owners' \subseteq Owners
    /\ \A t \in Owners : conn'[t] = conn[t]
    /\ \A k \in Key : pool'[k] \subseteq pool[k]
    /\ total_created' = total_created

OwnershipStep ==
    \/ \E t \in Task, k \in Key, c \in Conn : TakesListed(t, k, c)
    \/ \E t \in Task : TakesNew(t) \/ PutsBack(t)
    \/ OnlyLoses

LEMMA LookupOwnership ==
    ASSUME TypeOK, NEW t \in Task, NEW k \in Key, pc[t] \notin Owning,
           Lookup(t, k), total_created' = total_created
    PROVE  OwnershipStep
<1>1. CASE Reuse(t, k)
    <2>1. PICK c \in Fresh(k) :
             /\ pool' = [pool EXCEPT ![k] = @ \ {c}]
             /\ conn' = [conn EXCEPT ![t] = c]
        BY <1>1 DEF Reuse
    <2>2. c \in pool[k] /\ c \in Conn
        BY <2>1 DEF Fresh, TypeOK
    <2>3. t \notin Owners /\ Owners' = Owners \union {t}
        BY <1>1 DEF Reuse, Owners, Owning, TypeOK
    <2> QED
        BY <2>1, <2>2, <2>3 DEF TakesListed, OwnershipStep
<1>2. CASE Miss(t, k)
    <2>1. Owners' = Owners
        BY <1>2 DEF Miss, Owners, Owning, TypeOK
    <2>2. \A u \in Owners : conn'[u] = conn[u]
        BY <1>2 DEF Miss, Owners, TypeOK
    <2> QED
        BY <1>2, <2>1, <2>2 DEF Miss, OnlyLoses, OwnershipStep
<1> QED
    BY <1>1, <1>2 DEF Lookup

LEMMA PutBackOwnership ==
    ASSUME TypeOK, NEW t \in Task, pc[t] \in Owning, PutBack(t),
           conn' = conn, total_created' = total_created
    PROVE  OwnershipStep
<1>1. CASE Keep(t, key[t])
    <2>1. t \in Owners /\ Owners' = Owners \ {t}
        BY <1>1 DEF Keep, Owners, Owning, TypeOK
    <2> QED
        BY <1>1, <2>1 DEF Keep, PutsBack, OwnershipStep
<1>2. CASE Evict(t, key[t])
    <2>1. Owners' \subseteq Owners
        BY <1>2 DEF Evict, Owners, Owning, TypeOK
    <2> QED
        BY <1>2, <2>1 DEF Evict, listVars, OnlyLoses, OwnershipStep
<1> QED
    BY <1>1, <1>2 DEF PutBack

LEMMA NextOwnership ==
    ASSUME TypeOK, [Next]_vars
    PROVE  OwnershipStep
<1>1. ASSUME NEW t \in Task, NEW k \in Key, AcquireCall(t, k) PROVE OwnershipStep
    <2>1. CASE queue = <<>>
        BY <1>1, <2>1, LookupOwnership DEF AcquireCall, Owning
    <2>2. CASE queue # <<>>
        BY <1>1, <2>2 DEF AcquireCall, Owners, Owning, OnlyLoses, OwnershipStep, TypeOK
    <2> QED
        BY <2>1, <2>2
<1>2. ASSUME NEW t \in Task, AcquireLookup(t) PROVE OwnershipStep
    BY <1>2, LookupOwnership DEF AcquireLookup, Owning, TypeOK
<1>3. ASSUME NEW t \in Task, TakePermit(t) PROVE OwnershipStep
    BY <1>3 DEF TakePermit, Owners, Owning, OnlyLoses, OwnershipStep, TypeOK
<1>4. ASSUME NEW t \in Task, CreateOk(t) PROVE OwnershipStep
    BY <1>4 DEF CreateOk, TakesNew, Owners, Owning, OwnershipStep, TypeOK
<1>5. ASSUME NEW t \in Task, CreateFail(t) PROVE OwnershipStep
    BY <1>5 DEF CreateFail, Owners, Owning, OnlyLoses, OwnershipStep, TypeOK
<1>6. ASSUME NEW t \in Task, ReleaseCall(t) PROVE OwnershipStep
    <2>1. CASE queue = <<>>
        BY <1>6, <2>1, PutBackOwnership DEF ReleaseCall, Owning
    <2>2. CASE queue # <<>>
        BY <1>6, <2>2 DEF ReleaseCall, Owners, Owning, OnlyLoses, OwnershipStep, TypeOK
    <2> QED
        BY <2>1, <2>2
<1>7. ASSUME NEW t \in Task, ReleaseLocked(t) PROVE OwnershipStep
    BY <1>7, PutBackOwnership DEF ReleaseLocked, Owning
<1>8. ASSUME NEW t \in Task, ReleaseLate(t) PROVE OwnershipStep
    BY <1>8 DEF ReleaseLate, Owners, Owning, OnlyLoses, OwnershipStep, TypeOK
<1>9. ASSUME NEW t \in Task, EvictDone(t) PROVE OwnershipStep
    BY <1>9 DEF EvictDone, Owners, Owning, OnlyLoses, OwnershipStep, TypeOK
<1>10. ASSUME NEW t \in Task, LateCloseDone(t) PROVE OwnershipStep
    BY <1>10 DEF LateCloseDone, Owners, Owning, OnlyLoses, OwnershipStep, TypeOK
<1>11. ASSUME NEW t \in Task, MarkCall(t) PROVE OwnershipStep
    BY <1>11 DEF MarkCall, Owners, Owning, OnlyLoses, OwnershipStep, TypeOK
<1>12. ASSUME NEW t \in Task, MarkLocked(t) PROVE OwnershipStep
    BY <1>12 DEF MarkLocked, Owners, Owning, OnlyLoses, OwnershipStep, TypeOK
<1>13. ASSUME NEW t \in Task, Drop(t) PROVE OwnershipStep
    BY <1>13 DEF Drop, Owners, Owning, OnlyLoses, OwnershipStep, TypeOK
<1>14. ASSUME Start PROVE OwnershipStep
    BY <1>14 DEF Start, Owners, OnlyLoses, OwnershipStep
<1>15. ASSUME Clean PROVE OwnershipStep
    <2>1. /\ Owners' = Owners /\ conn' = conn
          /\ total_created' = total_created
        BY <1>15 DEF Clean, CleanerWake, CleanerLocked, CleanerScan, CleanerClose,
                     CleanerUpdate, CleanerFinish, CleanerCancelled, Owners
    <2>2. \A k \in Key : pool'[k] \subseteq pool[k]
        BY <1>15 DEF Clean, CleanerWake, CleanerLocked, CleanerScan, CleanerClose,
                     CleanerUpdate, CleanerFinish, CleanerCancelled, TypeOK
    <2> QED
        BY <2>1, <2>2 DEF OnlyLoses, OwnershipStep
<1>16. ASSUME CloseCall PROVE OwnershipStep
    BY <1>16 DEF CloseCall, Owners, OnlyLoses, OwnershipStep
<1>17. ASSUME Close PROVE OwnershipStep
    BY <1>17 DEF Close, CloseCleanerGone, CloseLocked, CloseConn, CloseConnDone, CloseDone, TypeOK, Owners, OnlyLoses, OwnershipStep
<1>18. ASSUME CloseCancelled PROVE OwnershipStep
    BY <1>18 DEF CloseCancelled, Owners, OnlyLoses, OwnershipStep
<1>19. ASSUME Tick PROVE OwnershipStep
    BY <1>19 DEF Tick, Owners, OnlyLoses, OwnershipStep
<1>20. ASSUME UNCHANGED vars PROVE OwnershipStep
    BY <1>20 DEF vars, Owners, OnlyLoses, OwnershipStep
<1> QED
    BY <1>1, <1>2, <1>3, <1>4, <1>5, <1>6, <1>7, <1>8, <1>9, <1>10, <1>11, <1>12, <1>13, <1>14, <1>15, <1>16, <1>17, <1>18, <1>19, <1>20
    DEF Next, Call, Resume, Release

-----------------------------------------------------------------------------
(* Theorems on types, the keep-alive limit and ownership *)

LEMMA OwnershipHasConn ==
    ASSUME TypeOK, HasConn, OwnershipStep
    PROVE  HasConn'
<1>1. ASSUME NEW t \in Task, NEW k \in Key, NEW c \in Conn, TakesListed(t, k, c)
      PROVE  HasConn'
    BY <1>1 DEF TakesListed, HasConn, Owners, TypeOK
<1>2. ASSUME NEW t \in Task, TakesNew(t)
      PROVE  HasConn'
    <2>1. total_created + 1 \in Conn
        BY <1>2, PoolAssumption DEF TakesNew, TypeOK, Conn
    <2> QED
        BY <1>2, <2>1 DEF TakesNew, HasConn, Owners, TypeOK
<1>3. ASSUME NEW t \in Task, PutsBack(t)
      PROVE  HasConn'
    BY <1>3 DEF PutsBack, HasConn, Owners
<1>4. CASE OnlyLoses
    BY <1>4 DEF OnlyLoses, HasConn
<1> QED
    BY <1>1, <1>2, <1>3, <1>4 DEF OwnershipStep

\* The variables of pool.py and of its callers always have their types; a task
\* that owns a lease has a connection.
THEOREM TypeCorrect == Spec => [](TypeOK /\ HasConn)
<1>1. Init => TypeOK /\ HasConn
    BY InitType DEF Init, HasConn, Owners, Owning
<1>2. TypeOK /\ HasConn /\ [Next]_vars => TypeOK' /\ HasConn'
    BY NextType, NextOwnership, OwnershipHasConn
<1> QED
    BY <1>1, <1>2, PTL DEF Spec

LEMMA ListsFinite ==
    ASSUME TypeOK, NEW k \in Key
    PROVE  IsFiniteSet(pool[k]) /\ Cardinality(pool[k]) \in Nat
<1>1. IsFiniteSet(Conn)
    BY FS_Interval, PoolAssumption DEF Conn
<1>2. pool[k] \in SUBSET Conn
    BY DEF TypeOK
<1> QED
    BY <1>1, <1>2, FS_Subset, FS_CardinalityType

LEMMA OwnershipKeepalive ==
    ASSUME TypeOK, HasConn, KeepaliveBound, OwnershipStep
    PROVE  KeepaliveBound'
<1> SUFFICES ASSUME NEW k \in Key PROVE Cardinality(pool'[k]) <= MaxKeepalive
    BY DEF KeepaliveBound
<1>0. /\ IsFiniteSet(pool[k]) /\ Cardinality(pool[k]) \in Nat
      /\ Cardinality(pool[k]) <= MaxKeepalive
      /\ MaxKeepalive \in Nat
    BY ListsFinite, PoolAssumption DEF KeepaliveBound
<1>1. ASSUME pool'[k] \subseteq pool[k]
      PROVE  Cardinality(pool'[k]) <= MaxKeepalive
    <2>1. Cardinality(pool'[k]) <= Cardinality(pool[k]) /\ IsFiniteSet(pool'[k])
        BY <1>0, <1>1, FS_Subset
    <2>2. Cardinality(pool'[k]) \in Nat
        BY <2>1, FS_CardinalityType
    <2> QED
        BY <1>0, <2>1, <2>2
<1>2. ASSUME NEW t \in Task, PutsBack(t)
      PROVE  Cardinality(pool'[k]) <= MaxKeepalive
    <2>1. CASE k = key[t]
        <3>1. pool'[k] = pool[k] \union {conn[t]}
            BY <1>2, <2>1 DEF PutsBack, TypeOK
        <3>2. Cardinality(pool[k]) < MaxKeepalive
            BY <1>2, <2>1 DEF PutsBack
        <3>3. \/ Cardinality(pool'[k]) = Cardinality(pool[k]) + 1
              \/ Cardinality(pool'[k]) = Cardinality(pool[k])
            <4>1. Cardinality(pool[k] \union {conn[t]}) =
                    IF conn[t] \in pool[k] THEN Cardinality(pool[k])
                                           ELSE Cardinality(pool[k]) + 1
                BY <1>0, FS_AddElement
            <4> QED
                BY <3>1, <4>1
        <3> QED
            BY <1>0, <3>2, <3>3
    <2>2. CASE k # key[t]
        BY <1>1, <1>2, <2>2 DEF PutsBack, TypeOK
    <2> QED
        BY <2>1, <2>2
<1>3. ASSUME NEW t \in Task, NEW j \in Key, NEW c \in Conn, TakesListed(t, j, c)
      PROVE  pool'[k] \subseteq pool[k]
    BY <1>3 DEF TakesListed, TypeOK
<1>4. ASSUME NEW t \in Task, TakesNew(t)
      PROVE  pool'[k] \subseteq pool[k]
    BY <1>4 DEF TakesNew
<1>5. CASE OnlyLoses
    BY <1>1, <1>5 DEF OnlyLoses
<1> QED
    BY <1>1, <1>2, <1>3, <1>4, <1>5 DEF OwnershipStep

\* No key has more idle connections than max_keepalive: the check and the
\* append of release are in one critical section.
THEOREM KeepaliveBounded == Spec => []KeepaliveBound
<1>1. Init => KeepaliveBound
    BY FS_EmptySet, PoolAssumption DEF Init, KeepaliveBound
<1>2. TypeOK /\ HasConn /\ KeepaliveBound /\ [Next]_vars => KeepaliveBound'
    BY NextOwnership, OwnershipKeepalive
<1> QED
    BY <1>1, <1>2, TypeCorrect, PTL DEF Spec

\* SingleOwner is not inductive by itself: a new connection must also be one
\* that nobody has, so every connection that is had was created before.
HadIsCreated ==
    /\ \A t \in Owners : conn[t] \in 1..total_created
    /\ \A k \in Key : pool[k] \subseteq 1..total_created

Ownership ==
    /\ HadIsCreated
    /\ \A t, u \in Owners : conn[t] = conn[u] => t = u
    /\ \A t \in Owners, k \in Key : conn[t] \notin pool[k]
    /\ \A j, k \in Key : j # k => pool[j] \intersect pool[k] = {}

LEMMA NextKeepsOwnership ==
    ASSUME TypeOK, HasConn, Ownership, OwnershipStep
    PROVE  Ownership'
<1> USE DEF Ownership, HadIsCreated
<1>1. ASSUME NEW t \in Task, NEW k \in Key, NEW c \in Conn, TakesListed(t, k, c)
      PROVE  Ownership'
    BY <1>1 DEF TakesListed, Owners, TypeOK
<1>2. ASSUME NEW t \in Task, TakesNew(t)
      PROVE  Ownership'
    BY <1>2 DEF TakesNew, Owners, TypeOK
<1>3. ASSUME NEW t \in Task, PutsBack(t)
      PROVE  Ownership'
    BY <1>3 DEF PutsBack, TypeOK
<1>4. CASE OnlyLoses
    BY <1>4 DEF OnlyLoses
<1> QED
    BY <1>1, <1>2, <1>3, <1>4 DEF OwnershipStep

\* No interleaving of acquire, release, clean-up and close() gives one
\* connection to two tasks, or leaves a connection in use listed as idle.
THEOREM SingleOwnership == Spec => []SingleOwner
<1>1. Init => Ownership
    BY DEF Init, Ownership, HadIsCreated, Owners, Owning
<1>2. TypeOK /\ HasConn /\ Ownership /\ [Next]_vars => Ownership'
    BY NextOwnership, NextKeepsOwnership
<1>3. Ownership => SingleOwner
    BY DEF Ownership, SingleOwner, Pooled
<1> QED
    BY <1>1, <1>2, <1>3, TypeCorrect, PTL DEF Spec

-----------------------------------------------------------------------------
(* Permits: what a step does to the permits and to who owes one.             *)

PermitStep ==
    \/ /\ Lessees' = Lessees
       /\ UNCHANGED <<permits, lost, total_reused>>
    \/ \E t \in Task \ Lessees :                       \* a lease starts
          /\ Lessees' = Lessees \union {t}
          /\ lost' = lost
          /\ \/ permits > 0 /\ permits' = permits - 1 /\ total_reused' = total_reused
             \/ permits' = permits /\ total_reused' = total_reused + 1
    \/ \E t \in Lessees :                              \* a lease ends
          /\ Lessees' = Lessees \ {t}
          /\ total_reused' = total_reused
          /\ \/ permits' = permits + 1 /\ lost' = lost
             \/ permits' = permits /\ lost' = lost + 1

LEMMA LookupPermits ==
    ASSUME TypeOK, NEW t \in Task, NEW k \in Key, pc[t] \notin Leasing,
           Lookup(t, k), lost' = lost
    PROVE  PermitStep
<1>1. CASE Reuse(t, k)
    <2>1. t \notin Lessees /\ Lessees' = Lessees \union {t}
        BY <1>1 DEF Reuse, Lessees, Leasing, Owning, TypeOK
    <2> QED
        BY <1>1, <2>1 DEF Reuse, PermitStep
<1>2. CASE Miss(t, k)
    <2>1. CASE permits > 0
        <3>1. t \notin Lessees /\ Lessees' = Lessees \union {t}
            BY <1>2, <2>1 DEF Miss, Lessees, Leasing, TypeOK
        <3> QED
            BY <1>2, <2>1, <3>1 DEF Miss, PermitStep
    <2>2. CASE ~(permits > 0)
        <3>1. Lessees' = Lessees
            BY <1>2, <2>2 DEF Miss, Lessees, Leasing, Owning, TypeOK
        <3> QED
            BY <1>2, <2>2, <3>1 DEF Miss, PermitStep
    <2> QED
        BY <2>1, <2>2
<1> QED
    BY <1>1, <1>2 DEF Lookup

LEMMA PutBackPermits ==
    ASSUME TypeOK, NEW t \in Task, pc[t] \in Leasing, PutBack(t),
           lost' = lost, total_reused' = total_reused
    PROVE  PermitStep
<1>1. CASE Keep(t, key[t])
    <2>1. t \in Lessees /\ Lessees' = Lessees \ {t}
        BY <1>1 DEF Keep, Lessees, Leasing, Owning, TypeOK
    <2> QED
        BY <1>1, <2>1 DEF Keep, PermitStep
<1>2. CASE Evict(t, key[t])
    <2>1. Lessees' = Lessees
        BY <1>2 DEF Evict, Lessees, Leasing, TypeOK
    <2> QED
        BY <1>2, <2>1 DEF Evict, PermitStep
<1> QED
    BY <1>1, <1>2 DEF PutBack

LEMMA NextPermits ==
    ASSUME TypeOK, [Next]_vars
    PROVE  PermitStep
<1>1. ASSUME NEW t \in Task, NEW k \in Key, AcquireCall(t, k)
      PROVE  PermitStep
    <2>1. CASE queue = <<>>
        BY <1>1, <2>1, LookupPermits DEF AcquireCall, Leasing, Owning
    <2>2. CASE queue # <<>>
        <3>1. Lessees' = Lessees
            BY <1>1, <2>2 DEF AcquireCall, Lessees, Leasing, Owning, TypeOK
        <3> QED
            BY <1>1, <2>2, <3>1 DEF AcquireCall, PermitStep
    <2> QED
        BY <2>1, <2>2
<1>2. ASSUME NEW t \in Task, AcquireLookup(t)
      PROVE  PermitStep
    BY <1>2, LookupPermits DEF AcquireLookup, Leasing, Owning, TypeOK
<1>3. ASSUME NEW t \in Task, TakePermit(t)
      PROVE  PermitStep
    <2>1. t \notin Lessees /\ Lessees' = Lessees \union {t}
        BY <1>3 DEF TakePermit, Lessees, Leasing, Owning, TypeOK
    <2> QED
        BY <1>3, <2>1 DEF TakePermit, PermitStep
<1>4. ASSUME NEW t \in Task, CreateOk(t)
      PROVE  PermitStep
    <2>1. Lessees' = Lessees
        BY <1>4 DEF CreateOk, Lessees, Leasing, Owning, TypeOK
    <2> QED
        BY <1>4, <2>1 DEF CreateOk, PermitStep
<1>5. ASSUME NEW t \in Task, CreateFail(t)
      PROVE  PermitStep
    <2>1. t \in Lessees /\ Lessees' = Lessees \ {t}
        BY <1>5 DEF CreateFail, Lessees, Leasing, Owning, TypeOK
    <2> QED
        BY <1>5, <2>1 DEF CreateFail, PermitStep
<1>6. ASSUME NEW t \in Task, ReleaseCall(t)
      PROVE  PermitStep
    <2>1. CASE queue = <<>>
        BY <1>6, <2>1, PutBackPermits DEF ReleaseCall, Leasing, Owning
    <2>2. CASE queue # <<>>
        <3>1. Lessees' = Lessees
            BY <1>6, <2>2 DEF ReleaseCall, Lessees, Leasing, Owning, TypeOK
        <3> QED
            BY <1>6, <2>2, <3>1 DEF ReleaseCall, PermitStep
    <2> QED
        BY <2>1, <2>2
<1>7. ASSUME NEW t \in Task, ReleaseLocked(t)
      PROVE  PermitStep
    BY <1>7, PutBackPermits DEF ReleaseLocked, Leasing, Owning
<1>8. ASSUME NEW t \in Task, ReleaseLate(t)
      PROVE  PermitStep
    <2>1. Lessees' = Lessees
        BY <1>8 DEF ReleaseLate, Lessees, Leasing, Owning, TypeOK
    <2> QED
        BY <1>8, <2>1 DEF ReleaseLate, PermitStep
<1>9. ASSUME NEW t \in Task, EvictDone(t)
      PROVE  PermitStep
    <2>1. t \in Lessees /\ Lessees' = Lessees \ {t}
        BY <1>9 DEF EvictDone, Lessees, Leasing, Owning, TypeOK
    <2> QED
        BY <1>9, <2>1 DEF EvictDone, PermitStep
<1>10. ASSUME NEW t \in Task, LateCloseDone(t)
      PROVE  PermitStep
    <2>1. t \in Lessees /\ Lessees' = Lessees \ {t}
        BY <1>10 DEF LateCloseDone, Lessees, Leasing, Owning, TypeOK
    <2> QED
        BY <1>10, <2>1 DEF LateCloseDone, PermitStep
<1>11. ASSUME NEW t \in Task, MarkCall(t)
      PROVE  PermitStep
    <2>1. Lessees' = Lessees
        BY <1>11 DEF MarkCall, Lessees, Leasing, Owning, TypeOK
    <2> QED
        BY <1>11, <2>1 DEF MarkCall, PermitStep
<1>12. ASSUME NEW t \in Task, MarkLocked(t)
      PROVE  PermitStep
    <2>1. Lessees' = Lessees
        BY <1>12 DEF MarkLocked, Lessees, Leasing, Owning, TypeOK
    <2> QED
        BY <1>12, <2>1 DEF MarkLocked, PermitStep
<1>13. ASSUME NEW t \in Task, Drop(t)
      PROVE  PermitStep
    <2>1. CASE pc[t] \in Leasing
        <3>1. t \in Lessees /\ Lessees' = Lessees \ {t}
            BY <1>13, <2>1 DEF Drop, Lessees, Leasing, Owning, TypeOK
        <3> QED
            BY <1>13, <2>1, <3>1 DEF Drop, PermitStep
    <2>2. CASE pc[t] \notin Leasing
        <3>1. Lessees' = Lessees
            BY <1>13, <2>2 DEF Drop, Lessees, Leasing, Owning, TypeOK
        <3> QED
            BY <1>13, <2>2, <3>1 DEF Drop, PermitStep
    <2> QED
        BY <2>1, <2>2
<1>14. ASSUME Start \/ Clean \/ CloseCall \/ Close \/ CloseCancelled \/ Tick \/ UNCHANGED vars
      PROVE  PermitStep
    BY <1>14 DEF Start, Clean, CleanerWake, CleanerLocked, CleanerScan,
         CleanerClose, CleanerUpdate, CleanerFinish, CleanerCancelled,
         CloseCall, Close, CloseCleanerGone, CloseLocked, CloseConn,
         CloseConnDone, CloseDone, CloseCancelled, Tick, vars,
         Lessees, PermitStep
<1> QED
    BY <1>1, <1>2, <1>3, <1>4, <1>5, <1>6, <1>7, <1>8, <1>9, <1>10, <1>11, <1>12, <1>13, <1>14
    DEF Next, Call, Resume, Release

LEMMA LesseesFinite == IsFiniteSet(Lessees) /\ Cardinality(Lessees) \in Nat
<1>1. Lessees \in SUBSET Task
    BY DEF Lessees
<1> QED
    BY <1>1, FS_Subset, FS_CardinalityType, PoolAssumption

LEMMA PermitStepAccounting ==
    ASSUME TypeOK, TypeOK', PermitAccounting, PermitStep
    PROVE  PermitAccounting'
<1> DEFINE n == Cardinality(Lessees)
<1>0. /\ n \in Nat /\ permits \in Nat /\ lost \in Nat
      /\ total_reused \in Nat /\ MaxConnections \in Nat
      /\ permits + n + lost = MaxConnections + total_reused
    BY LesseesFinite, PoolAssumption DEF TypeOK, PermitAccounting
<1>1. ASSUME Lessees' = Lessees, UNCHANGED <<permits, lost, total_reused>>
      PROVE  PermitAccounting'
    BY <1>0, <1>1 DEF PermitAccounting
<1>2. ASSUME NEW t \in Task \ Lessees, Lessees' = Lessees \union {t}
      PROVE  Cardinality(Lessees') = n + 1
    BY <1>2, LesseesFinite, FS_AddElement
<1>3. ASSUME NEW t \in Lessees, Lessees' = Lessees \ {t}
      PROVE  Cardinality(Lessees') = n - 1
    BY <1>3, LesseesFinite, FS_RemoveElement
<1> HIDE DEF n
<1> QED
    BY <1>0, <1>1, <1>2, <1>3 DEF PermitStep, PermitAccounting

\* The permits of the semaphore are accounted for in every state: those that
\* leases still owe, those lost with leases that were never released, and one
\* more for every reuse.
THEOREM PermitsAccounted == Spec => []PermitAccounting
<1>1. Init => PermitAccounting
    <2>1. Init => Lessees = {}
        BY DEF Init, Lessees, Leasing, Owning
    <2>2. Init => Cardinality(Lessees) = 0
        BY <2>1, FS_EmptySet
    <2> QED
        BY <2>2, PoolAssumption DEF Init, PermitAccounting
<1>2. TypeOK /\ TypeOK' /\ PermitAccounting /\ [Next]_vars => PermitAccounting'
    BY NextPermits, PermitStepAccounting
<1> QED
    BY <1>1, <1>2, TypeCorrect, PTL DEF Spec

=============================================================================
