----------------------- MODULE ConnectionLeasesProofs -----------------------
(***************************************************************************)
(* What the lock of the pool is good for: proofs, for every set of tasks   *)
(* and keys and every limit, that close() leaves nothing listed, that no   *)
(* connection is forgotten or counted twice, and that the pool implements  *)
(* ConnectionLeases.                                                       *)
(***************************************************************************)
EXTENDS ConnectionPoolProofs

USE DEF taskVars, listVars, statVars, cleanerVars, closerVars, dropVars, Room, ToKeep

-----------------------------------------------------------------------------
(* The invariant of the lock: who is in its queue, at most once, and who is   *)
(* inside.                                                                    *)

Once == \A i, j \in 1..Len(queue) : queue[i] = queue[j] => i = j

\* Actor a stands in the queue in front of b.
Before(a, b) ==
    \E i, j \in 1..Len(queue) : i < j /\ queue[i] = a /\ queue[j] = b

\* Who is to be in the queue, and who is to be at its head.
Queued(a) ==
    \/ a \in Task /\ pc[a] \in InLock
    \/ a = "cleaner" /\ cleaner \in {"wait_lock", "scan", "closing"}
    \/ a = "closer" /\ closer \in {"wait_lock", "closing"}

Inside(a) ==
    \/ a \in Task /\ pc[a] = "evicting"
    \/ a = "cleaner" /\ cleaner \in {"scan", "closing"}
    \/ a = "closer" /\ closer = "closing"

LockInv ==
    /\ Once
    /\ \A a \in Actor : a \in Range(queue) <=> Queued(a)
    /\ \A a \in Actor : Inside(a) => HasLock(a)

-----------------------------------------------------------------------------
(* What an actor that comes or goes does to the queue.                        *)

Added(a) ==
    /\ Range(queue)' = Range(queue) \union {a}
    /\ Once'
    /\ HasLock(a)' <=> queue = <<>>
    /\ \A b \in Actor : HasLock(b) => HasLock(b)'
    /\ \A b, c \in Actor : Before(b, c)' => Before(b, c) \/ c = a

Removed(a) ==
    /\ Range(queue)' = Range(queue) \ {a}
    /\ Once'
    /\ \A b \in Actor : b # a /\ HasLock(b) => HasLock(b)'
    /\ \A b, c \in Actor : Before(b, c)' => Before(b, c)

\* Who appends itself to the queue comes in behind everybody.
LEMMA AppendAdds ==
    ASSUME queue \in Seq(Actor), Once, NEW a \in Actor, a \notin Range(queue),
           queue' = Append(queue, a)
    PROVE  Added(a)
<1>1. /\ Len(queue) \in Nat /\ Len(queue') = Len(queue) + 1
      /\ DOMAIN queue = 1..Len(queue) /\ DOMAIN queue' = 1..Len(queue')
      /\ queue'[Len(queue) + 1] = a
      /\ \A i \in 1..Len(queue) : queue'[i] = queue[i]
      /\ queue' \in Seq(Actor) /\ queue' # <<>>
    BY LenProperties, AppendProperties, EmptySeq
<1>2. \A i \in 1..Len(queue) : queue[i] # a
    BY <1>1 DEF Range
<1>3. Range(queue)' = Range(queue) \union {a}
    BY <1>1 DEF Range
<1>4. Once'
    BY <1>1, <1>2 DEF Once
<1>5. \A b, c \in Actor : Before(b, c)' => Before(b, c) \/ c = a
    BY <1>1 DEF Before
<1>6. Head(queue') = queue'[1] /\ (queue # <<>> => Head(queue) = queue[1] /\ Len(queue) >= 1)
    BY <1>1, EmptySeq
<1>7. queue = <<>> => Len(queue) = 0
    BY EmptySeq
<1>8. HasLock(a)' <=> queue = <<>>
    BY <1>1, <1>2, <1>6, <1>7 DEF HasLock
<1>9. \A b \in Actor : HasLock(b) => HasLock(b)'
    BY <1>1, <1>6 DEF HasLock
<1> QED
    BY <1>3, <1>4, <1>5, <1>8, <1>9 DEF Added

\* Who leaves, from whatever place, changes nobody's order.
LEMMA RemoveAtRemoves ==
    ASSUME queue \in Seq(Actor), Once, NEW i \in 1..Len(queue), queue' = RemoveAt(queue, i)
    PROVE  Removed(queue[i])
<1> DEFINE left == SubSeq(queue, 1, i - 1)
           right == SubSeq(queue, i + 1, Len(queue))
<1>0. Len(queue) \in Nat /\ i \in Nat /\ i <= Len(queue)
    BY LenProperties
<1>1. Len(queue) \in Nat /\ DOMAIN queue = 1..Len(queue) /\ i \in Nat /\ i <= Len(queue)
    BY LenProperties
<1>2. \A j \in 1..Len(queue) : queue[j] \in Actor
    BY <1>1, ElementOfSeq
<1>3. /\ left \in Seq(Actor) /\ Len(left) = i - 1
      /\ \A j \in 1..(i - 1) : left[j] = queue[j]
    BY <1>1, <1>2, SubSeqProperties
<1>4. /\ right \in Seq(Actor) /\ Len(right) = Len(queue) - i
      /\ \A j \in 1..(Len(queue) - i) : right[j] = queue[i + j]
    <2> DEFINE m == i + 1
               n == Len(queue)
    <2>1. m \in Int /\ n \in Int /\ n - m + 1 = Len(queue) - i
        BY <1>1
    <2>2. \A j \in m..n : queue[j] \in Actor
        BY <1>1, <1>2
    <2> HIDE DEF m, n
    <2>3. /\ SubSeq(queue, m, n) \in Seq(Actor)
          /\ Len(SubSeq(queue, m, n)) = IF m <= n THEN n - m + 1 ELSE 0
          /\ \A j \in 1..(n - m + 1) : SubSeq(queue, m, n)[j] = queue[m + j - 1]
        BY <2>1, <2>2, SubSeqProperties
    <2>4. right = SubSeq(queue, m, n)
        BY DEF m, n
    <2> HIDE DEF right
    <2>5. ASSUME NEW j \in 1..(Len(queue) - i) PROVE right[j] = queue[i + j]
        <3>1. m + j - 1 = i + j
            BY <1>1 DEF m
        <3> QED
            BY <2>1, <2>3, <2>4, <3>1
    <2>6. Len(right) = Len(queue) - i
        <3>1. Len(right) = IF m <= n THEN n - m + 1 ELSE 0
            BY <2>3, <2>4
        <3>2. CASE i < Len(queue)
            <4>1. m <= n
                BY <1>1, <3>2 DEF m, n
            <4> QED
                BY <2>1, <3>1, <4>1
        <3>3. CASE ~(i < Len(queue))
            <4>1. ~(m <= n) /\ Len(queue) - i = 0
                BY <1>0, <3>3 DEF m, n
            <4> QED
                BY <3>1, <4>1
        <3> QED
            BY <3>2, <3>3
    <2> QED
        BY <2>3, <2>4, <2>5, <2>6
<1>5. queue' = left \o right
    BY DEF RemoveAt
<1> HIDE DEF left, right
<1>6. /\ queue' \in Seq(Actor) /\ Len(queue') = Len(queue) - 1
      /\ \A j \in 1..(Len(queue) - 1) : queue'[j] = IF j < i THEN queue[j] ELSE queue[j + 1]
    <2>0. Len(left) + Len(right) = Len(queue) - 1 /\ Len(left) = i - 1 /\ Len(queue) - 1 \in Int
        BY <1>1, <1>3, <1>4
    <2>1. /\ queue' \in Seq(Actor) /\ Len(queue') = Len(queue) - 1
          /\ \A j \in 1..(Len(queue) - 1) :
                queue'[j] = IF j <= i - 1 THEN left[j] ELSE right[j - (i - 1)]
        <3>1. /\ left \o right \in Seq(Actor) /\ Len(left \o right) = Len(left) + Len(right)
              /\ \A j \in 1..(Len(left) + Len(right)) :
                   (left \o right)[j] = IF j <= Len(left) THEN left[j] ELSE right[j - Len(left)]
            BY <1>3, <1>4, ConcatProperties
        <3> QED
            BY <1>5, <2>0, <3>1
    <2>2. ASSUME NEW j \in 1..(Len(queue) - 1)
          PROVE  queue'[j] = IF j < i THEN queue[j] ELSE queue[j + 1]
        <3>1. CASE j < i
            <4>1. j <= i - 1 /\ j \in 1..(i - 1)
                BY <1>1, <3>1
            <4> QED
                BY <1>3, <2>1, <3>1, <4>1
        <3>2. CASE ~(j < i)
            <4>1. ~(j <= i - 1)
                BY <1>1, <3>2
            <4>2. j - (i - 1) \in 1..(Len(queue) - i) /\ i + (j - (i - 1)) = j + 1
                BY <1>1, <3>2
            <4>3. queue'[j] = right[j - (i - 1)]
                BY <2>1, <4>1
            <4>4. right[j - (i - 1)] = queue[i + (j - (i - 1))]
                BY <1>4, <4>2
            <4> QED
                BY <3>2, <4>2, <4>3, <4>4
        <3> QED
            BY <3>1, <3>2
    <2> QED
        BY <2>1, <2>2
<1>7. DOMAIN queue' = 1..(Len(queue) - 1)
    BY <1>6, LenProperties
<1>8. \A j \in 1..Len(queue) : j # i =>
         \E k \in 1..(Len(queue) - 1) : queue'[k] = queue[j]
    <2> SUFFICES ASSUME NEW j \in 1..Len(queue), j # i
                 PROVE  \E k \in 1..(Len(queue) - 1) : queue'[k] = queue[j]
        OBVIOUS
    <2>1. CASE j < i
        BY <1>1, <1>6, <2>1
    <2>2. CASE j > i
        <3>1. j - 1 \in 1..(Len(queue) - 1) /\ ~(j - 1 < i) /\ (j - 1) + 1 = j
            BY <1>1, <2>2
        <3> QED
            BY <1>6, <3>1
    <2> QED
        BY <1>1, <2>1, <2>2
<1>9. ASSUME NEW k \in 1..(Len(queue) - 1)
      PROVE  \E j \in 1..Len(queue) : j # i /\ queue'[k] = queue[j] /\ (j = k \/ j = k + 1)
                                      /\ (j = k <=> k < i)
    <2>1. k \in 1..Len(queue) /\ k + 1 \in 1..Len(queue) /\ k # k + 1
        BY <1>1
    <2>2. CASE k < i
        BY <1>1, <1>6, <2>1, <2>2
    <2>3. CASE ~(k < i)
        <3>1. k + 1 # i
            BY <1>1, <2>3
        <3> QED
            BY <1>6, <2>1, <2>3, <3>1
    <2> QED
        BY <2>2, <2>3
<1>10. Range(queue)' = Range(queue) \ {queue[i]}
    <2>1. ASSUME NEW x \in Range(queue)' PROVE x \in Range(queue) \ {queue[i]}
        <3>1. PICK k \in 1..(Len(queue) - 1) : x = queue'[k]
            BY <1>7, <2>1 DEF Range
        <3>2. PICK j \in 1..Len(queue) : j # i /\ x = queue[j]
            BY <1>9, <3>1
        <3> QED
            BY <1>1, <3>2 DEF Range, Once
    <2>2. ASSUME NEW x \in Range(queue) \ {queue[i]} PROVE x \in Range(queue)'
        <3>1. PICK j \in 1..Len(queue) : x = queue[j]
            BY <1>1, <2>2 DEF Range
        <3> QED
            BY <1>7, <1>8, <2>2, <3>1 DEF Range
    <2> QED
        BY <2>1, <2>2
<1>11. Once'
    <2> SUFFICES ASSUME NEW j \in 1..(Len(queue) - 1), NEW k \in 1..(Len(queue) - 1),
                        queue'[j] = queue'[k]
                 PROVE  j = k
        BY <1>6 DEF Once
    <2>1. PICK m \in 1..Len(queue) : queue'[j] = queue[m] /\ (m = j \/ m = j + 1) /\ (m = j <=> j < i)
        BY <1>9
    <2>2. PICK n \in 1..Len(queue) : queue'[k] = queue[n] /\ (n = k \/ n = k + 1) /\ (n = k <=> k < i)
        BY <1>9
    <2>3. m = n
        BY <2>1, <2>2 DEF Once
    <2> QED
        BY <1>1, <2>1, <2>2, <2>3
<1>12. \A b, c \in Actor : Before(b, c)' => Before(b, c)
    <2> SUFFICES ASSUME NEW b \in Actor, NEW c \in Actor,
                        NEW j \in 1..(Len(queue) - 1), NEW k \in 1..(Len(queue) - 1),
                        j < k, queue'[j] = b, queue'[k] = c
                 PROVE  Before(b, c)
        BY <1>6 DEF Before
    <2>1. PICK m \in 1..Len(queue) : queue'[j] = queue[m] /\ (m = j \/ m = j + 1) /\ (m = j <=> j < i)
        BY <1>9
    <2>2. PICK n \in 1..Len(queue) : queue'[k] = queue[n] /\ (n = k \/ n = k + 1) /\ (n = k <=> k < i)
        BY <1>9
    <2>3. m < n
        BY <1>1, <2>1, <2>2
    <2> QED
        BY <2>1, <2>2, <2>3 DEF Before
<1>13. ASSUME NEW b \in Actor, b # queue[i], HasLock(b) PROVE HasLock(b)'
    <2>1. queue # <<>> /\ Head(queue) = queue[1] /\ queue[1] = b
        BY <1>1, <1>13 DEF HasLock
    <2>2. 1 < i /\ Len(queue) > 1
        BY <1>1, <1>13, <2>1
    <2>3. queue'[1] = b /\ Len(queue') >= 1
        BY <1>1, <1>6, <2>1, <2>2
    <2>4. queue' # <<>>
        BY <2>3, EmptySeq
    <2> QED
        BY <2>3, <2>4 DEF HasLock
<1> QED
    BY <1>10, <1>11, <1>12, <1>13 DEF Removed

LEMMA HeadIsIn ==
    ASSUME queue \in Seq(Actor), NEW a, HasLock(a)
    PROVE  1 \in 1..Len(queue) /\ queue[1] = a /\ a \in Range(queue)
<1>1. queue # <<>> /\ Head(queue) = a
    BY DEF HasLock
<1>2. Len(queue) \in Nat /\ Len(queue) # 0
    BY <1>1, EmptySeq
<1>3. 1 \in 1..Len(queue) /\ DOMAIN queue = 1..Len(queue)
    BY <1>2, LenProperties
<1> QED
    BY <1>1, <1>3 DEF Range

\* `async with` is left by the one who has the lock.
LEMMA UnlockRemoves ==
    ASSUME queue \in Seq(Actor), Once, NEW a, HasLock(a), Unlock
    PROVE  Removed(a)
<1>1. 1 \in 1..Len(queue) /\ queue[1] = a
    BY HeadIsIn
<1>2. queue' = Tail(queue) /\ queue # <<>>
    BY DEF HasLock, Unlock
<1>3. \A i \in 1..Len(queue) : queue[i] \in Actor
    BY ElementOfSeq
<1>4. Len(queue) \in Int
    BY LenProperties
<1>5. SubSeq(queue, 2, Len(queue)) \in Seq(Actor)
    <2>1. \A i \in 2..Len(queue) : queue[i] \in Actor
        BY <1>3, <1>4
    <2> QED
        BY <1>4, <2>1, SubSeqProperties
<1>6. RemoveAt(queue, 1) = <<>> \o SubSeq(queue, 2, Len(queue))
    <2>1. SubSeq(queue, 1, 0) = <<>>
        BY SubSeqEmpty
    <2> QED
        BY <2>1 DEF RemoveAt
<1>7. queue' = RemoveAt(queue, 1)
    BY <1>2, <1>5, <1>6, TailIsSubSeq, ConcatEmptySeq
<1> QED
    BY <1>1, <1>7, RemoveAtRemoves

LEMMA LeaveRemoves ==
    ASSUME queue \in Seq(Actor), Once, NEW a, LeaveQueue(a)
    PROVE  Removed(a) \/ (UNCHANGED queue /\ a \notin Range(queue))
<1>1. DOMAIN queue = 1..Len(queue)
    BY LenProperties
<1> QED
    BY <1>1, RemoveAtRemoves DEF LeaveQueue

\* Who is alone goes in and stays, or comes out again at once.
LEMMA AloneAdds ==
    ASSUME NEW a \in Actor, queue = <<>>, StayLocked(a)
    PROVE  queue' = Append(queue, a)
<1>1. queue' = <<a>>
    BY DEF StayLocked
<1> QED
    BY <1>1, AppendProperties, EmptySeq

LEMMA EmptyQueue ==
    ASSUME queue = <<>>
    PROVE  /\ \A a : a \notin Range(queue)
           /\ Unlock => UNCHANGED queue
BY EmptySeq DEF Range, Unlock

-----------------------------------------------------------------------------
(* What a step does to the lock: one actor comes, goes or stays.              *)

LockStep(a) ==
    /\ \A b \in Actor : b # a => (Queued(b)' <=> Queued(b)) /\ (Inside(b)' <=> Inside(b))
    /\ \/ Added(a) /\ ~Queued(a) /\ Queued(a)' /\ (Inside(a)' => queue = <<>>)
       \/ Removed(a) /\ Queued(a) /\ ~Queued(a)' /\ ~Inside(a)'
       \/ UNCHANGED queue /\ (Queued(a)' <=> Queued(a)) /\ (Inside(a)' => HasLock(a))

LEMMA TaskLockStep ==
    ASSUME NEW t \in Task, UNCHANGED <<cleaner, closer>>,
           \A u \in Task : u # t => pc'[u] = pc[u],
           \/ /\ Added(t) /\ pc[t] \notin InLock /\ pc'[t] \in InLock
              /\ pc'[t] = "evicting" => queue = <<>>
           \/ Removed(t) /\ pc[t] \in InLock /\ pc'[t] \notin InLock
           \/ /\ UNCHANGED queue /\ (pc'[t] \in InLock <=> pc[t] \in InLock)
              /\ pc'[t] = "evicting" => HasLock(t)
    PROVE  LockStep(t)
<1>1. t # "cleaner" /\ t # "closer" /\ "evicting" \in InLock
    BY PoolAssumption DEF InLock
<1> QED
    BY <1>1 DEF LockStep, Queued, Inside

LEMMA CleanerLockStep ==
    ASSUME UNCHANGED <<pc, closer>>,
           LET in == cleaner \in {"wait_lock", "scan", "closing"}
           IN  \/ /\ Added("cleaner") /\ ~in /\ in'
                  /\ cleaner' \in {"scan", "closing"} => queue = <<>>
               \/ Removed("cleaner") /\ in /\ ~in'
               \/ /\ UNCHANGED queue /\ (in' <=> in)
                  /\ cleaner' \in {"scan", "closing"} => HasLock("cleaner")
    PROVE  LockStep("cleaner")
<1>1. "cleaner" \notin Task /\ "cleaner" # "closer"
    BY PoolAssumption
<1> QED
    BY <1>1 DEF LockStep, Queued, Inside

LEMMA CloserLockStep ==
    ASSUME UNCHANGED <<pc, cleaner>>,
           LET in == closer \in {"wait_lock", "closing"}
           IN  \/ /\ Added("closer") /\ ~in /\ in'
                  /\ closer' = "closing" => queue = <<>>
               \/ Removed("closer") /\ in /\ ~in'
               \/ /\ UNCHANGED queue /\ (in' <=> in)
                  /\ closer' = "closing" => HasLock("closer")
    PROVE  LockStep("closer")
<1>1. "closer" \notin Task /\ "cleaner" # "closer"
    BY PoolAssumption
<1> QED
    BY <1>1 DEF LockStep, Queued, Inside

LEMMA LockStepInv ==
    ASSUME queue \in Seq(Actor), LockInv, NEW a \in Actor, LockStep(a)
    PROVE  LockInv'
<1>1. CASE Added(a) /\ ~Queued(a) /\ Queued(a)' /\ (Inside(a)' => queue = <<>>)
    BY <1>1 DEF LockStep, LockInv, Added
<1>2. CASE Removed(a) /\ Queued(a) /\ ~Queued(a)' /\ ~Inside(a)'
    BY <1>2 DEF LockStep, LockInv, Removed
<1>3. CASE UNCHANGED queue /\ (Queued(a)' <=> Queued(a)) /\ (Inside(a)' => HasLock(a))
    BY <1>3 DEF LockStep, LockInv, HasLock, Once
<1> QED
    BY <1>1, <1>2, <1>3 DEF LockStep

\* A task that is not in the queue and calls is served at once or waits.
LEMMA CallLock ==
    ASSUME TypeOK, LockInv, NEW t \in Task, pc[t] \notin InLock,
           UNCHANGED <<cleaner, closer>>, \A u \in Task : u # t => pc'[u] = pc[u],
           \/ queue # <<>> /\ Enqueue(t) /\ pc'[t] \in InLock \ {"evicting"}
           \/ queue = <<>> /\ Unlock /\ pc'[t] \notin InLock
           \/ queue = <<>> /\ StayLocked(t) /\ pc'[t] \in InLock
           \/ UNCHANGED queue /\ pc'[t] \notin InLock
    PROVE  LockStep(t)
<1>1. t \in Actor /\ queue \in Seq(Actor) /\ Once
    BY ActorType DEF TypeOK, LockInv
<1>2. t \notin Range(queue)
    BY <1>1, PoolAssumption DEF LockInv, Queued
<1>3. (queue # <<>> /\ Enqueue(t)) \/ (queue = <<>> /\ StayLocked(t)) => Added(t)
    BY <1>1, <1>2, AppendAdds, AloneAdds DEF Enqueue
<1>4. "evicting" \in InLock
    BY DEF InLock
<1> QED
    BY <1>3, <1>4, EmptyQueue, TaskLockStep

\* A task that has the lock stays inside or leaves.
LEMMA HolderLock ==
    ASSUME TypeOK, LockInv, NEW t \in Task, pc[t] \in InLock, HasLock(t),
           UNCHANGED <<cleaner, closer>>, \A u \in Task : u # t => pc'[u] = pc[u],
           \/ Unlock /\ pc'[t] \notin InLock
           \/ StayLocked(t) /\ pc'[t] \in InLock
    PROVE  LockStep(t)
<1>1. queue \in Seq(Actor) /\ Once
    BY DEF TypeOK, LockInv
<1>2. StayLocked(t) => UNCHANGED queue
    BY DEF StayLocked, HasLock
<1> QED
    BY <1>1, <1>2, UnlockRemoves, TaskLockStep

\* A task that is cancelled leaves the queue if it is in it.
LEMMA DropLock ==
    ASSUME TypeOK, LockInv, NEW t \in Task, Drop(t)
    PROVE  LockStep(t)
<1>1. queue \in Seq(Actor) /\ Once /\ t \in Actor
    BY ActorType DEF TypeOK, LockInv
<1>2. t \in Range(queue) <=> pc[t] \in InLock
    BY <1>1, PoolAssumption DEF LockInv, Queued
<1>3. pc'[t] = "idle" /\ "idle" \notin InLock /\ \A u \in Task : u # t => pc'[u] = pc[u]
    BY DEF Drop, InLock, TypeOK
<1>4. LeaveQueue(t) /\ UNCHANGED <<cleaner, closer>>
    BY DEF Drop
<1>5. (Removed(t) /\ t \in Range(queue)) \/ (UNCHANGED queue /\ t \notin Range(queue))
    BY <1>1, <1>4, LeaveRemoves DEF LeaveQueue, Range
<1> QED
    BY <1>2, <1>3, <1>4, <1>5, TaskLockStep

LEMMA ActorLocked ==
    ASSUME TypeOK, LockInv
    PROVE  /\ queue \in Seq(Actor) /\ Once
           /\ "cleaner" \in Range(queue) <=> cleaner \in {"wait_lock", "scan", "closing"}
           /\ "closer" \in Range(queue) <=> closer \in {"wait_lock", "closing"}
           /\ cleaner \in {"scan", "closing"} => HasLock("cleaner")
           /\ closer = "closing" => HasLock("closer")
BY ActorType, PoolAssumption DEF TypeOK, LockInv, Queued, Inside

LEMMA SweepOrWaitLock ==
    ASSUME TypeOK, LockInv, SweepOrWait, UNCHANGED <<pc, cleaner>>,
           closer \notin {"wait_lock", "closing"}
    PROVE  LockStep("closer")
<1>1. Added("closer") /\ closer' \in {"wait_lock", "closing"} /\ (closer' = "closing" => queue = <<>>)
    BY ActorLocked, ActorType, AppendAdds, AloneAdds, EmptyQueue DEF SweepOrWait, Enqueue
<1> QED
    BY <1>1, CloserLockStep

LEMMA NextLock ==
    ASSUME TypeOK, LockInv, ~closed => closer = "idle", [Next]_vars
    PROVE  \E a \in Actor : LockStep(a)
<1> USE ActorType DEF InLock
<1>1. ASSUME NEW t \in Task, NEW k \in Key, AcquireCall(t, k) PROVE LockStep(t)
    <2>1. \A u \in Task : u # t => pc'[u] = pc[u]
        BY <1>1 DEF AcquireCall, Lookup, Reuse, Miss, TypeOK
    <2>2. \/ queue # <<>> /\ Enqueue(t) /\ pc'[t] = "lookup"
          \/ queue = <<>> /\ Unlock /\ pc'[t] \in {"using", "creating", "wait_permit"}
        BY <1>1 DEF AcquireCall, Lookup, Reuse, Miss, TypeOK
    <2>3. pc[t] = "idle" /\ UNCHANGED <<cleaner, closer>>
        BY <1>1 DEF AcquireCall
    <2> QED
        BY <2>1, <2>2, <2>3, CallLock
<1>2. ASSUME NEW t \in Task, AcquireLookup(t) PROVE LockStep(t)
    <2>1. pc'[t] \in {"using", "creating", "wait_permit"} /\ \A u \in Task : u # t => pc'[u] = pc[u]
        BY <1>2 DEF AcquireLookup, Lookup, Reuse, Miss, TypeOK
    <2> QED
        BY <1>2, <2>1, HolderLock DEF AcquireLookup, Lookup
<1>3. ASSUME NEW t \in Task, TakePermit(t) \/ CreateOk(t) \/ CreateFail(t) \/ ReleaseLate(t) \/ LateCloseDone(t)
      PROVE  LockStep(t)
    <2>1. /\ pc[t] \notin InLock /\ pc'[t] \notin InLock
          /\ \A u \in Task : u # t => pc'[u] = pc[u]
        BY <1>3 DEF TakePermit, CreateOk, CreateFail, ReleaseLate, LateCloseDone, TypeOK
    <2>2. UNCHANGED <<queue, cleaner, closer>>
        BY <1>3 DEF TakePermit, CreateOk, CreateFail, ReleaseLate, LateCloseDone
    <2> QED
        BY <2>1, <2>2, CallLock
<1>4. ASSUME NEW t \in Task, ReleaseCall(t) PROVE LockStep(t)
    <2>1. \A u \in Task : u # t => pc'[u] = pc[u]
        BY <1>4 DEF ReleaseCall, PutBack, Keep, Evict, TypeOK
    <2>2. \/ queue # <<>> /\ Enqueue(t) /\ pc'[t] = "release"
          \/ queue = <<>> /\ Unlock /\ pc'[t] = "idle"
          \/ queue = <<>> /\ StayLocked(t) /\ pc'[t] = "evicting"
        BY <1>4 DEF ReleaseCall, PutBack, Keep, Evict, TypeOK
    <2>3. pc[t] = "using" /\ UNCHANGED <<cleaner, closer>>
        BY <1>4 DEF ReleaseCall
    <2> QED
        BY <2>1, <2>2, <2>3, CallLock
<1>5. ASSUME NEW t \in Task, ReleaseLocked(t) PROVE LockStep(t)
    <2>1. \A u \in Task : u # t => pc'[u] = pc[u]
        BY <1>5 DEF ReleaseLocked, PutBack, Keep, Evict, TypeOK
    <2>2. \/ Unlock /\ pc'[t] = "idle"
          \/ StayLocked(t) /\ pc'[t] = "evicting"
        BY <1>5 DEF ReleaseLocked, PutBack, Keep, Evict, TypeOK
    <2> QED
        BY <1>5, <2>1, <2>2, HolderLock DEF ReleaseLocked
<1>6. ASSUME NEW t \in Task, EvictDone(t) \/ MarkLocked(t) PROVE LockStep(t)
    <2>1. /\ pc[t] \in InLock /\ pc'[t] \notin InLock
          /\ \A u \in Task : u # t => pc'[u] = pc[u]
        BY <1>6 DEF EvictDone, MarkLocked, TypeOK
    <2> QED
        BY <1>6, <2>1, HolderLock DEF EvictDone, MarkLocked, Mark
<1>7. ASSUME NEW t \in Task, MarkCall(t) PROVE LockStep(t)
    <2>1. /\ pc[t] \in {"using", "idle"}
          /\ \A u \in Task : u # t => pc'[u] = pc[u]
          /\ \/ queue # <<>> /\ Enqueue(t) /\ pc'[t] \in {"mark_using", "mark_idle"}
             \/ queue = <<>> /\ Unlock /\ pc'[t] = pc[t]
        BY <1>7 DEF MarkCall, Mark, TypeOK
    <2> QED
        BY <1>7, <2>1, CallLock DEF MarkCall
<1>8. ASSUME NEW t \in Task, Drop(t) PROVE LockStep(t)
    BY <1>8, DropLock
<1>9. ASSUME CleanerWake PROVE LockStep("cleaner")
    <2>1. Added("cleaner")
        BY <1>9, ActorLocked, AppendAdds, AloneAdds, EmptyQueue DEF CleanerWake, Enqueue
    <2> QED
        BY <1>9, <2>1, CleanerLockStep DEF CleanerWake
<1>10. ASSUME Start \/ CleanerLocked \/ CleanerScan \/ CleanerClose \/ CleanerUpdate PROVE LockStep("cleaner")
    <2>1. UNCHANGED <<pc, closer, queue>>
        BY <1>10 DEF Start, CleanerLocked, CleanerScan, CleanerClose, CleanerUpdate
    <2>2. \/ cleaner = "off" /\ cleaner' \in {"done", "sleep"}
          \/ cleaner = "wait_lock" /\ HasLock("cleaner") /\ cleaner' = "scan"
          \/ cleaner \in {"scan", "closing"} /\ cleaner' \in {"scan", "closing"}
        BY <1>10 DEF Start, CleanerLocked, CleanerScan, CleanerClose, CleanerUpdate
    <2> QED
        BY <2>1, <2>2, ActorLocked, CleanerLockStep
<1>11. ASSUME CleanerFinish PROVE LockStep("cleaner")
    BY <1>11, ActorLocked, UnlockRemoves, CleanerLockStep DEF CleanerFinish
<1>12. ASSUME CleanerCancelled PROVE LockStep("cleaner")
    <2>1. Removed("cleaner") \/ (UNCHANGED queue /\ "cleaner" \notin Range(queue))
        BY <1>12, ActorLocked, LeaveRemoves DEF CleanerCancelled
    <2>2. Removed("cleaner") /\ "cleaner" \notin Range(queue) => UNCHANGED queue
        BY <1>12, ActorLocked, LenProperties DEF CleanerCancelled, LeaveQueue, Range
    <2> QED
        BY <1>12, <2>1, <2>2, ActorLocked, CleanerLockStep DEF CleanerCancelled
<1>13. ASSUME CloseCall PROVE LockStep("closer")
    <2>1. CASE cleaner = "off" /\ closer \notin {"wait_lock", "closing"}
        BY <1>13, <2>1, SweepOrWaitLock DEF CloseCall
    <2> QED
        BY <1>13, <2>1, ActorLocked, CloserLockStep DEF CloseCall
<1>14. ASSUME CloseCleanerGone PROVE LockStep("closer")
    BY <1>14, SweepOrWaitLock DEF CloseCleanerGone
<1>15. ASSUME CloseLocked \/ CloseConn \/ CloseConnDone PROVE LockStep("closer")
    BY <1>15, ActorLocked, CloserLockStep DEF CloseLocked, CloseConn, CloseConnDone
<1>16. ASSUME CloseDone PROVE LockStep("closer")
    BY <1>16, ActorLocked, UnlockRemoves, CloserLockStep DEF CloseDone
<1>17. ASSUME CloseCancelled PROVE LockStep("closer")
    <2>1. closer \in {"wait_lock", "closing"}
        BY <1>17 DEF CloseCancelled
    <2>2. Removed("closer")
        BY <1>17, <2>1, ActorLocked, LeaveRemoves DEF CloseCancelled
    <2> QED
        BY <1>17, <2>1, <2>2, CloserLockStep DEF CloseCancelled
<1>18. ASSUME Tick \/ UNCHANGED vars PROVE LockStep("closer")
    BY <1>18, ActorLocked, CloserLockStep DEF Tick, vars
<1> QED
    BY <1>1, <1>2, <1>3, <1>4, <1>5, <1>6, <1>7, <1>8, <1>9, <1>10, <1>11, <1>12, <1>13, <1>14, <1>15, <1>16, <1>17, <1>18
    DEF Next, Call, Resume, Release, Clean, Close

-----------------------------------------------------------------------------
(* close() and the tasks that found the pool open.                            *)

\* A task that is to take from a list or to put into one.
Editing(t) == pc[t] \in {"lookup", "release"}

\* close() waits behind all of them, and has the pool for itself after that.
CloserInv ==
    /\ closed <=> closer # "idle"
    /\ closer = "wait_lock" => \A t \in Task : Editing(t) => ~Before("closer", t)
    /\ closer \in {"closing", "done"} => \A t \in Task : ~Editing(t)
    /\ closer \notin {"idle", "await_cleanup"} => cleaner \in {"off", "done"}

\* What a step does to close().
CloserStep ==
    \/ UNCHANGED <<closer, closed>>
    \/ ~closed /\ closed' /\ closer' = "await_cleanup"
    \/ /\ closer \notin {"wait_lock", "closing"} /\ closed' /\ SweepOrWait
       /\ cleaner \in {"off", "done"} /\ UNCHANGED <<pc, cleaner>>
    \/ /\ closer = "wait_lock" /\ HasLock("closer") /\ closer' = "closing"
       /\ UNCHANGED <<pc, cleaner, closed>>
    \/ closer = "closing" /\ closer' = "done" /\ UNCHANGED <<pc, cleaner, closed>>
    \/ closer \in {"wait_lock", "closing"} /\ closer' = "aborted" /\ UNCHANGED <<pc, cleaner, closed>>

LEMMA NextCloser ==
    ASSUME TypeOK, CloserInv, [Next]_vars
    PROVE  /\ CloserStep
           /\ closed => \A t \in Task : Editing(t)' => Editing(t)
           /\ closed /\ cleaner \in {"off", "done"} => cleaner' \in {"off", "done"}
<1> DEFINE Kept == /\ UNCHANGED <<closer, closed>>
                   /\ closed => \A t \in Task : Editing(t)' => Editing(t)
                   /\ closed /\ cleaner \in {"off", "done"} => cleaner' \in {"off", "done"}
           Moved == CloserStep /\ UNCHANGED <<pc, cleaner>>
<1>1. ASSUME NEW t \in Task, NEW k \in Key, AcquireCall(t, k) PROVE Kept
    BY <1>1 DEF AcquireCall
<1>2. ASSUME NEW t \in Task, AcquireLookup(t) PROVE Kept
    BY <1>2 DEF AcquireLookup, Lookup, Reuse, Miss, Editing, TypeOK
<1>3. ASSUME NEW t \in Task, TakePermit(t) \/ CreateOk(t) \/ CreateFail(t) \/ EvictDone(t)
                             \/ ReleaseLate(t) \/ LateCloseDone(t) \/ MarkLocked(t) \/ Drop(t)
      PROVE  Kept
    BY <1>3 DEF TakePermit, CreateOk, CreateFail, EvictDone, ReleaseLate, LateCloseDone,
         MarkLocked, Drop, Editing, TypeOK
<1>4. ASSUME NEW t \in Task, ReleaseCall(t) PROVE Kept
    BY <1>4 DEF ReleaseCall
<1>5. ASSUME NEW t \in Task, ReleaseLocked(t) PROVE Kept
    BY <1>5 DEF ReleaseLocked, PutBack, Keep, Evict, Editing, TypeOK
<1>6. ASSUME NEW t \in Task, MarkCall(t) PROVE Kept
    BY <1>6 DEF MarkCall, Mark, Editing, TypeOK
<1>7. ASSUME Start \/ Clean PROVE Kept
    BY <1>7 DEF Start, Clean, CleanerWake, CleanerLocked, CleanerScan, CleanerClose, CleanerUpdate,
         CleanerFinish, CleanerCancelled, Editing
<1>8. ASSUME Tick \/ UNCHANGED vars PROVE Kept
    BY <1>8 DEF Tick, vars, Editing
<1>9. ASSUME CloseCall PROVE Moved
    BY <1>9 DEF CloseCall, CloserStep, CloserInv
<1>10. ASSUME CloseCleanerGone PROVE Moved
    BY <1>10 DEF CloseCleanerGone, CloserStep, CloserInv
<1>11. ASSUME CloseLocked \/ CloseConn \/ CloseConnDone \/ CloseDone \/ CloseCancelled PROVE Moved
    BY <1>11 DEF CloseLocked, CloseConn, CloseConnDone, CloseDone, CloseCancelled, CloserStep
<1>12. Kept \/ Moved
    BY <1>1, <1>2, <1>3, <1>4, <1>5, <1>6, <1>7, <1>8, <1>9, <1>10, <1>11
    DEF Next, Call, Resume, Release, Close
<1> QED
    BY <1>12 DEF CloserStep, Editing

\* Who is in the queue and not at its head stands behind the one who is.
LEMMA BehindHead ==
    ASSUME queue \in Seq(Actor), NEW a, NEW b, HasLock(a), b \in Range(queue), a # b
    PROVE  Before(a, b)
<1>1. 1 \in 1..Len(queue) /\ queue[1] = a
    BY HeadIsIn
<1>2. PICK j \in 1..Len(queue) : queue[j] = b
    BY LenProperties DEF Range
<1>3. Len(queue) \in Nat
    BY LenProperties
<1>4. j # 1
    BY <1>1, <1>2
<1>5. 1 < j
    BY <1>2, <1>3, <1>4
<1> QED
    BY <1>1, <1>2, <1>5 DEF Before

LEMMA CloserStepInv ==
    ASSUME TypeOK, LockInv, CloserInv, [Next]_vars
    PROVE  CloserInv'
<1>0. /\ CloserStep
      /\ closed => \A t \in Task : Editing(t)' => Editing(t)
      /\ closed /\ cleaner \in {"off", "done"} => cleaner' \in {"off", "done"}
    BY NextCloser
<1>1. PICK a \in Actor : LockStep(a)
    BY NextLock DEF CloserInv
<1>2. \A t \in Task : Editing(t) => t \in Range(queue) /\ Queued(t) /\ t # "closer"
    BY ActorType, PoolAssumption DEF LockInv, Queued, Editing, InLock
<1>3. \A b : Before("closer", b) => "closer" \in Range(queue)
    BY ActorLocked, LenProperties DEF Before, Range
<1>4. ASSUME closed, NEW t \in Task, Editing(t)', Before("closer", t)'
      PROVE  Before("closer", t)
    <2>1. Editing(t) /\ Queued(t)
        BY <1>0, <1>2, <1>4
    <2>2. CASE UNCHANGED queue
        BY <1>4, <2>2 DEF Before
    <2>3. CASE Added(a) /\ ~Queued(a)
        BY <1>4, <2>1, <2>3, ActorType DEF Added
    <2>4. CASE Removed(a)
        BY <1>4, <2>4, ActorType DEF Removed
    <2> QED
        BY <1>1, <2>2, <2>3, <2>4 DEF LockStep
<1>5. CASE UNCHANGED <<closer, closed>>
    BY <1>0, <1>4, <1>5 DEF CloserInv
<1>6. CASE ~closed /\ closed' /\ closer' = "await_cleanup"
    BY <1>6 DEF CloserInv
<1>7. CASE /\ closer \notin {"wait_lock", "closing"} /\ closed' /\ SweepOrWait
           /\ cleaner \in {"off", "done"} /\ UNCHANGED <<pc, cleaner>>
    <2>1. "closer" \notin Range(queue)
        BY <1>7, ActorLocked
    <2>2. CASE queue = <<>>
        BY <1>2, <1>7, <2>2, EmptyQueue DEF SweepOrWait, CloserInv, Editing
    <2>3. CASE queue # <<>>
        <3>1. closer' = "wait_lock" /\ Added("closer")
            BY <1>7, <2>1, <2>3, ActorLocked, ActorType, AppendAdds DEF SweepOrWait, Enqueue
        <3>2. \A t \in Task : Editing(t)' => ~Before("closer", t)'
            BY <1>2, <1>3, <1>7, <2>1, <3>1, ActorType DEF Added, Editing
        <3> QED
            BY <1>7, <3>1, <3>2 DEF CloserInv
    <2> QED
        BY <2>2, <2>3
<1>8. CASE /\ closer = "wait_lock" /\ HasLock("closer") /\ closer' = "closing"
           /\ UNCHANGED <<pc, cleaner, closed>>
    <2>1. \A t \in Task : ~Editing(t)
        BY <1>2, <1>8, ActorLocked, BehindHead DEF CloserInv
    <2> QED
        BY <1>8, <2>1 DEF CloserInv, Editing
<1>9. CASE closer = "closing" /\ closer' = "done" /\ UNCHANGED <<pc, cleaner, closed>>
    BY <1>9 DEF CloserInv, Editing
<1>10. CASE closer \in {"wait_lock", "closing"} /\ closer' = "aborted" /\ UNCHANGED <<pc, cleaner, closed>>
    BY <1>10 DEF CloserInv
<1> QED
    BY <1>0, <1>5, <1>6, <1>7, <1>8, <1>9, <1>10 DEF CloserStep

-----------------------------------------------------------------------------
(* The lists, the connections that are open, and the two who close what is    *)
(* listed: the clean-up and close().                                          *)

\* What the clean-up closes is stale, and stays so until it is unlisted.  What
\* is listed and not open is never fresh, or nobody is there to take it.
StaleInv ==
    /\ cleaner = "closing" => stale \subseteq Stale(curKey)
    /\ cleaner # "closing" => stale = {}
    /\ \A k \in Key : \A c \in pool[k] :
          \/ c \in open \/ c \in Stale(k)
          \/ closed /\ \A t \in Task : pc[t] # "lookup"
    /\ cleaner # "done" /\ closer \in {"idle", "await_cleanup"} =>
          \A k \in Key : pool[k] \ stale \subseteq open
    /\ \A t \in Owners : conn[t] \in open

\* close() has closed what is listed and not to be swept any more.
SweepInv ==
    /\ \A c \in sweep : \E k \in Key : c \in pool[k]
    /\ closer # "closing" => sweep = {} /\ inflight = NoConn
    /\ closer = "closing" => \A k \in Key : pool[k] \intersect open \subseteq sweep
    /\ closer = "done" => \A k \in Key : pool[k] = {}

PoolInv ==
    /\ TypeOK /\ HasConn /\ Ownership
    /\ LockInv /\ CloserInv /\ StaleInv /\ SweepInv

\* A task that works on the lists has them for itself.
LEMMA InsideAlone ==
    ASSUME PoolInv, NEW t \in Task, queue = <<>> \/ HasLock(t)
    PROVE  cleaner \notin {"scan", "closing"} /\ closer # "closing" /\ stale = {}
<1>1. t # "cleaner" /\ t # "closer"
    BY PoolAssumption
<1>2. cleaner \notin {"scan", "closing"} /\ closer # "closing"
    BY <1>1, ActorLocked DEF PoolInv, HasLock
<1> QED
    BY <1>2 DEF PoolInv, StaleInv

\* A step that leaves the lists alone.
LEMMA QuietStep ==
    ASSUME PoolInv, UNCHANGED <<pool, unhealthy, idle, open, sweep, inflight, closer, stale, curKey>>,
           UNCHANGED cleaner \/ ({cleaner, cleaner'} \intersect {"closing", "done"} = {}) \/ (stale = {} /\ cleaner' = "done"),
           closed => closed',
           Owners' \subseteq Owners, \A t \in Owners : conn'[t] = conn[t],
           closed => \A t \in Task : pc'[t] = "lookup" => pc[t] = "lookup"
    PROVE  StaleInv' /\ SweepInv'
BY DEF PoolInv, StaleInv, SweepInv, Stale

LEMMA ReuseLists ==
    ASSUME PoolInv, NEW t \in Task, NEW k \in Key, Reuse(t, k), queue = <<>> \/ HasLock(t),
           pc[t] = "lookup" \/ (pc[t] = "idle" /\ ~closed),
           UNCHANGED <<unhealthy, open, sweep, inflight, closer, closed, cleaner, stale, curKey>>
    PROVE  StaleInv' /\ SweepInv'
<1>1. PICK c \in Fresh(k) :
         /\ pool' = [pool EXCEPT ![k] = @ \ {c}]
         /\ idle' = [idle EXCEPT ![c] = 0]
         /\ conn' = [conn EXCEPT ![t] = c]
    BY DEF Reuse
<1>2. c \in pool[k] /\ c \in Conn /\ c \notin Stale(k)
    BY <1>1, PoolAssumption DEF Fresh, Stale, PoolInv, TypeOK
<1>3. c \in open
    BY <1>2 DEF PoolInv, StaleInv
<1>4. cleaner # "closing" /\ closer # "closing" /\ stale = {}
    BY InsideAlone
<1>5. closer # "done"
    BY DEF PoolInv, CloserInv, Editing
<1>6. \A j \in Key : \A d \in pool'[j] : d # c /\ d \in pool[j] /\ idle'[d] = idle[d]
    BY <1>1, <1>2 DEF PoolInv, Ownership, TypeOK
<1>7. \A u \in Owners' : u = t \/ (u \in Owners /\ conn'[u] = conn[u])
    BY <1>1 DEF Reuse, Owners, Owning, PoolInv, TypeOK
<1>8. \A u \in Owners' : conn'[u] \in open
    BY <1>1, <1>3, <1>7 DEF PoolInv, StaleInv, TypeOK
<1>9. \A u \in Task : pc'[u] = "lookup" => pc[u] = "lookup"
    BY DEF Reuse, PoolInv, TypeOK
<1>10. StaleInv'
    BY <1>4, <1>6, <1>8, <1>9 DEF PoolInv, StaleInv, Stale
<1>11. SweepInv'
    BY <1>4, <1>5 DEF PoolInv, SweepInv
<1> QED
    BY <1>10, <1>11

LEMMA KeepLists ==
    ASSUME PoolInv, NEW t \in Task, Keep(t, key[t]), queue = <<>> \/ HasLock(t),
           pc[t] = "release" \/ (pc[t] = "using" /\ ~closed),
           UNCHANGED <<conn, sweep, inflight, closer, closed, cleaner, stale, curKey>>
    PROVE  StaleInv' /\ SweepInv'
<1>1. t \in Owners /\ conn[t] \in open /\ conn[t] \in Conn /\ key[t] \in Key
    BY DEF Owners, Owning, PoolInv, StaleInv, HasConn, TypeOK
<1>2. \A j \in Key : conn[t] \notin pool[j]
    BY <1>1 DEF PoolInv, Ownership
<1>3. cleaner # "closing" /\ closer # "closing" /\ stale = {}
    BY InsideAlone
<1>4. closer # "done"
    BY DEF PoolInv, CloserInv, Editing
<1>5. \A j \in Key : \A d \in pool'[j] :
         \/ d = conn[t]
         \/ d \in pool[j] /\ (d \in unhealthy' <=> d \in unhealthy) /\ idle'[d] = idle[d]
    BY <1>2 DEF Keep, PoolInv, TypeOK
<1>6. \A u \in Owners' : u \in Owners
    BY DEF Keep, Owners, Owning, PoolInv, TypeOK
<1>7. \A u \in Task : pc'[u] = "lookup" => pc[u] = "lookup"
    BY DEF Keep, PoolInv, TypeOK
<1>8. open' = open
    BY DEF Keep
<1>9. StaleInv'
    BY <1>1, <1>3, <1>5, <1>6, <1>7, <1>8 DEF PoolInv, StaleInv, Stale
<1>10. SweepInv'
    BY <1>3, <1>4 DEF PoolInv, SweepInv
<1> QED
    BY <1>9, <1>10

\* A task closes the connection it owns.
LEMMA OwnerCloses ==
    ASSUME PoolInv, NEW t \in Owners, open' = open \ {conn[t]}, Owners' = Owners \ {t},
           \A u \in Task : pc'[u] = "lookup" => pc[u] = "lookup",
           UNCHANGED <<pool, unhealthy, idle, conn, sweep, inflight, closer, closed, cleaner, stale, curKey>>
    PROVE  StaleInv' /\ SweepInv'
<1>1. \A k \in Key : conn[t] \notin pool[k]
    BY DEF PoolInv, Ownership
<1>2. \A u \in Owners' : conn'[u] \in open'
    BY DEF PoolInv, Ownership, StaleInv
<1> QED
    BY <1>1, <1>2 DEF PoolInv, StaleInv, SweepInv, Stale

LEMMA TaskLists ==
    ASSUME PoolInv, NEW t \in Task, (\E k \in Key : AcquireCall(t, k)) \/ Release(t) \/ MarkCall(t) \/ Resume(t) \/ Drop(t)
    PROVE  StaleInv' /\ SweepInv'
<1> DEFINE Quiet == UNCHANGED <<pool, unhealthy, idle, open>>
           Others == /\ UNCHANGED <<sweep, inflight, closer, closed, cleaner, stale, curKey>>
           Same == Owners' \subseteq Owners /\ \A u \in Owners : conn'[u] = conn[u]
           NoLookup == \A u \in Task : pc'[u] = "lookup" => pc[u] = "lookup"
<1>0. ASSUME Quiet, Others, Same, closed => NoLookup PROVE StaleInv' /\ SweepInv'
    BY <1>0, QuietStep
<1>1. TypeOK
    BY DEF PoolInv
<1>2. ASSUME NEW k \in Key, AcquireCall(t, k) PROVE StaleInv' /\ SweepInv'
    <2>1. Others /\ pc[t] = "idle" /\ ~closed /\ t \notin Owners
        BY <1>2 DEF AcquireCall, Owners, Owning
    <2>2. CASE queue = <<>> /\ Reuse(t, k)
        BY <1>2, <2>1, <2>2, ReuseLists DEF AcquireCall, Lookup
    <2>3. CASE queue = <<>> /\ Miss(t, k)
        <3>1. Quiet /\ Same
            BY <1>1, <1>2, <2>1, <2>3 DEF AcquireCall, Lookup, Miss, Owners, Owning, TypeOK
        <3> QED
            BY <1>0, <2>1, <3>1
    <2>4. CASE queue # <<>>
        <3>1. Quiet /\ Same
            BY <1>1, <1>2, <2>1, <2>4 DEF AcquireCall, Owners, Owning, TypeOK
        <3> QED
            BY <1>0, <2>1, <3>1
    <2> QED
        BY <1>2, <2>2, <2>3, <2>4 DEF AcquireCall, Lookup
<1>3. CASE AcquireLookup(t)
    <2>1. Others /\ pc[t] = "lookup" /\ t \notin Owners /\ HasLock(t)
        BY <1>3 DEF AcquireLookup, Owners, Owning
    <2>2. CASE Reuse(t, key[t])
        BY <1>1, <1>3, <2>1, <2>2, ReuseLists DEF AcquireLookup, Lookup, TypeOK
    <2>3. CASE Miss(t, key[t])
        <3>1. Quiet /\ Same /\ NoLookup
            BY <1>1, <1>3, <2>1, <2>3 DEF AcquireLookup, Lookup, Miss, Owners, Owning, TypeOK
        <3> QED
            BY <1>0, <2>1, <3>1
    <2> QED
        BY <1>3, <2>2, <2>3 DEF AcquireLookup, Lookup
<1>4. CASE TakePermit(t) \/ CreateFail(t) \/ EvictDone(t) \/ LateCloseDone(t) \/ Drop(t)
    <2>1. Quiet /\ Others /\ Same /\ NoLookup
        BY <1>1, <1>4 DEF TakePermit, CreateFail, EvictDone, LateCloseDone, Drop, Owners, Owning, TypeOK
    <2> QED
        BY <1>0, <2>1
<1>5. CASE CreateOk(t)
    <2>1. /\ t \notin Owners /\ Owners' = Owners \union {t} /\ Others /\ NoLookup
          /\ UNCHANGED <<pool, unhealthy, idle>>
          /\ conn' = [conn EXCEPT ![t] = total_created + 1] /\ open' = open \union {total_created + 1}
        BY <1>1, <1>5 DEF CreateOk, Owners, Owning, TypeOK
    <2>2. \A k \in Key : total_created + 1 \notin pool[k]
        BY <1>1 DEF PoolInv, Ownership, HadIsCreated, TypeOK
    <2>3. \A u \in Owners' : conn'[u] \in open'
        BY <1>1, <2>1 DEF PoolInv, StaleInv, TypeOK, Owners
    <2>4. StaleInv'
        BY <2>1, <2>3 DEF PoolInv, StaleInv, Stale
    <2>5. SweepInv'
        BY <2>1, <2>2 DEF PoolInv, SweepInv
    <2> QED
        BY <2>4, <2>5
<1>6. CASE ReleaseCall(t)
    <2>1. Others /\ UNCHANGED conn /\ pc[t] = "using" /\ ~closed /\ t \in Owners
        BY <1>6 DEF ReleaseCall, Owners, Owning
    <2>2. CASE queue = <<>> /\ Keep(t, key[t])
        BY <2>1, <2>2, KeepLists
    <2>3. CASE queue = <<>> /\ Evict(t, key[t])
        BY <1>1, <2>1, <2>3, OwnerCloses DEF Evict, Owners, Owning, TypeOK
    <2>4. CASE queue # <<>>
        <3>1. Quiet /\ Same
            BY <1>1, <1>6, <2>1, <2>4 DEF ReleaseCall, Owners, Owning, TypeOK
        <3> QED
            BY <1>0, <2>1, <3>1
    <2> QED
        BY <1>6, <2>2, <2>3, <2>4 DEF ReleaseCall, PutBack
<1>7. CASE ReleaseLocked(t)
    <2>1. Others /\ UNCHANGED conn /\ pc[t] = "release" /\ HasLock(t) /\ t \in Owners
        BY <1>7 DEF ReleaseLocked, Owners, Owning
    <2>2. CASE Keep(t, key[t])
        BY <2>1, <2>2, KeepLists
    <2>3. CASE Evict(t, key[t])
        BY <1>1, <2>1, <2>3, OwnerCloses DEF Evict, Owners, Owning, TypeOK
    <2> QED
        BY <1>7, <2>2, <2>3 DEF ReleaseLocked, PutBack
<1>8. CASE ReleaseLate(t)
    BY <1>1, <1>8, OwnerCloses DEF ReleaseLate, Owners, Owning, TypeOK
<1>9. CASE MarkCall(t) \/ MarkLocked(t)
    <2>1. Others /\ Owners' = Owners /\ NoLookup /\ UNCHANGED <<pool, idle, open, conn>>
          /\ unhealthy \subseteq unhealthy'
        BY <1>1, <1>9 DEF MarkCall, MarkLocked, Mark, Owners, Owning, TypeOK
    <2> QED
        BY <2>1 DEF PoolInv, StaleInv, SweepInv, Stale
<1> QED
    BY <1>2, <1>3, <1>4, <1>5, <1>6, <1>7, <1>8, <1>9 DEF Release, Resume

\* What the clean-up and close() do to the lists.
LEMMA CleanLists ==
    ASSUME PoolInv, Start \/ Clean
    PROVE  StaleInv' /\ SweepInv'
<1> USE DEF PoolInv
<1>1. CASE Start \/ CleanerWake \/ CleanerLocked \/ CleanerFinish
    <2>1. stale = {}
        BY <1>1 DEF StaleInv, Start, CleanerWake, CleanerLocked, CleanerFinish
    <2>2. UNCHANGED <<pool, unhealthy, idle, open, sweep, inflight, closer, stale, curKey, closed, pc, conn>>
        BY <1>1 DEF Start, CleanerWake, CleanerLocked, CleanerFinish
    <2>3. cleaner' = "done" \/ {cleaner, cleaner'} \intersect {"closing", "done"} = {}
        BY <1>1 DEF Start, CleanerWake, CleanerLocked, CleanerFinish
    <2> QED
        BY <2>1, <2>2, <2>3, QuietStep DEF Owners
<1>2. CASE CleanerCancelled
    <2>1. /\ UNCHANGED <<pool, unhealthy, idle, open, sweep, inflight, closer, curKey, closed, pc, conn>>
          /\ stale' = {} /\ cleaner' = "done"
        BY <1>2 DEF CleanerCancelled
    <2>2. Owners' = Owners /\ \A j \in Key : Stale(j)' = Stale(j)
        BY <2>1 DEF Owners, Stale
    <2>3. StaleInv'
        BY <2>1, <2>2 DEF StaleInv
    <2> QED
        BY <2>1, <2>3 DEF SweepInv
<1>3. CASE CleanerScan \/ CleanerClose \/ CleanerUpdate
    <2>1. closer \in {"idle", "await_cleanup"}
        BY <1>3 DEF CleanerScan, CleanerClose, CleanerUpdate, CloserInv, TypeOK
    <2>2. SweepInv /\ sweep = {} /\ inflight = NoConn
        BY <2>1 DEF SweepInv
    <2>3. CASE CleanerScan
        <3>1. PICK k \in keysLeft :
                 /\ curKey' = k /\ stale' = Stale(k)
                 /\ IF Stale(k) = {}
                      THEN UNCHANGED <<cleaner, open, removed>>
                      ELSE /\ cleaner' = "closing"
                           /\ \E c \in Stale(k) : open' = open \ {c}
            BY <2>3 DEF CleanerScan
        <3>2. /\ UNCHANGED <<pool, unhealthy, idle, pc, conn, closed, closer, sweep, inflight>>
              /\ stale = {} /\ cleaner = "scan"
            BY <2>3 DEF CleanerScan, StaleInv
        <3>3. \A j \in Key : Stale(j)' = Stale(j)
            BY <3>2 DEF Stale
        <3>4. Owners' = Owners
            BY <3>2 DEF Owners
        <3>5. CASE Stale(k) = {}
            BY <2>1, <2>2, <3>1, <3>2, <3>3, <3>4, <3>5 DEF StaleInv, SweepInv
        <3>6. CASE Stale(k) # {}
            <4>1. PICK c \in Stale(k) : open' = open \ {c}
                BY <3>1, <3>6
            <4>2. k \in Key /\ c \in pool[k] /\ cleaner' = "closing"
                BY <3>1, <3>6 DEF TypeOK, Stale
            <4>3. /\ \A j \in Key : c \in pool[j] => j = k
                  /\ \A t \in Owners : conn[t] # c
                BY <4>2 DEF Ownership
            <4>4. StaleInv'
                BY <2>1, <3>1, <3>2, <3>3, <3>4, <4>1, <4>2, <4>3 DEF StaleInv
            <4> QED
                BY <2>1, <2>2, <3>2, <4>4 DEF SweepInv
        <3> QED
            BY <3>5, <3>6
    <2>4. CASE CleanerClose
        <3>1. PICK c \in stale \intersect open : open' = open \ {c}
            BY <2>4 DEF CleanerClose
        <3>2. /\ UNCHANGED <<pool, unhealthy, idle, pc, conn, closed, closer, sweep, inflight, cleaner, stale, curKey>>
              /\ cleaner = "closing"
            BY <2>4 DEF CleanerClose
        <3>3. c \in Stale(curKey) /\ c \in pool[curKey] /\ curKey \in Key
            BY <3>1, <3>2 DEF StaleInv, Stale, TypeOK
        <3>4. /\ \A j \in Key : c \in pool[j] => j = curKey
              /\ \A t \in Owners : conn[t] # c
            BY <3>3 DEF Ownership
        <3>5. Owners' = Owners /\ \A j \in Key : Stale(j)' = Stale(j)
            BY <3>2 DEF Owners, Stale
        <3>6. StaleInv'
            BY <2>1, <3>1, <3>2, <3>3, <3>4, <3>5 DEF StaleInv
        <3> QED
            BY <2>1, <2>2, <3>2, <3>6 DEF SweepInv
    <2>5. CASE CleanerUpdate
        <3>1. /\ UNCHANGED <<idle, pc, conn, closed, closer, sweep, inflight, curKey, open>>
              /\ cleaner = "closing" /\ cleaner' = "scan" /\ stale' = {} /\ stale \intersect open = {}
              /\ pool' = [pool EXCEPT ![curKey] = pool[curKey] \ stale]
              /\ unhealthy' = unhealthy \ stale
            BY <2>5 DEF CleanerUpdate
        <3>2. stale \subseteq pool[curKey] /\ curKey \in Key
            BY <3>1 DEF StaleInv, Stale, TypeOK
        <3>3. \A j \in Key : pool'[j] = pool[j] \ stale
            BY <3>1, <3>2 DEF Ownership, TypeOK
        <3>4. Owners' = Owners /\ \A j \in Key : Stale(j)' = Stale(j) \ stale
            BY <3>1, <3>3 DEF Owners, Stale
        <3>5. StaleInv'
            BY <2>1, <3>1, <3>3, <3>4 DEF StaleInv
        <3> QED
            BY <2>1, <2>2, <3>1, <3>5 DEF SweepInv
    <2> QED
        BY <1>3, <2>3, <2>4, <2>5
<1> QED
    BY <1>1, <1>2, <1>3 DEF Clean

LEMMA CloseLists ==
    ASSUME PoolInv, CloseCall \/ Close \/ CloseCancelled \/ Tick \/ UNCHANGED vars
    PROVE  StaleInv' /\ SweepInv'
<1> USE DEF PoolInv
<1>1. CASE CloseCall \/ CloseCleanerGone \/ CloseLocked
    <2>1. /\ UNCHANGED <<pool, unhealthy, idle, open, inflight, cleaner, stale, curKey, pc, conn>>
          /\ closed' /\ closer \notin {"closing", "done"}
          /\ \/ closer' \in {"await_cleanup", "wait_lock"} /\ UNCHANGED sweep
             \/ closer' = "closing" /\ sweep' = Pooled
          /\ closer' = "await_cleanup" => closer \in {"idle", "await_cleanup"}
        BY <1>1 DEF CloseCall, CloseCleanerGone, CloseLocked, SweepOrWait, CloserInv
    <2>2. Owners' = Owners /\ \A j : Stale(j)' = Stale(j)
        BY <2>1 DEF Owners, Stale
    <2>3. closed => \A t \in Task : pc'[t] # "lookup" \/ pc[t] = "lookup"
        BY <2>1
    <2>4. StaleInv'
        BY <2>1, <2>2, <2>3 DEF StaleInv
    <2>5. SweepInv'
        BY <2>1 DEF SweepInv, Pooled
    <2> QED
        BY <2>4, <2>5
<1>2. CASE CloseConn
    <2>1. PICK c \in sweep : inflight' = c /\ sweep' = sweep \ {c} /\ open' = open \ {c}
        BY <1>2 DEF CloseConn
    <2>2. /\ UNCHANGED <<pool, unhealthy, idle, cleaner, stale, curKey, pc, conn, closed, closer>>
          /\ closer = "closing"
        BY <1>2 DEF CloseConn
    <2>3. PICK k \in Key : c \in pool[k]
        BY <2>1 DEF SweepInv
    <2>4. \A t \in Owners : conn[t] # c
        BY <2>3 DEF Ownership
    <2>5. closed /\ cleaner # "closing" /\ \A t \in Task : pc[t] # "lookup"
        BY <2>2 DEF CloserInv, Editing
    <2>6. Owners' = Owners
        BY <2>2 DEF Owners
    <2>7. StaleInv'
        BY <2>1, <2>2, <2>4, <2>5, <2>6 DEF StaleInv
    <2>8. SweepInv'
        BY <2>1, <2>2 DEF SweepInv
    <2> QED
        BY <2>7, <2>8
<1>3. CASE CloseConnDone \/ CloseCancelled
    <2>1. /\ UNCHANGED <<pool, unhealthy, idle, open, cleaner, stale, curKey, pc, conn, closed>>
          /\ closer \notin {"idle", "await_cleanup"} /\ closer' \notin {"idle", "await_cleanup"}
          /\ \/ closer' = "aborted" /\ sweep' = {} /\ inflight' = NoConn
             \/ closer = "closing" /\ UNCHANGED <<closer, sweep>>
        BY <1>3 DEF CloseConnDone, CloseCancelled
    <2>2. Owners' = Owners /\ \A j : Stale(j)' = Stale(j)
        BY <2>1 DEF Owners, Stale
    <2>3. StaleInv'
        BY <2>1, <2>2 DEF StaleInv
    <2>4. SweepInv'
        BY <2>1 DEF SweepInv
    <2> QED
        BY <2>3, <2>4
<1>4. CASE CloseDone
    <2>1. /\ UNCHANGED <<open, cleaner, stale, curKey, pc, conn, closed, sweep, inflight>>
          /\ closer = "closing" /\ closer' = "done" /\ inflight = NoConn /\ sweep = {}
          /\ \A k \in Key : pool'[k] = {}
        BY <1>4 DEF CloseDone
    <2>2. cleaner \in {"off", "done"} /\ Owners' = Owners
        BY <2>1 DEF CloserInv, Owners
    <2>3. StaleInv'
        BY <2>1, <2>2 DEF StaleInv
    <2>4. SweepInv'
        BY <2>1 DEF SweepInv
    <2> QED
        BY <2>3, <2>4
<1>5. CASE Tick
    <2>1. /\ UNCHANGED <<pool, unhealthy, open, cleaner, stale, curKey, pc, conn, closed, closer, sweep, inflight>>
          /\ idle' = [c \in Conn |-> IF c \in Pooled /\ idle[c] <= KeepaliveTimeout THEN idle[c] + 1 ELSE idle[c]]
        BY <1>5 DEF Tick
    <2>2. \A c \in Conn : idle[c] > KeepaliveTimeout => idle'[c] > KeepaliveTimeout
        BY <2>1, PoolAssumption DEF TypeOK
    <2>3. \A j \in Key : Stale(j) \subseteq Stale(j)'
        BY <2>1, <2>2 DEF Stale, TypeOK
    <2>4. Owners' = Owners
        BY <2>1 DEF Owners
    <2>5. curKey \in Key
        BY DEF TypeOK
    <2>6. StaleInv'
        BY <2>1, <2>3, <2>4, <2>5 DEF StaleInv
    <2> QED
        BY <2>1, <2>6 DEF SweepInv
<1>6. CASE UNCHANGED vars
    BY <1>6, QuietStep DEF vars, Owners
<1> QED
    BY <1>1, <1>2, <1>3, <1>4, <1>5, <1>6 DEF Close

\* The invariant holds at first, and every step keeps it.
LEMMA InitPool == Init => PoolInv
<1> SUFFICES ASSUME Init PROVE PoolInv
    OBVIOUS
<1>1. TypeOK /\ HasConn
    BY InitType DEF Init, HasConn, Owners, Owning
<1>2. Ownership
    BY DEF Init, Ownership, HadIsCreated, Owners, Owning
<1>3. LockInv
    <2>1. queue = <<>> /\ \A a \in Actor : a \notin Range(queue) /\ ~Queued(a) /\ ~Inside(a)
        BY EmptyQueue, PoolAssumption DEF Init, Queued, Inside, InLock
    <2>2. Once
        <3>1. DOMAIN queue = 1..Len(queue)
            BY <2>1, EmptySeq, LenProperties
        <3> QED
            BY <2>1, <3>1 DEF Once, Range
    <2> QED
        BY <2>1, <2>2 DEF LockInv
<1>4. CloserInv
    BY DEF Init, CloserInv
<1>5. StaleInv /\ SweepInv
    BY DEF Init, StaleInv, SweepInv, Owners, Owning
<1> QED
    BY <1>1, <1>2, <1>3, <1>4, <1>5 DEF PoolInv

LEMMA NextPool ==
    ASSUME PoolInv, [Next]_vars
    PROVE  PoolInv'
<1>1. TypeOK' /\ HasConn' /\ Ownership'
    BY NextType, NextOwnership, OwnershipHasConn, NextKeepsOwnership DEF PoolInv
<1>2. LockInv'
    <2>1. PICK a \in Actor : LockStep(a)
        BY NextLock DEF PoolInv, CloserInv
    <2> QED
        BY <2>1, LockStepInv DEF PoolInv, TypeOK
<1>3. CloserInv'
    BY CloserStepInv DEF PoolInv
<1>4. StaleInv' /\ SweepInv'
    BY TaskLists, CleanLists, CloseLists DEF Next, Call
<1> QED
    BY <1>1, <1>2, <1>3, <1>4 DEF PoolInv

\* Who is in the queue of the lock is in it once and wants it; who works inside
\* is at its head; close() has behind it nobody who found the pool open; and the
\* clean-up and close() only close what is listed.
THEOREM PoolConsistent == Spec => []PoolInv
BY InitPool, NextPool, PTL DEF Spec

\* Once close() is through nothing is listed again (close, pool.py): a release
\* that found the pool open holds the lock, or waits for it, before close() does.
THEOREM ClosedPoolStaysEmpty == Spec => []ClosedStaysEmpty
<1>1. PoolInv => ClosedStaysEmpty
    BY DEF PoolInv, SweepInv, ClosedStaysEmpty, Pooled
<1> QED
    BY <1>1, PoolConsistent, PTL

-----------------------------------------------------------------------------
(* What a step does to who has the connections.                               *)

\* A connection that is listed and open is handed to a task.
HandsOut(t, k, c) ==
    /\ t \notin Owners /\ Owners' = Owners \union {t} /\ pc'[t] = "using"
    /\ c \in pool[k] /\ c \in open
    /\ conn' = [conn EXCEPT ![t] = c]
    /\ pool' = [pool EXCEPT ![k] = @ \ {c}]
    /\ UNCHANGED <<open, total_created, dropped, closer>>

\* A new one is created for a task.
Creates(t) ==
    /\ t \notin Owners /\ Owners' = Owners \union {t}
    /\ total_created < MaxLeases /\ total_created' = total_created + 1
    /\ conn' = [conn EXCEPT ![t] = total_created + 1]
    /\ open' = open \union {total_created + 1}
    /\ UNCHANGED <<pool, dropped, closer>>

\* A task puts its connection into a list that has room and is not closed.
Lists(t) ==
    /\ t \in Owners /\ Owners' = Owners \ {t}
    /\ Cardinality(pool[key[t]]) < MaxKeepalive /\ closer # "done"
    /\ pool' = [pool EXCEPT ![key[t]] = @ \union {conn[t]}]
    /\ unhealthy' = unhealthy \ {conn[t]}
    /\ UNCHANGED <<conn, open, total_created, dropped, closer>>

\* A task closes its connection, or gives it up.
Closes(t) ==
    /\ t \in Owners /\ Owners' = Owners \ {t}
    /\ open' = open \ {conn[t]}
    /\ UNCHANGED <<conn, pool, total_created, dropped, closer>>

GivesUp(t) ==
    /\ t \in Owners /\ Owners' = Owners \ {t}
    /\ dropped' = dropped \union {conn[t]}
    /\ UNCHANGED <<conn, pool, open, total_created, closer>>

\* The clean-up or close() closes a connection that is listed.
ClosesListed(k, c) ==
    /\ c \in pool[k]
    /\ open' = open \ {c}
    /\ UNCHANGED <<pc, conn, pool, total_created, dropped, closer>>

\* They unlist what is closed; close() is through when nothing is listed.
Unlists ==
    /\ \A k \in Key : pool'[k] \subseteq pool[k] /\ pool[k] \intersect open \subseteq pool'[k]
    /\ UNCHANGED <<pc, conn, open, total_created, dropped>>
    /\ closer' = closer \/ (closer' = "done" /\ \A k \in Key : pool'[k] = {})

\* Nobody gets or loses anything.
Stays ==
    /\ Owners' = Owners /\ \A t \in Owners : conn'[t] = conn[t]
    /\ UNCHANGED <<pool, open, total_created, dropped>>
    /\ closer' = "done" <=> closer = "done"

Move ==
    \/ \E t \in Task, k \in Key, c \in Conn : HandsOut(t, k, c)
    \/ \E t \in Task : Creates(t) \/ Lists(t) \/ Closes(t) \/ GivesUp(t)
    \/ \E k \in Key, c \in Conn : ClosesListed(k, c)
    \/ Unlists
    \/ Stays

LEMMA LookupMoves ==
    ASSUME PoolInv, NEW t \in Task, NEW k \in Key, Lookup(t, k),
           queue = <<>> \/ HasLock(t), pc[t] = "lookup" \/ (pc[t] = "idle" /\ ~closed),
           UNCHANGED <<open, total_created, dropped, closer>>
    PROVE  Move
<1>0. TypeOK /\ t \notin Owners
    BY DEF PoolInv, Owners, Owning
<1>1. CASE Reuse(t, k)
    <2>1. PICK c \in Fresh(k) :
             /\ pool' = [pool EXCEPT ![k] = @ \ {c}]
             /\ conn' = [conn EXCEPT ![t] = c]
        BY <1>1 DEF Reuse
    <2>2. c \in pool[k] /\ c \in Conn /\ c \notin Stale(k)
        BY <1>0, <2>1, PoolAssumption DEF Fresh, Stale, TypeOK
    <2>3. c \in open
        BY <2>2 DEF PoolInv, StaleInv
    <2>4. Owners' = Owners \union {t} /\ pc'[t] = "using"
        BY <1>0, <1>1 DEF Reuse, Owners, Owning, TypeOK
    <2> QED
        BY <1>0, <2>1, <2>2, <2>3, <2>4 DEF HandsOut, Move
<1>2. CASE Miss(t, k)
    <2>1. Owners' = Owners /\ \A u \in Owners : conn'[u] = conn[u]
        BY <1>0, <1>2 DEF Miss, Owners, Owning, TypeOK
    <2> QED
        BY <1>2, <2>1 DEF Miss, Stays, Move
<1> QED
    BY <1>1, <1>2 DEF Lookup

LEMMA PutBackMoves ==
    ASSUME PoolInv, NEW t \in Task, PutBack(t), pc[t] = "release" \/ (pc[t] = "using" /\ ~closed),
           UNCHANGED <<conn, total_created, dropped, closer>>
    PROVE  Move
<1>0. TypeOK /\ t \in Owners
    BY DEF PoolInv, Owners, Owning
<1>1. closer # "done"
    BY DEF PoolInv, CloserInv, Editing
<1>2. pc' = [pc EXCEPT ![t] = "idle"] \/ pc' = [pc EXCEPT ![t] = "evicting"]
    BY DEF PutBack, Keep, Evict
<1>3. Owners' = Owners \ {t}
    BY <1>0, <1>2 DEF Owners, Owning, TypeOK
<1> QED
    BY <1>0, <1>1, <1>3 DEF PutBack, Keep, Evict, Lists, Closes, Move

LEMMA NextMoves ==
    ASSUME PoolInv, [Next]_vars
    PROVE  Move
<1> USE DEF PoolInv
<1>0. TypeOK
    OBVIOUS
<1>1. ASSUME NEW t \in Task, NEW k \in Key, AcquireCall(t, k) PROVE Move
    <2>1. CASE queue = <<>>
        BY <1>1, <2>1, LookupMoves DEF AcquireCall
    <2>2. CASE queue # <<>>
        BY <1>0, <1>1, <2>2 DEF AcquireCall, Owners, Owning, Stays, Move, TypeOK
    <2> QED
        BY <2>1, <2>2
<1>2. ASSUME NEW t \in Task, AcquireLookup(t) PROVE Move
    BY <1>0, <1>2, LookupMoves DEF AcquireLookup, TypeOK
<1>3. ASSUME NEW t \in Task, ReleaseCall(t) PROVE Move
    <2>1. CASE queue = <<>>
        BY <1>3, <2>1, PutBackMoves DEF ReleaseCall
    <2>2. CASE queue # <<>>
        BY <1>0, <1>3, <2>2 DEF ReleaseCall, Owners, Owning, Stays, Move, TypeOK
    <2> QED
        BY <2>1, <2>2
<1>4. ASSUME NEW t \in Task, ReleaseLocked(t) PROVE Move
    BY <1>4, PutBackMoves DEF ReleaseLocked
<1>5. ASSUME NEW t \in Task, CreateOk(t) PROVE Move
    BY <1>0, <1>5 DEF CreateOk, Owners, Owning, Creates, Move, TypeOK
<1>6. ASSUME NEW t \in Task, ReleaseLate(t) PROVE Move
    BY <1>0, <1>6 DEF ReleaseLate, Owners, Owning, Closes, Move, TypeOK
<1>7. ASSUME NEW t \in Task, TakePermit(t) \/ CreateFail(t) \/ EvictDone(t) \/ LateCloseDone(t)
                             \/ MarkCall(t) \/ MarkLocked(t)
      PROVE  Move
    <2>1. Owners' = Owners
        BY <1>0, <1>7 DEF TakePermit, CreateFail, EvictDone, LateCloseDone, MarkCall, MarkLocked, Owners, Owning, TypeOK
    <2> QED
        BY <1>7, <2>1 DEF TakePermit, CreateFail, EvictDone, LateCloseDone, MarkCall, MarkLocked, Stays, Move
<1>8. ASSUME NEW t \in Task, Drop(t) PROVE Move
    <2>1. Owners' = Owners \ {t}
        BY <1>0, <1>8 DEF Drop, Owners, Owning, TypeOK
    <2>2. CASE t \in Owners
        BY <1>8, <2>1, <2>2 DEF Drop, Owners, GivesUp, Move
    <2>3. CASE t \notin Owners
        BY <1>8, <2>1, <2>3 DEF Drop, Owners, Stays, Move
    <2> QED
        BY <2>2, <2>3
<1>9. ASSUME Start \/ CleanerWake \/ CleanerLocked \/ CleanerFinish \/ CleanerCancelled \/ CloseConnDone \/ Tick \/ UNCHANGED vars
      PROVE  Move
    BY <1>9 DEF Start, CleanerWake, CleanerLocked, CleanerFinish, CleanerCancelled, CloseConnDone, Tick, vars, Owners, Stays, Move
<1>10. ASSUME CloseCall \/ CloseCleanerGone \/ CloseLocked \/ CloseCancelled PROVE Move
    <2>1. UNCHANGED <<pc, conn, pool, open, total_created, dropped>>
        BY <1>10 DEF CloseCall, CloseCleanerGone, CloseLocked, CloseCancelled
    <2>2. closer' # "done" /\ closer # "done"
        BY <1>10 DEF CloseCall, CloseCleanerGone, CloseLocked, CloseCancelled, SweepOrWait, CloserInv
    <2> QED
        BY <2>1, <2>2 DEF Owners, Stays, Move
<1>11. ASSUME CleanerScan PROVE Move
    <2>1. UNCHANGED <<pc, conn, pool, total_created, dropped, closer>>
        BY <1>11 DEF CleanerScan
    <2>2. UNCHANGED open \/ \E k \in Key : \E c \in pool[k] : open' = open \ {c}
        BY <1>0, <1>11 DEF CleanerScan, Stale, TypeOK
    <2> QED
        BY <1>0, <2>1, <2>2 DEF Owners, Stays, ClosesListed, Move, TypeOK
<1>12. ASSUME CleanerClose PROVE Move
    <2>1. UNCHANGED <<pc, conn, pool, total_created, dropped, closer>>
        BY <1>12 DEF CleanerClose
    <2>2. \E k \in Key : \E c \in pool[k] : open' = open \ {c}
        BY <1>0, <1>12 DEF CleanerClose, StaleInv, Stale, TypeOK
    <2> QED
        BY <1>0, <2>1, <2>2 DEF ClosesListed, Move, TypeOK
<1>13. ASSUME CloseConn PROVE Move
    <2>1. UNCHANGED <<pc, conn, pool, total_created, dropped, closer>>
        BY <1>13 DEF CloseConn
    <2>2. \E k \in Key : \E c \in pool[k] : open' = open \ {c}
        BY <1>13 DEF CloseConn, SweepInv
    <2> QED
        BY <1>0, <2>1, <2>2 DEF ClosesListed, Move, TypeOK
<1>14. ASSUME CleanerUpdate PROVE Move
    BY <1>0, <1>14 DEF CleanerUpdate, Unlists, Move, TypeOK
<1>15. ASSUME CloseDone PROVE Move
    BY <1>15 DEF CloseDone, SweepInv, Unlists, Move
<1> QED
    BY <1>1, <1>2, <1>3, <1>4, <1>5, <1>6, <1>7, <1>8, <1>9, <1>10, <1>11, <1>12, <1>13, <1>14, <1>15
    DEF Next, Call, Resume, Release, Clean, Close

-----------------------------------------------------------------------------
(* No connection is forgotten.                                                *)

\* NoOrphans is inductive: whoever loses an open connection passes it on.
LEMMA MoveNoOrphans ==
    ASSUME PoolInv, NoOrphans, Move
    PROVE  NoOrphans'
<1> SUFFICES ASSUME NEW c \in open'
             PROVE  \/ \E t \in Owners' : conn'[t] = c
                    \/ \E k \in Key : c \in pool'[k]
                    \/ c \in dropped'
    BY DEF NoOrphans, Pooled
<1> DEFINE Had == \/ \E t \in Owners : conn[t] = c
                  \/ \E k \in Key : c \in pool[k]
                  \/ c \in dropped
<1>0. /\ c \in open => Had
      /\ conn \in [Task -> Conn \union {NoConn}] /\ pool \in [Key -> SUBSET Conn] /\ key \in [Task -> Key]
      /\ Owners \subseteq Task
    BY DEF NoOrphans, Pooled, PoolInv, TypeOK, Owners
<1>1. ASSUME NEW t \in Task, NEW k \in Key, NEW d \in Conn, HandsOut(t, k, d)
      PROVE  \/ \E u \in Owners' : conn'[u] = c
             \/ \E j \in Key : c \in pool'[j]
             \/ c \in dropped'
    BY <1>0, <1>1 DEF HandsOut
<1>2. ASSUME NEW t \in Task, Creates(t)
      PROVE  \/ \E u \in Owners' : conn'[u] = c
             \/ \E j \in Key : c \in pool'[j]
             \/ c \in dropped'
    BY <1>0, <1>2 DEF Creates
<1>3. ASSUME NEW t \in Task, Lists(t)
      PROVE  \/ \E u \in Owners' : conn'[u] = c
             \/ \E j \in Key : c \in pool'[j]
             \/ c \in dropped'
    BY <1>0, <1>3 DEF Lists
<1>4. ASSUME NEW t \in Task, Closes(t) \/ GivesUp(t)
      PROVE  \/ \E u \in Owners' : conn'[u] = c
             \/ \E j \in Key : c \in pool'[j]
             \/ c \in dropped'
    BY <1>0, <1>4 DEF Closes, GivesUp
<1>5. ASSUME NEW k \in Key, NEW d \in Conn, ClosesListed(k, d)
      PROVE  \/ \E u \in Owners' : conn'[u] = c
             \/ \E j \in Key : c \in pool'[j]
             \/ c \in dropped'
    BY <1>0, <1>5 DEF ClosesListed, Owners
<1>6. CASE Unlists
    BY <1>0, <1>6 DEF Unlists, Owners
<1>7. CASE Stays
    BY <1>0, <1>7 DEF Stays
<1> QED
    BY <1>1, <1>2, <1>3, <1>4, <1>5, <1>6, <1>7 DEF Move

\* Every connection that is open is held by a task, listed, or was given up by
\* a client that was cancelled or never released it (pool.py: no path of
\* acquire, release, the clean-up and close() loses one).
THEOREM NothingOrphaned == Spec => []NoOrphans
<1>1. Init => NoOrphans
    BY DEF Init, NoOrphans
<1>2. PoolInv /\ NoOrphans /\ [Next]_vars => NoOrphans'
    BY NextMoves, MoveNoOrphans
<1> QED
    BY <1>1, <1>2, PoolConsistent, PTL DEF Spec

\* An entry leaves a list only to a task or closed, and enters one only open
\* and healthy, whatever runs between a scan of the clean-up and its update.
THEOREM ListsStepwise == Spec => ListSteps
<1>1. PoolInv /\ [Next]_vars => [ListStep]_vars
    <2> SUFFICES ASSUME PoolInv, [Next]_vars PROVE ListStep
        OBVIOUS
    <2>0. TypeOK /\ Move
        BY NextMoves DEF PoolInv
    <2>1. ASSUME NEW t \in Task, NEW k \in Key, NEW c \in Conn, HandsOut(t, k, c) PROVE ListStep
        BY <2>0, <2>1 DEF HandsOut, ListStep, Pooled, TypeOK
    <2>2. ASSUME NEW t \in Task, Lists(t) PROVE ListStep
        <3>1. conn[t] \in open
            BY <2>2 DEF Lists, PoolInv, StaleInv
        <3> QED
            BY <2>0, <2>2, <3>1 DEF Lists, ListStep, Pooled, TypeOK
    <2>3. ASSUME NEW t \in Task, Creates(t) \/ Closes(t) \/ GivesUp(t) PROVE ListStep
        BY <2>3 DEF Creates, Closes, GivesUp, ListStep, Pooled
    <2>4. ASSUME NEW k \in Key, NEW c \in Conn, ClosesListed(k, c) PROVE ListStep
        BY <2>4 DEF ClosesListed, ListStep, Pooled
    <2>5. CASE Unlists
        BY <2>5 DEF Unlists, ListStep, Pooled
    <2>6. CASE Stays
        BY <2>6 DEF Stays, ListStep, Pooled
    <2> QED
        BY <2>0, <2>1, <2>2, <2>3, <2>4, <2>5, <2>6 DEF Move
<1> QED
    BY <1>1, PoolConsistent, PTL DEF Spec, ListSteps

-----------------------------------------------------------------------------
(* The pool implements ConnectionLeases.                                      *)

\* What OwnerOf says of a connection: at most one task holds it and one key
\* lists it, so the choices in it are no choices.
OwnerFacts ==
    /\ OwnerOf = [c \in Conn |-> OwnerOf[c]]
    /\ \A t \in Owners : OwnerOf[conn[t]] = <<"held", t>>
    /\ \A c \in Conn : (\A t \in Owners : conn[t] # c) =>
          /\ c > total_created => OwnerOf[c] = <<"none">>
          /\ c <= total_created /\ c \notin open => OwnerOf[c] = <<"closed">>
          /\ c <= total_created /\ c \in open =>
                /\ \A k \in Key : c \in pool[k] => OwnerOf[c] = <<"listed", k>>
                /\ (\A k \in Key : c \notin pool[k]) => OwnerOf[c] = <<"given_up">>

LEMMA PoolOwners == PoolInv => OwnerFacts
<1> SUFFICES ASSUME PoolInv PROVE OwnerFacts
    OBVIOUS
<1>1. TypeOK /\ HasConn /\ Ownership /\ Owners \subseteq Task
    BY DEF PoolInv, Owners
<1>2. ASSUME NEW t \in Owners PROVE OwnerOf[conn[t]] = <<"held", t>>
    <2>1. Holder(conn[t]) = {t} /\ conn[t] \in Conn
        BY <1>1, <1>2 DEF Holder, Ownership, HasConn
    <2> QED
        BY <1>1, <2>1 DEF OwnerOf
<1>3. ASSUME NEW c \in Conn, \A t \in Owners : conn[t] # c
      PROVE  /\ c > total_created => OwnerOf[c] = <<"none">>
             /\ c <= total_created /\ c \notin open => OwnerOf[c] = <<"closed">>
             /\ c <= total_created /\ c \in open =>
                   /\ \A k \in Key : c \in pool[k] => OwnerOf[c] = <<"listed", k>>
                   /\ (\A k \in Key : c \notin pool[k]) => OwnerOf[c] = <<"given_up">>
    <2>1. Holder(c) = {}
        BY <1>3 DEF Holder
    <2>2. c \in Nat /\ total_created \in Nat
        BY <1>1, PoolAssumption DEF Conn, TypeOK
    <2>3. OwnerOf[c] = IF c > total_created THEN <<"none">>
                       ELSE IF c \notin open THEN <<"closed">>
                       ELSE IF ListedAt(c) # {} THEN <<"listed", CHOOSE k \in Key : k \in ListedAt(c)>>
                       ELSE <<"given_up">>
        BY <2>1 DEF OwnerOf
    <2>4. \A k \in Key : c \in pool[k] => ListedAt(c) = {k}
        BY <1>1 DEF ListedAt, Ownership
    <2>5. (\A k \in Key : c \notin pool[k]) => ListedAt(c) = {}
        BY DEF ListedAt
    <2>6. \A k \in Key : (CHOOSE j \in Key : j \in {k}) = k
        OBVIOUS
    <2> QED
        BY <2>2, <2>3, <2>4, <2>5, <2>6
<1>4. OwnerOf = [c \in Conn |-> OwnerOf[c]]
    BY DEF OwnerOf
<1> QED
    BY <1>2, <1>3, <1>4 DEF OwnerFacts

\* OwnerOf changes at connection c only.
Becomes(c, o) == OwnerOf' = [OwnerOf EXCEPT ![c] = o]

LEMMA BecomesIf ==
    ASSUME OwnerFacts, OwnerFacts', NEW c \in Conn, NEW o, OwnerOf'[c] = o,
           \A d \in Conn : d # c => OwnerOf'[d] = OwnerOf[d]
    PROVE  Becomes(c, o)
BY DEF Becomes, OwnerFacts

\* A connection is whose it was if its holder keeps it, or if it has none and
\* is created, open and listed as before.
LEMMA OwnerKept ==
    ASSUME OwnerFacts, OwnerFacts', NEW d \in Conn, d \in Nat, total_created \in Nat, total_created' \in Nat,
           \/ \E u \in Owners \intersect Owners' : conn[u] = d /\ conn'[u] = d
           \/ /\ \A u \in Owners : conn[u] # d
              /\ \A u \in Owners' : conn'[u] # d
              /\ d <= total_created' <=> d <= total_created
              /\ d \in open' <=> d \in open
              /\ d \in open => \A k \in Key : d \in pool'[k] <=> d \in pool[k]
    PROVE  OwnerOf'[d] = OwnerOf[d]
<1>1. CASE \E u \in Owners \intersect Owners' : conn[u] = d /\ conn'[u] = d
    <2>1. PICK u \in Owners : u \in Owners' /\ conn[u] = d /\ conn'[u] = d
        BY <1>1
    <2>2. OwnerOf[d] = <<"held", u>>
        BY <2>1 DEF OwnerFacts
    <2>3. OwnerOf'[d] = <<"held", u>>
        BY <2>1 DEF OwnerFacts
    <2> QED
        BY <2>2, <2>3
<1>2. CASE \A u \in Owners : conn[u] # d
    <2>1. (\A u \in Owners' : conn'[u] # d) /\ (d <= total_created <=> ~(d > total_created))
          /\ (d <= total_created' <=> ~(d > total_created'))
        BY <1>2
    <2>2. CASE d > total_created
        BY <1>2, <2>1, <2>2 DEF OwnerFacts
    <2>3. CASE d <= total_created /\ d \notin open
        BY <1>2, <2>1, <2>3 DEF OwnerFacts
    <2>4. CASE d <= total_created /\ d \in open
        BY <1>2, <2>1, <2>4 DEF OwnerFacts
    <2> QED
        BY <2>1, <2>2, <2>3, <2>4
<1> QED
    BY <1>1, <1>2

\* The instance has the Cardinality of FiniteSets under a name of its own.
LEMMA SameCardinality == \A S : Leases!Cardinality(S) = Cardinality(S)
BY DEF Cardinality, Leases!Cardinality

LEMMA MoveRefines ==
    ASSUME PoolInv, PoolInv', OwnerFacts, OwnerFacts', Move
    PROVE  [Leases!Next]_<<OwnerOf, closer = "done">>
<1>1. /\ \A c \in Conn : c \in Nat
      /\ total_created \in Nat /\ total_created' \in Nat
    BY PoolAssumption DEF PoolInv, TypeOK, Conn
<1>2. /\ Owners \subseteq Task /\ key \in [Task -> Key]
      /\ conn \in [Task -> Conn \union {NoConn}] /\ pool \in [Key -> SUBSET Conn]
      /\ \A t \in Owners : conn[t] \in Conn
    BY DEF PoolInv, Owners, TypeOK, HasConn
<1>3. /\ \A t \in Owners : conn[t] <= total_created /\ conn[t] \in open
      /\ \A k \in Key : \A c \in pool[k] : c <= total_created
    BY DEF PoolInv, Ownership, HadIsCreated, StaleInv
<1>4. /\ \A t, u \in Owners : conn[t] = conn[u] => t = u
      /\ \A t \in Owners, k \in Key : conn[t] \notin pool[k]
      /\ \A j, k \in Key : j # k => pool[j] \intersect pool[k] = {}
      /\ \A t, u \in Owners' : conn'[t] = conn'[u] => t = u
      /\ \A t \in Owners', k \in Key : conn'[t] \notin pool'[k]
    BY DEF PoolInv, Ownership
<1>5. ASSUME NEW t \in Task, NEW k \in Key, NEW c \in Conn, HandsOut(t, k, c)
      PROVE  Leases!HandOut(c, t)
    <2>1. OwnerOf[c] = <<"listed", k>>
        BY <1>1, <1>3, <1>4, <1>5 DEF HandsOut, OwnerFacts
    <2>2. closer # "done" /\ closer' # "done"
        BY <1>5 DEF HandsOut, PoolInv, SweepInv
    <2>3. /\ t \in Owners' /\ conn'[t] = c
          /\ \A u \in Owners : u \in Owners' /\ conn'[u] = conn[u] /\ u # t
          /\ \A j \in Key : pool'[j] = pool[j] \ {c}
          /\ UNCHANGED <<open, total_created>> /\ Owners' = Owners \union {t}
        BY <1>2, <1>4, <1>5 DEF HandsOut
    <2>4. OwnerOf'[c] = <<"held", t>>
        BY <2>3 DEF OwnerFacts
    <2>5. \A d \in Conn : d # c => OwnerOf'[d] = OwnerOf[d]
        BY <1>1, <2>3, OwnerKept
    <2>6. Becomes(c, <<"held", t>>)
        BY <2>4, <2>5, BecomesIf
    <2> QED
        BY <2>1, <2>2, <2>6 DEF Becomes, Leases!HandOut, Leases!Listed
<1>6. ASSUME NEW t \in Task, Creates(t)
      PROVE  \E c \in Conn : Leases!Create(c, t)
    <2> DEFINE c == total_created + 1
    <2>1. c \in Conn /\ c > total_created
        BY <1>1, <1>6, PoolAssumption DEF Creates, Conn
    <2>2. \A u \in Owners : conn[u] # c
        BY <1>1, <1>2, <1>3
    <2>3. OwnerOf[c] = <<"none">>
        BY <2>1, <2>2 DEF OwnerFacts
    <2>4. /\ t \in Owners' /\ conn'[t] = c
          /\ \A u \in Owners : u \in Owners' /\ conn'[u] = conn[u] /\ u # t
          /\ UNCHANGED <<pool, closer>> /\ Owners' = Owners \union {t}
          /\ total_created' = c /\ open' = open \union {c}
        BY <1>2, <1>6 DEF Creates
    <2>5. OwnerOf'[c] = <<"held", t>>
        BY <2>4 DEF OwnerFacts
    <2>6. \A d \in Conn : d # c => (d <= c <=> d <= total_created)
        BY <1>1
    <2> HIDE DEF c
    <2>7. \A d \in Conn : d # c => OwnerOf'[d] = OwnerOf[d]
        BY <1>1, <2>4, <2>6, OwnerKept
    <2>8. Becomes(c, <<"held", t>>)
        BY <2>1, <2>5, <2>7, BecomesIf
    <2> QED
        BY <2>1, <2>3, <2>4, <2>8 DEF Becomes, Leases!Create
<1>7. ASSUME NEW t \in Task, Lists(t)
      PROVE  \E c \in Conn : \E k \in Key : Leases!PutBack(c, k)
    <2> DEFINE c == conn[t]
               k == key[t]
    <2>1. /\ t \in Owners /\ c \in Conn /\ k \in Key /\ c <= total_created /\ c \in open
          /\ Cardinality(pool[k]) < MaxKeepalive
          /\ closer # "done" /\ closer' = closer
        BY <1>2, <1>3, <1>7 DEF Lists
    <2>2. /\ Owners' = Owners \ {t}
          /\ UNCHANGED <<conn, open, total_created>>
          /\ \A u \in Owners' : u \in Owners /\ conn[u] # c
          /\ \A j \in Key : pool'[j] = IF j = k THEN pool[j] \union {c} ELSE pool[j]
        BY <1>2, <1>4, <1>7 DEF Lists
    <2>3. OwnerOf[c] = <<"held", t>>
        BY <2>1 DEF OwnerFacts
    <2> HIDE DEF c, k
    <2>4. OwnerOf'[c] = <<"listed", k>>
        BY <1>1, <2>1, <2>2 DEF OwnerFacts
    <2>5. \A d \in Conn : d # c => OwnerOf'[d] = OwnerOf[d]
        BY <1>1, <2>1, <2>2, OwnerKept DEF c
    <2>6. Becomes(c, <<"listed", k>>)
        BY <2>1, <2>4, <2>5, BecomesIf
    <2>7. Cardinality(Leases!ListOf(k)) < MaxKeepalive
        <3>1. \A d \in Leases!ListOf(k) : d \in pool[k]
            BY <1>1, <2>1 DEF Leases!ListOf, OwnerFacts
        <3>2. IsFiniteSet(pool[k]) /\ Cardinality(pool[k]) \in Nat
            BY <2>1, ListsFinite DEF PoolInv
        <3>3. Leases!ListOf(k) \in SUBSET pool[k]
            BY <3>1
        <3>4. Cardinality(Leases!ListOf(k)) <= Cardinality(pool[k]) /\ Cardinality(Leases!ListOf(k)) \in Nat
            BY <3>2, <3>3, FS_Subset, FS_CardinalityType
        <3> QED
            BY <2>1, <3>2, <3>4, PoolAssumption
    <2>8. OwnerOf[c] \in Leases!Held
        BY <2>3 DEF Leases!Held
    <2>9. Leases!Cardinality(Leases!ListOf(k)) = Cardinality(Leases!ListOf(k))
        BY SameCardinality
    <2>10. Leases!PutBack(c, k)
        BY <2>1, <2>6, <2>7, <2>8, <2>9 DEF Becomes, Leases!PutBack
    <2> QED
        BY <2>1, <2>10
<1>8. ASSUME NEW t \in Task, Closes(t) \/ GivesUp(t)
      PROVE  \E c \in Conn : Leases!CloseOne(c) \/ Leases!GiveUp(c)
    <2> DEFINE c == conn[t]
    <2>1. /\ t \in Owners /\ c \in Conn /\ c <= total_created /\ c \in open
          /\ \A k \in Key : c \notin pool[k]
        BY <1>2, <1>3, <1>4, <1>8 DEF Closes, GivesUp
    <2>2. /\ Owners' = Owners \ {t}
          /\ UNCHANGED <<conn, pool, total_created, closer>>
          /\ open' = open \ {c} \/ open' = open
          /\ \A u \in Owners' : u \in Owners /\ conn[u] # c
        BY <1>4, <1>8 DEF Closes, GivesUp
    <2>3. OwnerOf[c] = <<"held", t>>
        BY <2>1 DEF OwnerFacts
    <2>4. OwnerOf'[c] = <<"closed">> \/ OwnerOf'[c] = <<"given_up">>
        BY <2>1, <2>2 DEF OwnerFacts
    <2>5. \A d \in Conn : d # c => OwnerOf'[d] = OwnerOf[d]
        BY <1>1, <2>1, <2>2, OwnerKept
    <2> HIDE DEF c
    <2>6. Becomes(c, <<"closed">>) \/ Becomes(c, <<"given_up">>)
        BY <2>1, <2>4, <2>5, BecomesIf
    <2>7. OwnerOf[c] \in Leases!Held
        BY <2>3 DEF Leases!Held
    <2> QED
        BY <2>1, <2>2, <2>6, <2>7 DEF Becomes, Leases!CloseOne, Leases!GiveUp
<1>9. ASSUME NEW k \in Key, NEW c \in Conn, ClosesListed(k, c)
      PROVE  Leases!CloseOne(c) \/ UNCHANGED <<OwnerOf, closer = "done">>
    <2>1. /\ c \in pool[k] /\ c <= total_created /\ open' = open \ {c}
          /\ UNCHANGED <<conn, pool, total_created, closer>> /\ Owners' = Owners
          /\ \A u \in Owners : conn[u] # c
        BY <1>3, <1>4, <1>9 DEF ClosesListed, Owners
    <2>2. OwnerOf'[c] = <<"closed">>
        BY <2>1 DEF OwnerFacts
    <2>3. \A d \in Conn : d # c => OwnerOf'[d] = OwnerOf[d]
        BY <1>1, <2>1, OwnerKept
    <2>4. Becomes(c, <<"closed">>)
        BY <2>2, <2>3, BecomesIf
    <2>5. CASE c \in open
        <3>1. OwnerOf[c] = <<"listed", k>>
            BY <2>1, <2>5 DEF OwnerFacts
        <3> QED
            BY <2>1, <2>4, <3>1 DEF Becomes, Leases!CloseOne, Leases!Listed
    <2>6. CASE c \notin open
        <3>1. OwnerOf[c] = <<"closed">>
            BY <2>1, <2>6 DEF OwnerFacts
        <3>2. \A d \in Conn : OwnerOf'[d] = OwnerOf[d]
            BY <2>2, <2>3, <3>1
        <3>3. OwnerOf' = OwnerOf
            BY <3>2 DEF OwnerFacts
        <3> QED
            BY <2>1, <3>3
    <2> QED
        BY <2>5, <2>6
<1>10. CASE Unlists
    <2>1. /\ Owners' = Owners /\ UNCHANGED <<conn, open, total_created>>
          /\ \A j \in Key : \A d \in open : d \in pool'[j] <=> d \in pool[j]
        BY <1>10 DEF Unlists, Owners
    <2>2. \A d \in Conn : OwnerOf'[d] = OwnerOf[d]
        BY <1>1, <2>1, OwnerKept
    <2>3. OwnerOf' = OwnerOf
        BY <2>2 DEF OwnerFacts
    <2>4. CASE closer' = closer
        BY <2>3, <2>4
    <2>5. CASE closer' = "done" /\ \A k \in Key : pool'[k] = {}
        <3>1. \A k \in Key : \A c \in Conn : OwnerOf[c] # <<"listed", k>>
            BY <1>1, <2>1, <2>5 DEF OwnerFacts
        <3>2. \A k \in Key : Leases!ListOf(k) = {}
            BY <3>1 DEF Leases!ListOf
        <3> QED
            BY <2>3, <2>5, <3>2 DEF Leases!Sweep, Leases!Next
    <2> QED
        BY <1>10, <2>4, <2>5 DEF Unlists
<1>11. CASE Stays
    <2>1. \A d \in Conn : OwnerOf'[d] = OwnerOf[d]
        BY <1>1, <1>11, OwnerKept DEF Stays
    <2>2. OwnerOf' = OwnerOf
        BY <2>1 DEF OwnerFacts
    <2> QED
        BY <1>11, <2>2 DEF Stays
<1> QED
    BY <1>5, <1>6, <1>7, <1>8, <1>9, <1>10, <1>11 DEF Move, Leases!Next

\* The pool implements ConnectionLeases: whatever its lock, permits, clean-up
\* and close() do, a connection belongs to one client at a time or to the list
\* of one key, is closed once and for good, and is not listed after close().
THEOREM RefinesLeases == Spec => ImplementsLeases
<1>1. Init => Leases!Init
    <2> SUFFICES ASSUME Init PROVE Leases!Init
        OBVIOUS
    <2>1. PoolInv
        BY InitPool
    <2>2. OwnerFacts
        BY <2>1, PoolOwners
    <2>3. Owners = {} /\ total_created = 0 /\ closer = "idle"
        BY DEF Init, Owners, Owning
    <2>4. \A c \in Conn : c > total_created
        BY <2>3, PoolAssumption DEF Conn
    <2>5. \A c \in Conn : OwnerOf[c] = <<"none">>
        BY <2>2, <2>3, <2>4 DEF OwnerFacts
    <2>6. OwnerOf = [c \in Conn |-> <<"none">>]
        BY <2>2, <2>5 DEF OwnerFacts
    <2> QED
        BY <2>3, <2>6 DEF Leases!Init
<1>2. PoolInv => OwnerFacts
    BY PoolOwners
<1>3. PoolInv /\ PoolInv' /\ OwnerFacts /\ OwnerFacts' /\ [Next]_vars
        => [Leases!Next]_<<OwnerOf, closer = "done">>
    BY NextMoves, MoveRefines
<1> QED
    BY <1>1, <1>2, <1>3, PoolConsistent, PTL DEF Spec, ImplementsLeases, Leases!Spec

-----------------------------------------------------------------------------
(* No connection is counted twice.                                            *)

\* Tasks that are closing a connection they could not put back.
Evicting == {t \in Task : pc[t] = "evicting"}

\* Closed connections that are counted, or are going to be by whoever closed
\* them.
Counted ==
    total_closed + total_evicted + removed + Cardinality(Evicting)
      + (IF inflight = NoConn THEN 0 ELSE 1)

\* Connections that are not counted and may still be: the open ones and those
\* close() is to close, although a cancelled clean-up may have closed them.
Uncounted ==
    open \union sweep
      \union {c \in Pooled \ stale : closer \in {"idle", "await_cleanup", "wait_lock"}}

CountInv ==
    /\ Cardinality(stale \ open) <= removed
    /\ Counted + Cardinality(Uncounted) <= total_created

\* What a step does to the numbers.
CountStep ==
    \/ /\ Counted' <= Counted /\ total_created' = total_created
       /\ Uncounted' \subseteq Uncounted
    \/ /\ Counted' <= Counted + 1 /\ total_created' = total_created
       /\ \E c \in Uncounted : Uncounted' \subseteq Uncounted \ {c}
    \/ /\ Counted' = Counted /\ total_created' = total_created + 1
       /\ \E c \in Conn : Uncounted' \subseteq Uncounted \union {c}
    \/ /\ Counted' = Counted - removed /\ total_created' = total_created
       /\ Uncounted' \subseteq Uncounted \union (stale \ open)

RemovedStep ==
    \/ stale' = {}
    \/ stale' \ open' \subseteq stale \ open /\ removed' = removed
    \/ removed' = removed + 1 /\ \E c \in Conn : stale' \ open' \subseteq (stale \ open) \union {c}

CountTypes ==
    /\ IsFiniteSet(Uncounted) /\ Cardinality(Uncounted) \in Nat
    /\ IsFiniteSet(stale \ open) /\ Cardinality(stale \ open) \in Nat
    /\ IsFiniteSet(Evicting) /\ Cardinality(Evicting) \in Nat
    /\ Counted \in Nat /\ total_created \in Nat /\ removed \in Nat

LEMMA PoolCounts == PoolInv => CountTypes
<1> SUFFICES ASSUME PoolInv PROVE CountTypes
    OBVIOUS
<1>1. IsFiniteSet(Conn) /\ TypeOK
    BY FS_Interval, PoolAssumption DEF Conn, PoolInv
<1>2. Uncounted \in SUBSET Conn /\ stale \ open \in SUBSET Conn
    BY <1>1 DEF Uncounted, Pooled, TypeOK
<1>3. Evicting \in SUBSET Task
    BY DEF Evicting
<1>4. /\ IsFiniteSet(Uncounted) /\ Cardinality(Uncounted) \in Nat
      /\ IsFiniteSet(stale \ open) /\ Cardinality(stale \ open) \in Nat
    BY <1>1, <1>2, FS_Subset, FS_CardinalityType
<1>5. IsFiniteSet(Evicting) /\ Cardinality(Evicting) \in Nat
    BY <1>3, PoolAssumption, FS_Subset, FS_CardinalityType
<1>6. total_created \in Nat /\ total_closed \in Nat /\ total_evicted \in Nat /\ removed \in Nat
    BY <1>1, PoolAssumption DEF TypeOK
<1>7. Counted \in Nat
    BY <1>5, <1>6 DEF Counted
<1> QED
    BY <1>4, <1>5, <1>6, <1>7 DEF CountTypes

\* A set that gains at most the elements of another one grows by no more.
LEMMA GrowsBy ==
    ASSUME NEW S, NEW T, NEW U, IsFiniteSet(S), IsFiniteSet(T), U \subseteq S \union T
    PROVE  /\ Cardinality(S) \in Nat /\ Cardinality(T) \in Nat /\ Cardinality(U) \in Nat
           /\ Cardinality(U) <= Cardinality(S) + Cardinality(T)
<1>1. IsFiniteSet(S \union T) /\ Cardinality(S \union T) = Cardinality(S) + Cardinality(T) - Cardinality(S \intersect T)
    BY FS_Union
<1>2. IsFiniteSet(S \intersect T)
    BY FS_Intersection
<1>3. IsFiniteSet(U) /\ Cardinality(U) <= Cardinality(S \union T)
    BY <1>1, FS_Subset
<1>4. /\ Cardinality(S) \in Nat /\ Cardinality(T) \in Nat /\ Cardinality(U) \in Nat
      /\ Cardinality(S \union T) \in Nat /\ Cardinality(S \intersect T) \in Nat
    BY <1>1, <1>2, <1>3, FS_CardinalityType
<1> QED
    BY <1>1, <1>3, <1>4

LEMMA SumsStay ==
    ASSUME NEW n \in Nat, NEW u \in Nat, NEW t \in Nat, NEW r \in Nat, NEW s \in Nat,
           NEW m \in Nat, NEW v \in Nat, NEW w \in Nat, s <= r, n + u <= t,
           \/ m <= n /\ w = t /\ v <= u
           \/ m <= n + 1 /\ w = t /\ v <= u - 1
           \/ m = n /\ w = t + 1 /\ v <= u + 1
           \/ m = n - r /\ w = t /\ v <= u + s
    PROVE  m + v <= w
OBVIOUS

LEMMA CountStepInv ==
    ASSUME CountTypes, CountTypes', CountInv, CountStep, RemovedStep
    PROVE  CountInv'
<1> DEFINE u == Cardinality(Uncounted)
           s == Cardinality(stale \ open)
<1>1. /\ IsFiniteSet(Uncounted) /\ u \in Nat /\ IsFiniteSet(stale \ open) /\ s \in Nat
      /\ Counted \in Nat /\ total_created \in Nat /\ removed \in Nat
      /\ Counted' \in Nat /\ total_created' \in Nat /\ removed' \in Nat
      /\ u' \in Nat /\ s' \in Nat
      /\ s <= removed /\ Counted + u <= total_created
    BY DEF CountTypes, CountInv
<1>2. ASSUME Uncounted' \subseteq Uncounted PROVE u' <= u
    BY <1>1, <1>2, FS_Subset
<1>3. ASSUME NEW c \in Uncounted, Uncounted' \subseteq Uncounted \ {c} PROVE u' <= u - 1
    <2>1. IsFiniteSet(Uncounted \ {c}) /\ Cardinality(Uncounted \ {c}) = u - 1
        BY <1>1, FS_RemoveElement
    <2> QED
        BY <1>3, <2>1, FS_Subset
<1>4. ASSUME NEW c, Uncounted' \subseteq Uncounted \union {c} PROVE u' <= u + 1
    <2>1. IsFiniteSet({c}) /\ Cardinality({c}) = 1
        BY FS_Singleton
    <2> QED
        BY <1>1, <1>4, <2>1, GrowsBy
<1>5. ASSUME Uncounted' \subseteq Uncounted \union (stale \ open) PROVE u' <= u + s
    BY <1>1, <1>5, GrowsBy
<1>6. ASSUME stale' = {} PROVE s' = 0
    <2>1. stale' \ open' = {}
        BY <1>6
    <2> QED
        BY <2>1, FS_EmptySet
<1>7. ASSUME stale' \ open' \subseteq stale \ open PROVE s' <= s
    BY <1>1, <1>7, FS_Subset
<1>8. ASSUME NEW c, stale' \ open' \subseteq (stale \ open) \union {c} PROVE s' <= s + 1
    <2>1. IsFiniteSet({c}) /\ Cardinality({c}) = 1
        BY FS_Singleton
    <2> QED
        BY <1>1, <1>8, <2>1, GrowsBy
<1> HIDE DEF u, s
<1>9. s' <= removed'
    BY <1>1, <1>6, <1>7, <1>8 DEF RemovedStep
<1>10. \/ Counted' <= Counted /\ total_created' = total_created /\ u' <= u
       \/ Counted' <= Counted + 1 /\ total_created' = total_created /\ u' <= u - 1
       \/ Counted' = Counted /\ total_created' = total_created + 1 /\ u' <= u + 1
       \/ Counted' = Counted - removed /\ total_created' = total_created /\ u' <= u + s
    BY <1>2, <1>3, <1>4, <1>5 DEF CountStep
<1>11. Counted' + u' <= total_created'
    BY <1>1, <1>10, SumsStay
<1> QED
    BY <1>9, <1>11 DEF CountInv, u, s

\* Steps that count nothing, and steps of a task that loses its connection.
LEMMA NothingCounted ==
    ASSUME PoolInv, UNCHANGED <<total_closed, total_evicted, removed, inflight, total_created, stale>>,
           Evicting' \subseteq Evicting, Uncounted' \subseteq Uncounted,
           stale = {} \/ stale \ open' \subseteq stale \ open
    PROVE  CountStep /\ RemovedStep
<1>1. Cardinality(Evicting') <= Cardinality(Evicting) /\ Cardinality(Evicting) \in Nat /\ Cardinality(Evicting') \in Nat
    <2>1. IsFiniteSet(Evicting)
        BY PoolCounts DEF CountTypes
    <2> QED
        BY <2>1, FS_Subset, FS_CardinalityType
<1>2. total_closed \in Nat /\ total_evicted \in Nat /\ removed \in Nat
    BY DEF PoolInv, TypeOK
<1>3. Counted' <= Counted
    BY <1>1, <1>2 DEF Counted
<1> QED
    BY <1>3 DEF CountStep, RemovedStep

LEMMA UncountedShrinks ==
    ASSUME UNCHANGED <<sweep, stale, closer>>, open' \subseteq open, \A k \in Key : pool'[k] \subseteq pool[k]
    PROVE  Uncounted' \subseteq Uncounted
BY DEF Uncounted, Pooled

LEMMA LookupCounts ==
    ASSUME PoolInv, NEW t \in Task, NEW k \in Key, Lookup(t, k), pc[t] # "evicting",
           UNCHANGED <<open, total_created, total_closed, total_evicted, cleanerVars, closerVars>>
    PROVE  CountStep /\ RemovedStep
<1>1. TypeOK
    BY DEF PoolInv
<1>2. Evicting' = Evicting /\ \A j \in Key : pool'[j] \subseteq pool[j]
    BY <1>1 DEF Lookup, Reuse, Miss, Evicting, TypeOK
<1> QED
    BY <1>2, NothingCounted, UncountedShrinks

\* A task puts its connection back, or begins to close it.
LEMMA PutBackCounts ==
    ASSUME PoolInv, NEW t \in Task, PutBack(t), pc[t] \in {"using", "release"},
           UNCHANGED <<conn, statVars, cleanerVars, closerVars>>
    PROVE  CountStep /\ RemovedStep
<1>1. TypeOK /\ t \in Owners /\ conn[t] \in open /\ conn[t] \in Conn /\ key[t] \in Key
    BY DEF PoolInv, StaleInv, HasConn, Owners, Owning, TypeOK
<1>2. CASE Keep(t, key[t])
    <2>1. Evicting' = Evicting
        BY <1>1, <1>2 DEF Keep, Evicting, TypeOK
    <2>2. \A j \in Key : pool'[j] \subseteq pool[j] \union {conn[t]}
        BY <1>1, <1>2 DEF Keep, TypeOK
    <2>3. Uncounted' \subseteq Uncounted
        BY <1>1, <1>2, <2>2 DEF Keep, Uncounted, Pooled
    <2> QED
        BY <1>2, <2>1, <2>3, NothingCounted DEF Keep
<1>3. CASE Evict(t, key[t])
    <2>1. t \notin Evicting /\ Evicting' = Evicting \union {t}
        BY <1>1, <1>3 DEF Evict, Evicting, TypeOK
    <2>2. Cardinality(Evicting') = Cardinality(Evicting) + 1 /\ Cardinality(Evicting) \in Nat
        BY <2>1, PoolCounts, FS_AddElement DEF CountTypes
    <2>3. total_closed \in Nat /\ total_evicted \in Nat /\ removed \in Nat
        BY <1>1 DEF TypeOK
    <2>4. Counted' = Counted + 1
        BY <2>2, <2>3 DEF Counted
    <2>5. \A k \in Key : conn[t] \notin pool[k]
        BY <1>1 DEF PoolInv, Ownership
    <2>6. conn[t] \notin Pooled /\ conn[t] \notin sweep
        BY <2>5 DEF Pooled, PoolInv, SweepInv
    <2>7. open' = open \ {conn[t]} /\ UNCHANGED pool
        BY <1>3 DEF Evict
    <2>8. conn[t] \in Uncounted /\ Uncounted' \subseteq Uncounted \ {conn[t]}
        BY <1>1, <2>6, <2>7 DEF Uncounted, Pooled
    <2>9. \A c \in stale : c # conn[t]
        BY <2>5 DEF PoolInv, StaleInv, Stale, TypeOK
    <2>10. Counted' <= Counted + 1 /\ total_created' = total_created
        BY <2>4, PoolCounts DEF CountTypes
    <2>11. CountStep
        BY <2>8, <2>10 DEF CountStep
    <2>12. RemovedStep
        BY <2>7, <2>9 DEF RemovedStep
    <2> QED
        BY <2>11, <2>12
<1> QED
    BY <1>2, <1>3 DEF PutBack

LEMMA TaskCounts ==
    ASSUME PoolInv, NEW t \in Task, Call(t) \/ Resume(t) \/ Drop(t)
    PROVE  CountStep /\ RemovedStep
<1>1. TypeOK
    BY DEF PoolInv
<1>2. ASSUME NEW k \in Key, AcquireCall(t, k) PROVE CountStep /\ RemovedStep
    <2>1. CASE queue = <<>>
        BY <1>2, <2>1, LookupCounts DEF AcquireCall
    <2>2. CASE queue # <<>>
        <3>1. Evicting' = Evicting
            BY <1>1, <1>2, <2>2 DEF AcquireCall, Evicting, TypeOK
        <3> QED
            BY <1>2, <2>2, <3>1, NothingCounted, UncountedShrinks DEF AcquireCall
    <2> QED
        BY <2>1, <2>2
<1>3. CASE AcquireLookup(t)
    BY <1>1, <1>3, LookupCounts DEF AcquireLookup, TypeOK
<1>4. CASE TakePermit(t) \/ CreateFail(t) \/ LateCloseDone(t) \/ MarkCall(t) \/ MarkLocked(t) \/ Drop(t)
    <2>1. Evicting' \subseteq Evicting
        BY <1>1, <1>4 DEF TakePermit, CreateFail, LateCloseDone, MarkCall, MarkLocked, Drop, Evicting, TypeOK
    <2>2. UNCHANGED <<pool, open, statVars, cleanerVars, closerVars>>
        BY <1>4 DEF TakePermit, CreateFail, LateCloseDone, MarkCall, MarkLocked, Drop
    <2> QED
        BY <2>1, <2>2, NothingCounted, UncountedShrinks
<1>5. CASE CreateOk(t)
    <2>1. Evicting' = Evicting /\ total_created + 1 \in Conn
        BY <1>1, <1>5, PoolAssumption DEF CreateOk, Evicting, TypeOK, Conn
    <2>2. /\ open' = open \union {total_created + 1} /\ total_created' = total_created + 1
          /\ UNCHANGED <<pool, total_closed, total_evicted, cleanerVars, closerVars>>
        BY <1>5 DEF CreateOk
    <2>3. Counted' = Counted
        BY <2>1, <2>2 DEF Counted
    <2>4. Uncounted' \subseteq Uncounted \union {total_created + 1}
        BY <2>2 DEF Uncounted, Pooled
    <2>5. CountStep
        BY <2>1, <2>2, <2>3, <2>4 DEF CountStep
    <2>6. RemovedStep
        BY <2>2 DEF RemovedStep
    <2> QED
        BY <2>5, <2>6
<1>6. CASE ReleaseCall(t)
    <2>1. CASE queue = <<>>
        BY <1>6, <2>1, PutBackCounts DEF ReleaseCall
    <2>2. CASE queue # <<>>
        <3>1. Evicting' = Evicting
            BY <1>1, <1>6, <2>2 DEF ReleaseCall, Evicting, TypeOK
        <3> QED
            BY <1>6, <2>2, <3>1, NothingCounted, UncountedShrinks DEF ReleaseCall
    <2> QED
        BY <2>1, <2>2
<1>7. CASE ReleaseLocked(t)
    BY <1>7, PutBackCounts DEF ReleaseLocked
<1>8. CASE ReleaseLate(t)
    <2>1. Evicting' = Evicting
        BY <1>1, <1>8 DEF ReleaseLate, Evicting, TypeOK
    <2>2. \A c \in stale : c # conn[t]
        BY <1>8 DEF ReleaseLate, PoolInv, Ownership, Owners, Owning, StaleInv, Stale, TypeOK
    <2>3. stale \ open' \subseteq stale \ open
        BY <1>8, <2>2 DEF ReleaseLate
    <2> QED
        BY <1>8, <2>1, <2>3, NothingCounted, UncountedShrinks DEF ReleaseLate
<1>9. CASE EvictDone(t)
    <2>1. t \in Evicting /\ Evicting' = Evicting \ {t}
        BY <1>1, <1>9 DEF EvictDone, Evicting, TypeOK
    <2>2. Cardinality(Evicting') = Cardinality(Evicting) - 1 /\ Cardinality(Evicting) \in Nat
        BY <2>1, PoolCounts, FS_RemoveElement DEF CountTypes
    <2>3. total_closed \in Nat /\ total_evicted \in Nat /\ removed \in Nat
        BY <1>1 DEF TypeOK
    <2>4. /\ total_evicted' = total_evicted + 1
          /\ UNCHANGED <<pool, open, total_created, total_closed, cleanerVars, closerVars>>
        BY <1>9 DEF EvictDone
    <2>5. Counted' = Counted
        BY <2>2, <2>3, <2>4 DEF Counted
    <2>6. Uncounted' = Uncounted
        BY <2>4 DEF Uncounted, Pooled
    <2>7. Counted \in Nat
        BY PoolCounts DEF CountTypes
    <2> QED
        BY <2>4, <2>5, <2>6, <2>7 DEF CountStep, RemovedStep
<1> QED
    BY <1>2, <1>3, <1>4, <1>5, <1>6, <1>7, <1>8, <1>9 DEF Call, Resume, Release

\* The clean-up counts what it closed when it ends, unless it is cancelled.
LEMMA CleanCounts ==
    ASSUME PoolInv, Start \/ Clean
    PROVE  CountStep /\ RemovedStep
<1>1. TypeOK /\ CountTypes
    BY PoolCounts DEF PoolInv
<1>2. Evicting' = Evicting
    BY DEF Start, Clean, CleanerWake, CleanerLocked, CleanerScan, CleanerClose, CleanerUpdate,
           CleanerFinish, CleanerCancelled, Evicting
<1>3. /\ total_closed \in Nat /\ total_evicted \in Nat /\ removed \in Nat
      /\ Cardinality(Evicting) \in Nat /\ Counted \in Nat
    BY <1>1 DEF TypeOK, CountTypes
<1>4. CASE Start \/ CleanerWake \/ CleanerLocked
    BY <1>2, <1>4, NothingCounted, UncountedShrinks DEF Start, CleanerWake, CleanerLocked
<1>5. CASE CleanerScan \/ CleanerClose
    <2>1. closer \in {"idle", "await_cleanup"} /\ sweep = {}
        BY <1>1, <1>5 DEF CleanerScan, CleanerClose, PoolInv, CloserInv, SweepInv, TypeOK
    <2>2. UNCHANGED <<pool, sweep, closer, inflight, total_created, total_closed, total_evicted>>
        BY <1>5 DEF CleanerScan, CleanerClose
    <2>3. CASE UNCHANGED <<open, stale, removed>>
        BY <1>2, <2>2, <2>3, NothingCounted, UncountedShrinks
    <2>4. ASSUME NEW c \in open, c \in stale', open' = open \ {c}, removed' = removed + 1,
                 stale \subseteq stale', stale' \ open \subseteq stale \ open
          PROVE  CountStep /\ RemovedStep
        <3>1. Counted' = Counted + 1
            BY <1>2, <1>3, <2>2, <2>4 DEF Counted
        <3>2. c \in Uncounted /\ Uncounted' \subseteq Uncounted \ {c}
            BY <2>1, <2>2, <2>4 DEF Uncounted, Pooled
        <3>3. Counted' <= Counted + 1
            BY <1>3, <3>1
        <3>4. CountStep
            BY <2>2, <3>2, <3>3 DEF CountStep
        <3>5. stale' \ open' \subseteq (stale \ open) \union {c} /\ c \in Conn
            BY <1>1, <2>4 DEF TypeOK
        <3> QED
            BY <2>4, <3>4, <3>5 DEF RemovedStep
    <2>5. CASE CleanerScan
        <3>1. PICK k \in keysLeft :
                 /\ stale' = Stale(k)
                 /\ IF Stale(k) = {}
                      THEN UNCHANGED <<cleaner, open, removed>>
                      ELSE /\ \E c \in Stale(k) : open' = open \ {c}
                           /\ removed' = removed + 1
            BY <2>5 DEF CleanerScan
        <3>2. k \in Key /\ stale = {} /\ cleaner = "scan"
            BY <1>1, <2>5 DEF CleanerScan, PoolInv, StaleInv, TypeOK
        <3>3. Stale(k) \subseteq open
            BY <2>1, <3>2 DEF PoolInv, StaleInv, Stale
        <3> QED
            BY <2>3, <2>4, <3>1, <3>2, <3>3
    <2>6. CASE CleanerClose
        BY <2>4, <2>6 DEF CleanerClose
    <2> QED
        BY <1>5, <2>5, <2>6
<1>6. CASE CleanerUpdate
    <2>1. /\ pool' = [pool EXCEPT ![curKey] = pool[curKey] \ stale] /\ stale' = {}
          /\ UNCHANGED <<open, removed, statVars, closerVars>>
        BY <1>6 DEF CleanerUpdate
    <2>2. stale \subseteq pool[curKey] /\ curKey \in Key
        BY <1>1, <1>6 DEF CleanerUpdate, PoolInv, StaleInv, Stale, TypeOK
    <2>3. \A j \in Key : pool'[j] = pool[j] \ stale
        BY <1>1, <2>1, <2>2 DEF PoolInv, Ownership, TypeOK
    <2>4. Uncounted' \subseteq Uncounted
        BY <2>1, <2>3 DEF Uncounted, Pooled
    <2>5. Counted' = Counted
        BY <1>2, <2>1 DEF Counted
    <2>6. Counted' <= Counted
        BY <1>3, <2>5
    <2> QED
        BY <2>1, <2>4, <2>6 DEF CountStep, RemovedStep
<1>7. CASE CleanerFinish
    <2>1. /\ total_closed' = total_closed + removed /\ removed' = 0
          /\ UNCHANGED <<pool, open, stale, total_created, total_evicted, closerVars>>
        BY <1>7 DEF CleanerFinish
    <2>2. stale = {}
        BY <1>7 DEF CleanerFinish, PoolInv, StaleInv
    <2>3. Counted' = Counted
        BY <1>2, <1>3, <2>1 DEF Counted
    <2>4. Counted' <= Counted
        BY <1>3, <2>3
    <2>5. Uncounted' \subseteq Uncounted
        BY <2>1, UncountedShrinks
    <2> QED
        BY <2>1, <2>2, <2>4, <2>5 DEF CountStep, RemovedStep
<1>8. CASE CleanerCancelled
    <2>1. /\ removed' = 0 /\ stale' = {}
          /\ UNCHANGED <<pool, open, statVars, closerVars>>
        BY <1>8 DEF CleanerCancelled
    <2>2. Counted' = Counted - removed
        BY <1>2, <1>3, <2>1 DEF Counted
    <2>3. Uncounted' \subseteq Uncounted \union (stale \ open)
        BY <2>1 DEF Uncounted, Pooled
    <2> QED
        BY <2>1, <2>2, <2>3 DEF CountStep, RemovedStep
<1> QED
    BY <1>4, <1>5, <1>6, <1>7, <1>8 DEF Clean

\* close() counts one after another what it finds listed.
LEMMA CloseCounts ==
    ASSUME PoolInv, CloseCall \/ Close \/ CloseCancelled \/ Tick \/ UNCHANGED vars
    PROVE  CountStep /\ RemovedStep
<1>1. TypeOK /\ CountTypes
    BY PoolCounts DEF PoolInv
<1>2. Evicting' = Evicting
    BY DEF CloseCall, Close, CloseCleanerGone, CloseLocked, CloseConn, CloseConnDone, CloseDone,
           CloseCancelled, Tick, vars, Evicting
<1>3. /\ total_closed \in Nat /\ total_evicted \in Nat /\ removed \in Nat
      /\ Cardinality(Evicting) \in Nat /\ Counted \in Nat
    BY <1>1 DEF TypeOK, CountTypes
<1>4. CASE CloseCall \/ CloseCleanerGone \/ CloseLocked
    <2>1. UNCHANGED <<pool, open, statVars, stale, removed, inflight>>
        BY <1>4 DEF CloseCall, CloseCleanerGone, CloseLocked
    <2>2. CASE sweep' = Pooled /\ closer' = "closing"
        <3>1. closer \in {"idle", "await_cleanup", "wait_lock"}
            BY <1>4 DEF CloseCall, CloseCleanerGone, CloseLocked, PoolInv, CloserInv
        <3>2. stale = {}
            BY <1>4, <2>2 DEF CloseCall, CloseCleanerGone, CloseLocked, PoolInv, CloserInv, StaleInv
        <3>3. Uncounted' \subseteq Uncounted
            BY <2>1, <2>2, <3>1, <3>2 DEF Uncounted
        <3> QED
            BY <1>2, <2>1, <3>3, NothingCounted
    <2>3. CASE closer' \in {"await_cleanup", "wait_lock"} /\ UNCHANGED sweep
        <3>1. closer \in {"idle", "await_cleanup", "wait_lock"}
            BY <1>4 DEF CloseCall, CloseCleanerGone, CloseLocked, PoolInv, CloserInv
        <3>2. Uncounted' \subseteq Uncounted
            BY <2>1, <2>3, <3>1 DEF Uncounted, Pooled
        <3> QED
            BY <1>2, <2>1, <3>2, NothingCounted
    <2> QED
        BY <1>4, <2>2, <2>3 DEF CloseCall, CloseCleanerGone, CloseLocked, SweepOrWait
<1>5. CASE CloseConn
    <2>1. PICK c \in sweep : inflight' = c /\ sweep' = sweep \ {c} /\ open' = open \ {c}
        BY <1>5 DEF CloseConn
    <2>2. inflight = NoConn /\ closer = "closing" /\ UNCHANGED <<statVars, removed, stale, closer>>
        BY <1>5 DEF CloseConn
    <2>3. c # NoConn
        BY <1>1, <2>1, PoolAssumption DEF TypeOK, Conn
    <2>4. Counted' = Counted + 1
        BY <1>2, <1>3, <2>1, <2>2, <2>3 DEF Counted
    <2>5. Counted' <= Counted + 1
        BY <1>3, <2>4
    <2>6. c \in Uncounted /\ Uncounted' \subseteq Uncounted \ {c}
        BY <2>1, <2>2 DEF Uncounted
    <2>7. stale = {}
        BY <2>2 DEF PoolInv, CloserInv, StaleInv
    <2> QED
        BY <2>2, <2>5, <2>6, <2>7 DEF CountStep, RemovedStep
<1>6. CASE CloseConnDone
    <2>1. /\ inflight # NoConn /\ inflight' = NoConn /\ total_closed' = total_closed + 1
          /\ UNCHANGED <<pool, open, stale, removed, total_created, total_evicted, closer, sweep>>
        BY <1>6 DEF CloseConnDone
    <2>2. Counted' = Counted
        BY <1>2, <1>3, <2>1 DEF Counted
    <2>3. Counted' <= Counted
        BY <1>3, <2>2
    <2>4. Uncounted' \subseteq Uncounted
        BY <2>1, UncountedShrinks
    <2> QED
        BY <2>1, <2>3, <2>4 DEF CountStep, RemovedStep
<1>7. CASE CloseDone
    <2>1. UNCHANGED <<open, statVars, stale, removed, inflight, sweep>> /\ closer' = "done"
        BY <1>7 DEF CloseDone
    <2>2. Uncounted' \subseteq Uncounted
        BY <2>1 DEF Uncounted
    <2> QED
        BY <1>2, <2>1, <2>2, NothingCounted
<1>8. CASE CloseCancelled
    <2>1. /\ UNCHANGED <<pool, open, statVars, stale, removed>>
          /\ closer' = "aborted" /\ sweep' = {} /\ inflight' = NoConn
        BY <1>8 DEF CloseCancelled
    <2>2. Counted' <= Counted
        BY <1>2, <1>3, <2>1 DEF Counted
    <2>3. Uncounted' \subseteq Uncounted
        BY <2>1 DEF Uncounted
    <2> QED
        BY <2>1, <2>2, <2>3 DEF CountStep, RemovedStep
<1>9. CASE Tick \/ UNCHANGED vars
    BY <1>2, <1>9, NothingCounted, UncountedShrinks DEF Tick, vars
<1> QED
    BY <1>4, <1>5, <1>6, <1>7, <1>8, <1>9 DEF Close

\* total_closed and total_evicted never count a connection twice, although a
\* cancelled clean-up leaves listed, and uncounted, what it has closed, and
\* close() then closes it again and counts it (_cleanup_stale_connections, close).
THEOREM StatsHonest == Spec => []StatsNeverOvercount
<1>1. Init => CountInv
    <2> SUFFICES ASSUME Init PROVE CountInv
        OBVIOUS
    <2>1. stale \ open = {} /\ Uncounted = {} /\ Evicting = {}
        BY DEF Init, Uncounted, Pooled, Evicting
    <2>2. /\ Cardinality(stale \ open) = 0 /\ Cardinality(Uncounted) = 0
          /\ Cardinality(Evicting) = 0
        BY <2>1, FS_EmptySet
    <2>3. Counted = 0
        BY <2>2 DEF Init, Counted
    <2> QED
        BY <2>2, <2>3 DEF Init, CountInv
<1>2. PoolInv => CountTypes
    BY PoolCounts
<1>3. PoolInv /\ CountTypes /\ CountTypes' /\ CountInv /\ [Next]_vars => CountInv'
    BY TaskCounts, CleanCounts, CloseCounts, CountStepInv DEF Next
<1>4. PoolInv /\ CountTypes /\ CountInv => StatsNeverOvercount
    <2> SUFFICES ASSUME PoolInv, CountTypes, CountInv PROVE StatsNeverOvercount
        OBVIOUS
    <2>1. Cardinality(open) <= Cardinality(Uncounted) /\ Cardinality(open) \in Nat
        BY FS_Subset, FS_CardinalityType DEF CountTypes, Uncounted
    <2>2. /\ total_closed \in Nat /\ total_evicted \in Nat /\ removed \in Nat /\ total_created \in Nat
          /\ Cardinality(Evicting) \in Nat /\ Cardinality(Uncounted) \in Nat
        BY DEF PoolInv, TypeOK, CountTypes
    <2>3. total_closed + total_evicted <= Counted /\ Counted \in Nat
        BY <2>2 DEF Counted
    <2>4. Counted + Cardinality(Uncounted) <= total_created
        BY DEF CountInv
    <2> QED
        BY <2>1, <2>2, <2>3, <2>4 DEF StatsNeverOvercount
<1> QED
    BY <1>1, <1>2, <1>3, <1>4, PoolConsistent, PTL DEF Spec

=============================================================================
