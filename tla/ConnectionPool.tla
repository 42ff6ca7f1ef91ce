--------------------------- MODULE ConnectionPool ---------------------------
(***************************************************************************)
(* The asyncio connection pool of proxmoxer/pool.py.                       *)
(*                                                                         *)
(* Client tasks acquire, release and mark connections; a background        *)
(* "cleaner" task removes stale entries; a "closer" runs close().  asyncio *)
(* switches tasks only where a coroutine waits, so one action is the code  *)
(* between two such points: waiting for the lock, for a permit, for the    *)
(* factory, for the close() of a connection, for the cleanup task.  An     *)
(* asyncio.Lock that is free and has no waiters is taken without waiting,  *)
(* and then the call and its critical section are one step.                *)
(*                                                                         *)
(* Data abstractions: a connection is the number of its creation, the list *)
(* kept per key is a set of connections whose order is that of their idle  *)
(* times (entries are appended when they are released), and idle time is   *)
(* counted in ticks up to the first value that tells nothing new.          *)
(***************************************************************************)
EXTENDS Integers, Sequences, FiniteSets, SequencesExt

CONSTANTS
    Task,              \* client tasks
    Key,               \* connection keys ("host:port:user")
    MaxConnections,    \* permits of the semaphore
    MaxKeepalive,      \* idle connections kept per key
    KeepaliveTimeout,  \* ticks an idle connection may be reused
    ClientsMayDrop,    \* whether clients are cancelled or forget to release
    MaxLeases,         \* bound: acquisitions of the whole behaviour
    NoConn             \* a task that has no connection yet

ASSUME PoolAssumption ==
    /\ MaxConnections \in Nat \ {0}
    /\ MaxKeepalive \in Nat
    /\ KeepaliveTimeout \in Nat
    /\ MaxLeases \in Nat
    /\ ClientsMayDrop \in BOOLEAN
    /\ NoConn \notin Nat
    /\ "cleaner" \notin Task /\ "closer" \notin Task
    /\ IsFiniteSet(Task)

Conn  == 1..MaxLeases
Actor == Task \union {"cleaner", "closer"}

VARIABLES
    pc,          \* where each task is in acquire / release / mark_unhealthy
    conn,        \* the connection a task holds, or held last
    key,         \* the key of that connection
    pool,        \* _connections: idle connections per key
    unhealthy,   \* pooled connections whose is_healthy is False
    idle,        \* idle_time of a pooled connection, in ticks
    queue,       \* _lock: its holder, then its waiters in FIFO order
    permits,     \* _semaphore
    closed,      \* _closed
    total_created, total_reused, total_closed, total_evicted,  \* _stats
    cleaner,     \* where _cleanup_loop is
    keysLeft, curKey, stale, removed,  \* locals of _cleanup_stale_connections
    closer,      \* where close() is
    sweep,       \* connections close() has still to close
    inflight,    \* the connection close() is closing
    open,        \* the connections that are really open
    marked,      \* history: connections mark_unhealthy was called for
    dropped,     \* history: connections whose lease ended with no release
    lost         \* history: number of permits such leases kept

taskVars    == <<pc, conn, key>>
listVars    == <<pool, unhealthy, idle>>
statVars    == <<total_created, total_reused, total_closed, total_evicted>>
cleanerVars == <<cleaner, keysLeft, curKey, stale, removed>>
closerVars  == <<closer, sweep, inflight>>
dropVars    == <<dropped, lost>>
vars == <<taskVars, listVars, queue, permits, closed, statVars, cleanerVars,
          closerVars, open, marked, dropVars>>

-----------------------------------------------------------------------------
(* Stages of the tasks *)

Acquiring == {"lookup", "wait_permit", "creating"}
Owning    == {"using", "mark_using", "release"}   \* the lease has an open connection
Leasing   == Owning \union {"creating", "evicting", "late_close"}  \* a permit is owed
InLock    == {"lookup", "release", "evicting", "mark_using", "mark_idle"}
Stage     == {"idle"} \union Acquiring \union Leasing \union InLock

Owners   == {t \in Task : pc[t] \in Owning}
Lessees  == {t \in Task : pc[t] \in Leasing}
Pooled   == UNION {pool[k] : k \in Key}

StaleUnhealthyOnly(k) == pool[k] \intersect unhealthy  \* mutant: age forgotten

Fresh(k) == {c \in pool[k] : c \notin unhealthy /\ idle[c] < KeepaliveTimeout}
Stale(k) == {c \in pool[k] : c \in unhealthy \/ idle[c] > KeepaliveTimeout}

-----------------------------------------------------------------------------
(* asyncio.Lock *)

HasLock(a) == queue # <<>> /\ Head(queue) = a

\* `async with` on a free lock goes on at once, otherwise the actor queues.
Enqueue(a) == queue' = Append(queue, a)

\* The queue after the actor that entered (at once, or at its head) leaves.
Unlock == queue' = IF queue = <<>> THEN <<>> ELSE Tail(queue)

\* The queue after the actor that entered stays inside, waiting for a close().
StayLocked(a) == queue' = IF queue = <<>> THEN <<a>> ELSE queue

\* A cancelled actor leaves the lock, or the queue before it.
LeaveQueue(a) ==
    \/ /\ a \notin Range(queue)
       /\ UNCHANGED queue
    \/ \E i \in DOMAIN queue :
          queue[i] = a /\ queue' = RemoveAt(queue, i)

-----------------------------------------------------------------------------
Init ==
    /\ pc = [t \in Task |-> "idle"]
    /\ conn = [t \in Task |-> NoConn]
    /\ key \in [Task -> Key]
    /\ pool = [k \in Key |-> {}]
    /\ unhealthy = {}
    /\ idle = [c \in Conn |-> 0]
    /\ queue = <<>>
    /\ permits = MaxConnections
    /\ closed = FALSE
    /\ total_created = 0 /\ total_reused = 0
    /\ total_closed = 0 /\ total_evicted = 0
    /\ cleaner = "off" /\ keysLeft = {} /\ curKey \in Key
    /\ stale = {} /\ removed = 0
    /\ closer = "idle" /\ sweep = {} /\ inflight = NoConn
    /\ open = {} /\ marked = {} /\ dropped = {} /\ lost = 0

-----------------------------------------------------------------------------
(* acquire *)

\* Bound: the leases granted and those under way never exceed MaxLeases.
LeaseBudget ==
    total_created + total_reused
      + Cardinality({t \in Task : pc[t] \in Acquiring}) < MaxLeases

\* mutant: the entry handed out stays in the list
ReuseWithoutPop(t, k) ==
    /\ \E c \in Fresh(k) : conn' = [conn EXCEPT ![t] = c]
    /\ pc' = [pc EXCEPT ![t] = "using"]
    /\ total_reused' = total_reused + 1
    /\ UNCHANGED <<pool, idle, permits>>

\* The oldest fresh entry is popped: no permit is taken for it.
Reuse(t, k) ==
    /\ \E c \in Fresh(k) :
          /\ \A d \in Fresh(k) : idle[d] <= idle[c]
          /\ pool' = [pool EXCEPT ![k] = @ \ {c}]
          /\ idle' = [idle EXCEPT ![c] = 0]
          /\ conn' = [conn EXCEPT ![t] = c]
    /\ pc' = [pc EXCEPT ![t] = "using"]
    /\ total_reused' = total_reused + 1
    /\ UNCHANGED permits

\* mutant: a permit is taken without waiting for one
MissWithoutWait(t, k) ==
    /\ Fresh(k) = {}
    /\ permits' = permits - 1
    /\ pc' = [pc EXCEPT ![t] = "creating"]
    /\ conn' = [conn EXCEPT ![t] = NoConn]
    /\ UNCHANGED <<pool, idle, total_reused>>

\* Nothing to reuse: outside the lock a permit is taken, or waited for.
Miss(t, k) ==
    /\ Fresh(k) = {}
    /\ IF permits > 0
         THEN /\ permits' = permits - 1
              /\ pc' = [pc EXCEPT ![t] = "creating"]
         ELSE /\ pc' = [pc EXCEPT ![t] = "wait_permit"]
              /\ UNCHANGED permits
    /\ conn' = [conn EXCEPT ![t] = NoConn]
    /\ UNCHANGED <<pool, idle, total_reused>>

Lookup(t, k) ==
    /\ Reuse(t, k) \/ Miss(t, k)
    /\ Unlock
    /\ UNCHANGED unhealthy

AcquireCall(t, k) ==
    /\ pc[t] = "idle"
    /\ ~closed
    /\ LeaseBudget
    /\ key' = [key EXCEPT ![t] = k]
    /\ IF queue = <<>>
         THEN Lookup(t, k)
         ELSE /\ Enqueue(t)
              /\ pc' = [pc EXCEPT ![t] = "lookup"]
              /\ UNCHANGED <<conn, listVars, permits, total_reused>>
    /\ UNCHANGED <<closed, total_created, total_closed, total_evicted,
                   cleanerVars, closerVars, open, marked, dropVars>>

AcquireLookup(t) ==
    /\ pc[t] = "lookup"
    /\ HasLock(t)
    /\ Lookup(t, key[t])
    /\ UNCHANGED <<key, closed, total_created, total_closed, total_evicted,
                   cleanerVars, closerVars, open, marked, dropVars>>

TakePermit(t) ==
    /\ pc[t] = "wait_permit"
    /\ permits > 0
    /\ permits' = permits - 1
    /\ pc' = [pc EXCEPT ![t] = "creating"]
    /\ UNCHANGED <<conn, key, listVars, queue, closed, statVars, cleanerVars,
                   closerVars, open, marked, dropVars>>

CreateOk(t) ==
    /\ pc[t] = "creating"
    /\ total_created < MaxLeases
    /\ total_created' = total_created + 1
    /\ conn' = [conn EXCEPT ![t] = total_created']
    /\ open' = open \union {total_created'}
    /\ pc' = [pc EXCEPT ![t] = "using"]
    /\ UNCHANGED <<key, listVars, queue, permits, closed, total_reused,
                   total_closed, total_evicted, cleanerVars, closerVars,
                   marked, dropVars>>

\* mutant: the permit is kept when the factory fails
CreateFailKeepsPermit(t) ==
    /\ pc[t] = "creating"
    /\ pc' = [pc EXCEPT ![t] = "idle"]
    /\ UNCHANGED <<conn, key, listVars, queue, permits, closed, statVars,
                   cleanerVars, closerVars, open, marked, dropVars>>

CreateFail(t) ==
    /\ pc[t] = "creating"
    /\ permits' = permits + 1
    /\ pc' = [pc EXCEPT ![t] = "idle"]
    /\ UNCHANGED <<conn, key, listVars, queue, closed, statVars, cleanerVars,
                   closerVars, open, marked, dropVars>>

-----------------------------------------------------------------------------
(* release *)

\* mutant: the list may grow one past its limit
RoomOneMore(k) == Cardinality(pool[k]) <= MaxKeepalive

Room(k) == Cardinality(pool[k]) < MaxKeepalive

\* Room in the list: the connection goes back as a new, healthy entry.
Keep(t, k) ==
    /\ Room(k)
    /\ pool' = [pool EXCEPT ![k] = @ \union {conn[t]}]
    /\ unhealthy' = unhealthy \ {conn[t]}
    /\ idle' = [idle EXCEPT ![conn[t]] = 0]
    /\ permits' = permits + 1
    /\ pc' = [pc EXCEPT ![t] = "idle"]
    /\ Unlock
    /\ UNCHANGED open

\* mutant: the connection that does not fit is forgotten, not closed
EvictForgets(t, k) ==
    /\ ~Room(k)
    /\ pc' = [pc EXCEPT ![t] = "evicting"]
    /\ StayLocked(t)
    /\ UNCHANGED <<listVars, permits, open>>

\* The list is full: the connection is closed with the lock held.
Evict(t, k) ==
    /\ ~Room(k)
    /\ open' = open \ {conn[t]}
    /\ pc' = [pc EXCEPT ![t] = "evicting"]
    /\ StayLocked(t)
    /\ UNCHANGED <<listVars, permits>>

PutBack(t) == Keep(t, key[t]) \/ Evict(t, key[t])

ReleaseCall(t) ==
    /\ pc[t] = "using"
    /\ ~closed
    /\ IF queue = <<>>
         THEN PutBack(t)
         ELSE /\ Enqueue(t)
              /\ pc' = [pc EXCEPT ![t] = "release"]
              /\ UNCHANGED <<listVars, permits, open>>
    /\ UNCHANGED <<conn, key, closed, statVars, cleanerVars, closerVars,
                   marked, dropVars>>

ReleaseLocked(t) ==
    /\ pc[t] = "release"
    /\ HasLock(t)
    /\ PutBack(t)
    /\ UNCHANGED <<conn, key, closed, statVars, cleanerVars, closerVars,
                   marked, dropVars>>

EvictDone(t) ==
    /\ pc[t] = "evicting"
    /\ HasLock(t)
    /\ total_evicted' = total_evicted + 1
    /\ Unlock
    /\ permits' = permits + 1
    /\ pc' = [pc EXCEPT ![t] = "idle"]
    /\ UNCHANGED <<conn, key, listVars, closed, total_created, total_reused,
                   total_closed, cleanerVars, closerVars, open, marked,
                   dropVars>>

\* A release after close() closes the connection and takes no lock.
ReleaseLate(t) ==
    /\ pc[t] = "using"
    /\ closed
    /\ open' = open \ {conn[t]}
    /\ pc' = [pc EXCEPT ![t] = "late_close"]
    /\ UNCHANGED <<conn, key, listVars, queue, permits, closed, statVars,
                   cleanerVars, closerVars, marked, dropVars>>

LateCloseDone(t) ==
    /\ pc[t] = "late_close"
    /\ permits' = permits + 1
    /\ pc' = [pc EXCEPT ![t] = "idle"]
    /\ UNCHANGED <<conn, key, listVars, queue, closed, statVars, cleanerVars,
                   closerVars, open, marked, dropVars>>

-----------------------------------------------------------------------------
(* mark_unhealthy: by the task that uses the connection, or that used it last *)

Mark(t) ==
    /\ unhealthy' = unhealthy \union ({conn[t]} \intersect pool[key[t]])
    /\ Unlock

MarkCall(t) ==
    /\ pc[t] \in {"using", "idle"}
    /\ conn[t] # NoConn
    /\ marked' = marked \union {conn[t]}
    /\ IF queue = <<>>
         THEN Mark(t) /\ UNCHANGED pc
         ELSE /\ Enqueue(t)
              /\ pc' = [pc EXCEPT ![t] = IF @ = "using" THEN "mark_using"
                                                        ELSE "mark_idle"]
              /\ UNCHANGED unhealthy
    /\ UNCHANGED <<conn, key, pool, idle, permits, closed, statVars,
                   cleanerVars, closerVars, open, dropVars>>

MarkLocked(t) ==
    /\ pc[t] \in {"mark_using", "mark_idle"}
    /\ HasLock(t)
    /\ Mark(t)
    /\ pc' = [pc EXCEPT ![t] = IF @ = "mark_using" THEN "using" ELSE "idle"]
    /\ UNCHANGED <<conn, key, pool, idle, permits, closed, statVars,
                   cleanerVars, closerVars, open, marked, dropVars>>

-----------------------------------------------------------------------------
(* A task is cancelled where it waits, or forgets its lease.  The lock is    *)
(* left by `async with`; the permit of a lease is given back by no handler:  *)
(* acquire catches Exception, which CancelledError is not, and release gives *)
(* it back on its last line.                                                 *)

Drop(t) ==
    /\ ClientsMayDrop
    /\ pc[t] # "idle"
    /\ LeaveQueue(t)
    /\ lost' = IF pc[t] \in Leasing THEN lost + 1 ELSE lost
    /\ dropped' = IF pc[t] \in Owning THEN dropped \union {conn[t]} ELSE dropped
    /\ pc' = [pc EXCEPT ![t] = "idle"]
    /\ UNCHANGED <<conn, key, listVars, permits, closed, statVars,
                   cleanerVars, closerVars, open, marked>>

-----------------------------------------------------------------------------
(* start and _cleanup_loop *)

Start ==
    /\ cleaner = "off"
    /\ cleaner' = IF closed THEN "done" ELSE "sleep"
    /\ UNCHANGED <<taskVars, listVars, queue, permits, closed, statVars,
                   keysLeft, curKey, stale, removed, closerVars, open,
                   marked, dropVars>>

\* cleanup_interval is over: the lock is taken or waited for.
CleanerWake ==
    /\ cleaner = "sleep"
    /\ ~closed
    /\ IF queue = <<>>
         THEN /\ cleaner' = "scan"
              /\ keysLeft' = Key
              /\ StayLocked("cleaner")
         ELSE /\ cleaner' = "wait_lock"
              /\ Enqueue("cleaner")
              /\ UNCHANGED keysLeft
    /\ UNCHANGED <<taskVars, listVars, permits, closed, statVars, curKey,
                   stale, removed, closerVars, open, marked, dropVars>>

CleanerLocked ==
    /\ cleaner = "wait_lock"
    /\ ~closed
    /\ HasLock("cleaner")
    /\ cleaner' = "scan"
    /\ keysLeft' = Key
    /\ UNCHANGED <<taskVars, listVars, queue, permits, closed, statVars,
                   curKey, stale, removed, closerVars, open, marked, dropVars>>

\* The next key: its stale connections are closed one after another.
CleanerScan ==
    /\ cleaner = "scan"
    /\ \E k \in keysLeft :
          /\ curKey' = k
          /\ keysLeft' = keysLeft \ {k}
          /\ stale' = Stale(k)
          /\ IF Stale(k) = {}
               THEN UNCHANGED <<cleaner, open, removed>>
               ELSE /\ cleaner' = "closing"
                    /\ \E c \in Stale(k) : open' = open \ {c}
                    /\ removed' = removed + 1
    /\ UNCHANGED <<taskVars, listVars, queue, permits, closed, statVars,
                   closerVars, marked, dropVars>>

CleanerClose ==
    /\ cleaner = "closing"
    /\ ~closed
    /\ \E c \in stale \intersect open : open' = open \ {c}
    /\ removed' = removed + 1
    /\ UNCHANGED <<taskVars, listVars, queue, permits, closed, statVars,
                   cleaner, keysLeft, curKey, stale, closerVars, marked,
                   dropVars>>

\* mutant: the whole list is deleted, what was to be kept too
DeleteAll(k) == {}

ToKeep(k) == pool[k] \ stale

\* The stale connections of the key are closed: only `keep` stays listed.
CleanerUpdate ==
    /\ cleaner = "closing"
    /\ ~closed
    /\ stale \intersect open = {}
    /\ pool' = [pool EXCEPT ![curKey] = ToKeep(curKey)]
    /\ unhealthy' = unhealthy \ stale
    /\ stale' = {}
    /\ cleaner' = "scan"
    /\ UNCHANGED <<taskVars, idle, queue, permits, closed, statVars,
                   keysLeft, curKey, removed, closerVars, open, marked,
                   dropVars>>

CleanerFinish ==
    /\ cleaner = "scan"
    /\ keysLeft = {}
    /\ Unlock
    /\ total_closed' = total_closed + removed
    /\ removed' = 0
    /\ cleaner' = IF closed THEN "done" ELSE "sleep"
    /\ UNCHANGED <<taskVars, listVars, permits, closed, total_created,
                   total_reused, total_evicted, keysLeft, curKey, stale,
                   closerVars, open, marked, dropVars>>

\* mutant: a cancelled clean-up still counts what it removed
CleanerCancelledCounts ==
    /\ closed
    /\ cleaner \in {"sleep", "wait_lock", "closing"}
    /\ LeaveQueue("cleaner")
    /\ cleaner' = "done"
    /\ total_closed' = total_closed + removed
    /\ stale' = {} /\ keysLeft' = {} /\ removed' = 0
    /\ UNCHANGED <<taskVars, listVars, permits, closed, total_created,
                   total_reused, total_evicted, curKey, closerVars, open,
                   marked, dropVars>>

\* close() cancelled the loop: it ends where it waits.  The list of the key it
\* was cleaning is left as it is, what it removed is not counted.
CleanerCancelled ==
    /\ closed
    /\ cleaner \in {"sleep", "wait_lock", "closing"}
    /\ LeaveQueue("cleaner")
    /\ cleaner' = "done"
    /\ stale' = {}
    /\ keysLeft' = {}
    /\ removed' = 0
    /\ UNCHANGED <<taskVars, listVars, permits, closed, statVars, curKey,
                   closerVars, open, marked, dropVars>>

-----------------------------------------------------------------------------
(* close *)

\* mutant: close() sweeps without the lock
SweepAtOnce ==
    closer' = "closing" /\ sweep' = Pooled /\ UNCHANGED queue

\* The rest of close() once the cleanup task is gone: the lock.
SweepOrWait ==
    IF queue = <<>>
      THEN closer' = "closing" /\ sweep' = Pooled /\ StayLocked("closer")
      ELSE closer' = "wait_lock" /\ Enqueue("closer") /\ UNCHANGED sweep

CloseCall ==
    /\ ~closed
    /\ closed' = TRUE
    /\ IF cleaner = "off"
         THEN SweepOrWait
         ELSE closer' = "await_cleanup" /\ UNCHANGED <<queue, sweep>>
    /\ UNCHANGED <<taskVars, listVars, permits, statVars, cleanerVars,
                   inflight, open, marked, dropVars>>

CloseCleanerGone ==
    /\ closer = "await_cleanup"
    /\ cleaner = "done"
    /\ SweepOrWait
    /\ UNCHANGED <<taskVars, listVars, permits, closed, statVars, cleanerVars,
                   inflight, open, marked, dropVars>>

CloseLocked ==
    /\ closer = "wait_lock"
    /\ HasLock("closer")
    /\ closer' = "closing"
    /\ sweep' = Pooled
    /\ UNCHANGED <<taskVars, listVars, queue, permits, closed, statVars,
                   cleanerVars, inflight, open, marked, dropVars>>

CloseConn ==
    /\ closer = "closing"
    /\ inflight = NoConn
    /\ \E c \in sweep :
          /\ inflight' = c
          /\ sweep' = sweep \ {c}
          /\ open' = open \ {c}
    /\ UNCHANGED <<taskVars, listVars, queue, permits, closed, statVars,
                   cleanerVars, closer, marked, dropVars>>

CloseConnDone ==
    /\ closer = "closing"
    /\ inflight # NoConn
    /\ total_closed' = total_closed + 1
    /\ inflight' = NoConn
    /\ UNCHANGED <<taskVars, listVars, queue, permits, closed, total_created,
                   total_reused, total_evicted, cleanerVars, closer, sweep,
                   open, marked, dropVars>>

CloseDone ==
    /\ closer = "closing"
    /\ inflight = NoConn
    /\ sweep = {}
    /\ pool' = [k \in Key |-> {}]
    /\ unhealthy' = {}
    /\ closer' = "done"
    /\ Unlock
    /\ UNCHANGED <<taskVars, idle, permits, closed, statVars, cleanerVars,
                   sweep, inflight, open, marked, dropVars>>

\* The task that runs close() is cancelled; while it waits for the cleanup
\* task it swallows the cancellation and goes on.
CloseCancelled ==
    /\ ClientsMayDrop
    /\ \/ closer = "wait_lock"
       \/ closer = "closing" /\ inflight # NoConn
    /\ LeaveQueue("closer")
    /\ closer' = "aborted"
    /\ sweep' = {}
    /\ inflight' = NoConn
    /\ UNCHANGED <<taskVars, listVars, permits, closed, statVars, cleanerVars,
                   open, marked, dropVars>>

-----------------------------------------------------------------------------
\* Time: idle_time of the pooled connections grows up to its cap.
Tick ==
    /\ idle' = [c \in Conn |-> IF c \in Pooled /\ idle[c] <= KeepaliveTimeout
                                 THEN idle[c] + 1 ELSE idle[c]]
    /\ UNCHANGED <<taskVars, pool, unhealthy, queue, permits, closed, statVars,
                   cleanerVars, closerVars, open, marked, dropVars>>

\* What a task does by itself once it has called the pool.
Resume(t) ==
    \/ AcquireLookup(t) \/ TakePermit(t) \/ CreateOk(t) \/ CreateFail(t)
    \/ ReleaseLocked(t) \/ EvictDone(t) \/ LateCloseDone(t) \/ MarkLocked(t)

Release(t) == ReleaseCall(t) \/ ReleaseLate(t)

Call(t) == (\E k \in Key : AcquireCall(t, k)) \/ Release(t) \/ MarkCall(t)

Clean == CleanerWake \/ CleanerLocked \/ CleanerScan \/ CleanerClose
           \/ CleanerUpdate \/ CleanerFinish \/ CleanerCancelled

Close == CloseCleanerGone \/ CloseLocked \/ CloseConn \/ CloseConnDone
           \/ CloseDone

Next ==
    \/ \E t \in Task : Call(t) \/ Resume(t) \/ Drop(t)
    \/ Start \/ Clean
    \/ CloseCall \/ Close \/ CloseCancelled
    \/ Tick

Spec == Init /\ [][Next]_vars

\* The event loop runs every task that can run, connections answer and time
\* passes (weak fairness); a client does not go on marking a connection for
\* ever instead of releasing it (strong: a mark takes it away from "using"), and
\* the semaphore serves its waiters in order (strong: others may come between).
Fairness ==
    /\ \A t \in Task : WF_vars(Resume(t)) /\ SF_vars(TakePermit(t)) /\ SF_vars(Release(t))
    /\ WF_vars(Clean)
    /\ WF_vars(Close)
    /\ WF_vars(Tick)

FairSpec == Spec /\ Fairness

-----------------------------------------------------------------------------
(* Properties *)

\* The type invariant of the pool and of its callers (pool.py __init__).
TypeOK ==
    /\ pc \in [Task -> Stage]
    /\ conn \in [Task -> Conn \union {NoConn}]
    /\ key \in [Task -> Key]
    /\ pool \in [Key -> SUBSET Conn]
    /\ unhealthy \subseteq Conn
    /\ idle \in [Conn -> 0..(KeepaliveTimeout + 1)]
    /\ queue \in Seq(Actor)
    /\ permits \in Nat
    /\ closed \in BOOLEAN
    /\ total_created \in 0..MaxLeases /\ total_reused \in Nat
    /\ total_closed \in Nat /\ total_evicted \in Nat
    /\ cleaner \in {"off", "sleep", "wait_lock", "scan", "closing", "done"}
    /\ keysLeft \subseteq Key /\ curKey \in Key
    /\ stale \subseteq Conn /\ removed \in Nat
    /\ closer \in {"idle", "await_cleanup", "wait_lock", "closing", "done", "aborted"}
    /\ sweep \subseteq Conn /\ inflight \in Conn \union {NoConn}
    /\ open \subseteq Conn /\ marked \subseteq Conn
    /\ dropped \subseteq Conn /\ lost \in Nat

\* No key ever has more idle connections listed than max_keepalive, however
\* releases, clean-ups and close() interleave (release, pool.py:223).
KeepaliveBound == \A k \in Key : Cardinality(pool[k]) <= MaxKeepalive

\* A connection has one owner: one task, or the list of one key
\* (acquire's pop, release's append and the retained leftovers of a cancelled
\* clean-up never give it two).
SingleOwner ==
    /\ \A t, u \in Owners : conn[t] = conn[u] => t = u
    /\ \A t \in Owners : conn[t] \notin Pooled
    /\ \A j, k \in Key : j # k => pool[j] \intersect pool[k] = {}

\* Where the permits are.  A reuse takes none and its release gives one back,
\* so the semaphore grows by one per reuse; a lease that ends without release
\* keeps one for ever.
PermitAccounting ==
    permits + Cardinality(Lessees) + lost = MaxConnections + total_reused

\* Once close() is through, nothing is listed again: a release that found the
\* pool open has the lock, or is in its queue, before close() is.
ClosedStaysEmpty == closer = "done" => Pooled = {}

\* Every open connection is somebody's: held by a task, listed, or given up
\* by a client that was cancelled or never released.
NoOrphans == open \subseteq {conn[t] : t \in Owners} \union Pooled \union dropped

\* total_closed and total_evicted count closed connections, each at most once,
\* although close() closes again what a cancelled clean-up left listed.
StatsNeverOvercount ==
    total_closed + total_evicted + Cardinality(open) <= total_created

\* max_connections is documented as "Maximum total connections" (pool.py:89)
\* and the class as "Maximum connections limit (with semaphore)" (pool.py:69).
InUseWithinMaxConnections == Cardinality(Owners) <= MaxConnections

\* An entry only leaves a list by being handed to a task or by being closed,
\* and only enters one open and healthy: nothing is forgotten by a clean-up
\* that runs while entries are released, reused and marked.
ListStep ==
    /\ \A c \in Pooled \ Pooled' :
          c \notin open' \/ \E t \in Task : pc'[t] = "using" /\ conn'[t] = c
    /\ \A c \in Pooled' \ Pooled : c \in open \ unhealthy'
ListSteps == [][ListStep]_vars

\* Every acquire and release returns if clients release what they hold, and so
\* does close(): no task keeps the lock or the cleanup task waiting for ever.
CallsReturn ==
    /\ \A t \in Task :
          pc[t] \notin {"idle", "using"} ~> pc[t] \in {"idle", "using"}
    /\ closed ~> closer \in {"done", "aborted"}

\* With the cleanup task running, a connection left in the pool past its
\* timeout is reused or closed.
StaleIsRemoved ==
    \A c \in Conn :
        (cleaner # "off" /\ c \in Pooled /\ idle[c] > KeepaliveTimeout)
            ~> (c \notin Pooled)

-----------------------------------------------------------------------------
\* The pool implements ConnectionLeases.  A task that uses a connection owns
\* it, be it open or not; one that nobody uses is closed, listed or given up.
Holder(c) == {t \in Owners : conn[t] = c}
ListedAt(c) == {k \in Key : c \in pool[k]}

OwnerOf ==
    [c \in Conn |->
        IF Holder(c) # {} THEN <<"held", CHOOSE t \in Task : t \in Holder(c)>>
        ELSE IF c > total_created THEN <<"none">>
        ELSE IF c \notin open THEN <<"closed">>
        ELSE IF ListedAt(c) # {} THEN <<"listed", CHOOSE k \in Key : k \in ListedAt(c)>>
        ELSE <<"given_up">>]

Leases == INSTANCE ConnectionLeases
            WITH owner <- OwnerOf, swept <- (closer = "done")

\* Every step of the pool is a step of ConnectionLeases or leaves it alone:
\* no interleaving hands a closed connection out, lists one twice or after the
\* sweep, or closes one that nobody owns.
ImplementsLeases == Leases!Spec

=============================================================================
