----------------------------- MODULE SSHSession -----------------------------
(***************************************************************************)
(* SSHSession.request of backends/ssh.py, under its @retry_async, as a     *)
(* client of ConnectionPool.  Every step of a request is a step of the     *)
(* pool taken by that task, or leaves the pool alone; what is new is which *)
(* calls a request makes and in what order, and that it gives a connection *)
(* back only after a command that succeeded.                               *)
(*                                                                         *)
(* A failed command, a time-out and an exception of the connection do the  *)
(* same to the state and are one action.                                   *)
(***************************************************************************)
EXTENDS ConnectionPool

CONSTANTS
    MaxAttempts,  \* max_attempts of @retry_async
    MaxRequests   \* bound: requests of the whole behaviour

\* Every attempt finds a lease left in the budget of the pool: the bound of the
\* pool never stops a request.
ASSUME SSHAssumption ==
    /\ MaxAttempts \in Nat \ {0}
    /\ MaxRequests \in Nat
    /\ ClientsMayDrop
    /\ MaxLeases >= MaxAttempts * MaxRequests

VARIABLES
    req,         \* where the request of each task is
    attempt,     \* its attempt, from 1
    requests,    \* requests started
    sessClosed,  \* _closed of the session
    ownPool      \* _own_pool: FALSE for the session of Backend, which passes a pool

sessVars == <<req, attempt, requests, sessClosed, ownPool>>
sshVars  == <<vars, sessVars>>

ReqStage == {"idle", "start", "acquire", "release", "mark", "backoff"}

SSHInit ==
    /\ Init
    /\ req = [t \in Task |-> "idle"]
    /\ attempt = [t \in Task |-> 0]
    /\ requests = 0
    /\ sessClosed = FALSE
    /\ ownPool \in BOOLEAN

To(t, stage) ==
    /\ req' = [req EXCEPT ![t] = stage]
    /\ UNCHANGED <<attempt, requests, sessClosed, ownPool>>

\* The attempt raised: retry_async sleeps before the next one, or raises.
Failed(t) == To(t, IF attempt[t] < MaxAttempts THEN "backoff" ELSE "idle")

-----------------------------------------------------------------------------
Request(t) ==
    /\ req[t] = "idle"
    /\ requests < MaxRequests
    /\ req' = [req EXCEPT ![t] = "start"]
    /\ attempt' = [attempt EXCEPT ![t] = 1]
    /\ requests' = requests + 1
    /\ UNCHANGED <<sessClosed, ownPool, vars>>

\* mutant: the attempt is not counted
BackoffUncounted(t) ==
    /\ req[t] = "backoff"
    /\ To(t, "start")
    /\ UNCHANGED vars

BackoffOver(t) ==
    /\ req[t] = "backoff"
    /\ req' = [req EXCEPT ![t] = "start"]
    /\ attempt' = [attempt EXCEPT ![t] = @ + 1]
    /\ UNCHANGED <<requests, sessClosed, ownPool, vars>>

\* "Session is closed", or the pool is: an error like any other, and retried.
StartClosed(t) ==
    /\ req[t] = "start"
    /\ sessClosed \/ closed
    /\ Failed(t)
    /\ UNCHANGED vars

StartAcquire(t) ==
    /\ req[t] = "start"
    /\ ~sessClosed
    /\ \E k \in Key : AcquireCall(t, k)
    /\ To(t, "acquire")

\* The factory failed, acquire raised.
AcquireRaised(t) ==
    /\ req[t] = "acquire"
    /\ pc[t] = "idle"
    /\ Failed(t)
    /\ UNCHANGED vars

\* The command exits with 0: the connection goes back to the pool.
CommandOk(t) ==
    /\ req[t] = "acquire"
    /\ Release(t)
    /\ To(t, "release")

Answer(t) ==
    /\ req[t] = "release"
    /\ pc[t] = "idle"
    /\ To(t, "idle")
    /\ UNCHANGED vars

\* It exits with an error, times out or raises: mark_unhealthy, no release.
CommandBad(t) ==
    /\ req[t] = "acquire"
    /\ pc[t] = "using"
    /\ MarkCall(t)
    /\ To(t, "mark")

\* mutant: the session gives a permit back itself
RaiseWithPermit(t) ==
    /\ req[t] = "mark"
    /\ pc[t] = "using"
    /\ pc' = [pc EXCEPT ![t] = "idle"]
    /\ permits' = permits + 1
    /\ dropped' = dropped \union {conn[t]}
    /\ UNCHANGED <<conn, key, listVars, queue, closed, statVars, cleanerVars,
                   closerVars, open, marked, lost>>
    /\ Failed(t)

\* The error is raised with the connection still leased.
Raise(t) ==
    /\ req[t] = "mark"
    /\ pc[t] = "using"
    /\ Drop(t)
    /\ Failed(t)

\* What the pool does next for the task.
InPool(t) ==
    /\ Resume(t)
    /\ UNCHANGED sessVars

\* Cancellation is not an Exception: no handler runs, nothing is retried.
Cancel(t) ==
    /\ req[t] # "idle"
    /\ IF pc[t] = "idle" THEN UNCHANGED vars ELSE Drop(t)
    /\ To(t, "idle")

-----------------------------------------------------------------------------
\* initialize: only a pool of its own is started.
Initialize ==
    /\ ownPool
    /\ Start
    /\ UNCHANGED sessVars

\* mutant: close() leaves the pool alone
SessionCloseOnly ==
    /\ ~sessClosed
    /\ sessClosed' = TRUE
    /\ UNCHANGED <<req, attempt, requests, ownPool, vars>>

\* close: only a pool of its own is closed.  Backend.close does no more than that
\* for the pool that it made and passed.
SessionClose ==
    /\ ~sessClosed
    /\ sessClosed' = TRUE
    /\ IF ownPool THEN CloseCall ELSE UNCHANGED vars
    /\ UNCHANGED <<req, attempt, requests, ownPool>>

PoolBackground ==
    /\ Clean \/ Close \/ CloseCancelled \/ Tick
    /\ UNCHANGED sessVars

TaskStep(t) ==
    \/ BackoffOver(t) \/ StartClosed(t) \/ StartAcquire(t) \/ AcquireRaised(t)
    \/ CommandOk(t) \/ Answer(t) \/ CommandBad(t) \/ Raise(t) \/ InPool(t)

SSHNext ==
    \/ \E t \in Task : Request(t) \/ TaskStep(t) \/ Cancel(t)
    \/ Initialize \/ SessionClose \/ PoolBackground

SSHSpec == SSHInit /\ [][SSHNext]_sshVars

\* Tasks run, commands end (wait_for bounds them), the semaphore is FIFO and the
\* background of the pool runs.
SSHFairSpec ==
    /\ SSHSpec
    /\ \A t \in Task :
          /\ WF_sshVars(TaskStep(t))
          /\ SF_sshVars(TakePermit(t) /\ UNCHANGED sessVars)
    /\ WF_sshVars(Clean /\ UNCHANGED sessVars)
    /\ WF_sshVars(Close /\ UNCHANGED sessVars)
    /\ WF_sshVars(Tick /\ UNCHANGED sessVars)

-----------------------------------------------------------------------------
(* Properties *)

\* Types of the session's own variables (SSHSession.__init__).
SSHTypeOK ==
    /\ req \in [Task -> ReqStage]
    /\ attempt \in [Task -> 0..MaxAttempts]
    /\ requests \in 0..MaxRequests
    /\ sessClosed \in BOOLEAN /\ ownPool \in BOOLEAN

\* A request uses the pool as its callers may: all that is proved of the pool
\* holds under ssh.py.
UsesPool == Spec

\* close() is through and the last request has returned.
AtRest ==
    /\ sessClosed
    /\ closer \in {"idle", "done"}
    /\ \A t \in Task : req[t] = "idle"

\* Then close() has left nothing open in a pool of its own but connections whose
\* command failed or was cancelled, and has kept away from one it was given: that
\* pool still works, and what is open in it is listed there (close, ssh.py:303).
CloseSettlesPool ==
    AtRest => IF ownPool THEN open \subseteq dropped
                         ELSE ~closed /\ open \subseteq Pooled \union dropped

\* "Close session and pool." (ssh.py:296), for ProxmoxAPI's "Close API connection
\* and cleanup resources" (core.py:455): no idle connection stays open.
ClosePoolToo == AtRest => open \intersect Pooled = {}

\* A request returns, unless failed commands have used up every permit.
RequestsReturn ==
    \A t \in Task :
        req[t] # "idle" ~> (req[t] = "idle" \/ lost >= MaxConnections)

\* ssh.py:251 "Mark connection as unhealthy if error", and mark_unhealthy's
\* "will be cleaned up" (pool.py:237): with the cleanup task running, the
\* connection is closed some day.
MarkedAreClosed ==
    \A c \in Conn : (c \in marked /\ cleaner # "off") ~> c \notin open

=============================================================================
