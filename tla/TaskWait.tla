------------------------------ MODULE TaskWait ------------------------------
(***************************************************************************)
(* Tasks.wait_for_multiple_tasks of proxmoxer/tools/tasks.py: one          *)
(* wait_for_task per UPID under retry_async, gathered with or without      *)
(* fail_fast, while the tasks run on the server.  TaskHelper and           *)
(* FileTransfer wait in the same variables.                                *)
(*                                                                         *)
(* Time is counted in ticks; a sleep ends at its tick and a status request *)
(* takes at most MaxRequest of them.                                       *)
(***************************************************************************)
EXTENDS RetryStrategy, FiniteSets

CONSTANTS
    Upid,        \* task_ids
    BadUpid,     \* those that decode_upid may refuse
    WaitAttempts, WaitDelay,  \* max_attempts and initial_delay of its retry_async
    WaitTimeout, \* timeout of wait_for_task
    Poll,        \* polling_interval
    MaxRequest   \* bound: ticks a status request takes

ASSUME WaitAssumption ==
    /\ IsFiniteSet(Upid) /\ Upid # {}
    /\ BadUpid \subseteq Upid
    /\ WaitAttempts \in Nat \ {0} /\ WaitDelay \in 0..MaxDelay
    /\ WaitTimeout \in Nat \ {0} /\ Poll \in Nat /\ MaxRequest \in Nat
    /\ \A a \in 1..WaitAttempts : WaitDelay * (Base ^ (a - 1)) \in Nat

\* The kinds of errors of a wait, all of which its retry_async retries.  A TaskError
\* is of a task that failed, or of a UPID that cannot be decoded.
WaitError == {"TaskError", "TimeoutError", "RequestError"}

Waits ==
    INSTANCE RetryStrategy
      WITH MaxAttempts <- WaitAttempts, InitialDelay <- WaitDelay,
           Error <- WaitError, Retryable <- WaitError

VARIABLES
    caller,    \* which operation waits: "none" before it is called
    clock,
    task,      \* the server's tasks: "running", "OK" or "failed"
    wait,      \* where the wait for each task is
    round,     \* attempt of retry_async
    start,     \* start_time of the attempt
    until,     \* when its sleep ends, or its request at the latest
    seen,      \* status the server gave to the request, "none" before
    result,    \* how the wait ended
    limited,   \* whether the waits have a timeout
    fail_fast,
    bad,       \* the UPIDs given that cannot be decoded
    gather,    \* what the caller of wait_for_multiple_tasks got
    stopped    \* history: when the task stopped

waitVars == <<wait, round, start, until, seen, result>>
gatherVars == <<limited, fail_fast, bad, gather>>
taskVars == <<caller, clock, task, waitVars, gatherVars, stopped>>

FirstRound == [u \in Upid |-> 1]
Never == [u \in Upid |-> 0]
Nothing == [u \in Upid |-> "none"]

WaitInit ==
    /\ caller = "none"
    /\ clock = 0
    /\ task = [u \in Upid |-> "running"]
    /\ wait = [u \in Upid |-> "idle"]
    /\ round = FirstRound
    /\ start = Never /\ until = Never /\ stopped = Never
    /\ seen = Nothing /\ result = Nothing
    /\ limited = TRUE /\ fail_fast = FALSE /\ bad = {}
    /\ gather = "none"

-----------------------------------------------------------------------------
(* wait_for_task *)

End(u, r) ==
    /\ wait' = [wait EXCEPT ![u] = "ended"]
    /\ result' = [result EXCEPT ![u] = r]
    /\ until' = [until EXCEPT ![u] = 0]

\* The except clause of retry_async: every kind of error is retried.
Failed(u, e) ==
    \/ /\ Waits!should_retry(e, round'[u])
       /\ wait' = [wait EXCEPT ![u] = "sleeping"]
       /\ \E d \in Waits!get_delay(round'[u]) : until' = [until EXCEPT ![u] = clock + d]
       /\ UNCHANGED result
    \/ /\ ~Waits!should_retry(e, round'[u])
       /\ End(u, e)

Request(u) ==
    /\ wait' = [wait EXCEPT ![u] = "polling"]
    /\ until' = [until EXCEPT ![u] = clock + MaxRequest]
    /\ UNCHANGED result

\* The start of an attempt, up to its first request.
BeginAttempt(u) ==
    /\ start' = [start EXCEPT ![u] = clock]
    /\ \/ u \in bad /\ Failed(u, "TaskError")
       \/ u \notin bad /\ Request(u)

Begin(u) ==
    /\ wait[u] = "begin"
    /\ UNCHANGED round
    /\ BeginAttempt(u)
    /\ UNCHANGED <<caller, clock, task, seen, gatherVars, stopped>>

\* The server looks at the task.
Serve(u) ==
    /\ wait[u] = "polling" /\ seen[u] = "none"
    /\ seen' = [seen EXCEPT ![u] = task[u]]
    /\ UNCHANGED <<caller, clock, task, wait, round, start, until, result, gatherVars, stopped>>

\* mutant: whatever has stopped has gone well
StoppedIsOk(u) ==
    \/ seen[u] = "running" /\ wait' = [wait EXCEPT ![u] = "waiting"]
                           /\ until' = [until EXCEPT ![u] = clock + Poll] /\ UNCHANGED result
    \/ seen[u] \in {"OK", "failed"} /\ End(u, "OK")

\* What the loop makes of a status.
Judge(u) ==
    \/ /\ seen[u] = "running"
       /\ wait' = [wait EXCEPT ![u] = "waiting"]
       /\ until' = [until EXCEPT ![u] = clock + Poll]
       /\ UNCHANGED result
    \/ seen[u] = "OK" /\ End(u, "OK")
    \/ seen[u] = "failed" /\ Failed(u, "TaskError")

Status(u) ==
    /\ wait[u] = "polling" /\ seen[u] # "none"
    /\ seen' = [seen EXCEPT ![u] = "none"]
    /\ UNCHANGED round
    /\ Judge(u)
    /\ UNCHANGED <<caller, clock, task, start, gatherVars, stopped>>

RequestFails(u) ==
    /\ wait[u] = "polling"
    /\ seen' = [seen EXCEPT ![u] = "none"]
    /\ UNCHANGED round
    /\ Failed(u, "RequestError")
    /\ UNCHANGED <<caller, clock, task, start, gatherVars, stopped>>

\* mutant: the timeout is not looked at
NeverOverdue(u) == FALSE

\* mutant: the timeout is foreseen a poll too early
OverdueEarly(u) == clock - start[u] + Poll + MaxRequest + 1 >= WaitTimeout

Overdue(u) == clock - start[u] >= WaitTimeout

\* The sleep between two requests is over.
PollAgain(u) ==
    /\ wait[u] = "waiting" /\ clock >= until[u]
    /\ UNCHANGED round
    /\ \/ Overdue(u) /\ Failed(u, "TimeoutError")
       \/ ~Overdue(u) /\ Request(u)
    /\ UNCHANGED <<caller, clock, task, start, seen, gatherVars, stopped>>

\* The sleep between two attempts is over.
Retry(u) ==
    /\ wait[u] = "sleeping" /\ clock >= until[u]
    /\ round' = [round EXCEPT ![u] = @ + 1]
    /\ BeginAttempt(u)
    /\ UNCHANGED <<caller, clock, task, seen, gatherVars, stopped>>

-----------------------------------------------------------------------------
(* wait_for_multiple_tasks *)

\* The waits of a gather for every UPID start together.
GatherFor(who) ==
    /\ caller = "none"
    /\ caller' = who
    /\ fail_fast' \in BOOLEAN /\ bad' \in SUBSET BadUpid
    /\ gather' = "pending"
    /\ wait' = [u \in Upid |-> "begin"]
    /\ UNCHANGED <<clock, task, round, start, until, seen, result, stopped>>

wait_for_multiple_tasks == GatherFor("tools") /\ limited' = TRUE

\* mutant: a result is expected of every wait
ReturnOnlyResults ==
    /\ gather = "pending"
    /\ \A u \in Upid : result[u] = "OK"
    /\ gather' = "returned"
    /\ UNCHANGED <<caller, clock, task, waitVars, limited, fail_fast, bad, stopped>>

\* All waits are over; with fail_fast all of them succeeded.
GatherReturn ==
    /\ gather = "pending"
    /\ \A u \in Upid : wait[u] = "ended" /\ (fail_fast => result[u] = "OK")
    /\ gather' = "returned"
    /\ UNCHANGED <<caller, clock, task, waitVars, limited, fail_fast, bad, stopped>>

\* asyncio.gather without return_exceptions passes the first exception on and
\* leaves the other waits running.
GatherRaise ==
    /\ gather = "pending" /\ fail_fast
    /\ \E u \in Upid : wait[u] = "ended" /\ result[u] # "OK"
    /\ gather' = "raised"
    /\ UNCHANGED <<caller, clock, task, waitVars, limited, fail_fast, bad, stopped>>

\* The caller is cancelled while it waits for gather, which cancels every wait.
GatherCancelled ==
    /\ gather = "pending"
    /\ gather' = "cancelled"
    /\ wait' = [u \in Upid |-> "ended"]
    /\ result' = [u \in Upid |-> IF wait[u] = "ended" THEN result[u] ELSE "cancelled"]
    /\ seen' = Nothing
    /\ UNCHANGED <<caller, clock, task, round, start, until, limited, fail_fast, bad, stopped>>

-----------------------------------------------------------------------------
\* A task of the server ends; what becomes of it once its wait is over is left out.
Stop(u) ==
    /\ wait[u] \notin {"idle", "ended"} /\ task[u] = "running"
    /\ \E s \in {"OK", "failed"} : task' = [task EXCEPT ![u] = s]
    /\ stopped' = [stopped EXCEPT ![u] = clock]
    /\ UNCHANGED <<caller, clock, waitVars, gatherVars>>

Timed == {"polling", "logging", "waiting", "sleeping"}

\* A task of the loop that can go on does so before the clock does.  Waits without
\* a timeout may go on for ever: of the time only what is left of each sleep and
\* each request is kept then.
Tick ==
    /\ \E u \in Upid : wait[u] \in Timed
    /\ \A u \in Upid : /\ wait[u] # "begin"
                       /\ wait[u] \in Timed => clock < until[u]
    /\ \/ limited /\ clock' = clock + 1 /\ UNCHANGED until
       \/ /\ ~limited /\ UNCHANGED clock
          /\ until' = [u \in Upid |-> IF wait[u] \in Timed THEN until[u] - 1 ELSE until[u]]
    /\ UNCHANGED <<caller, task, wait, round, start, seen, result, gatherVars, stopped>>

wait_for_task(u) ==
    Begin(u) \/ Serve(u) \/ Status(u) \/ RequestFails(u) \/ PollAgain(u) \/ Retry(u)

WaitLoop ==
    /\ caller = "tools"
    /\ (\E u \in Upid : wait_for_task(u)) \/ GatherReturn \/ GatherRaise \/ Tick

WaitNext ==
    \/ wait_for_multiple_tasks
    \/ WaitLoop
    \/ caller = "tools" /\ ((\E u \in Upid : Stop(u)) \/ GatherCancelled)

WaitSpec == WaitInit /\ [][WaitNext]_taskVars

-----------------------------------------------------------------------------
(* Properties *)

\* What a wait reports of its task is what became of it, however the status
\* requests, their losses and the end of the task interleave; only a UPID that
\* cannot be decoded ends in the error of a failed task without one.  It gives up on
\* a task only if this was still running shortly before the timeout of the last
\* attempt was over.
ResultIsTrue ==
    caller = "tools" =>
      \A u \in Upid :
        /\ result[u] = "OK" => task[u] = "OK" /\ u \notin bad
        /\ result[u] = "TaskError" => task[u] = "failed" \/ u \in bad
        /\ result[u] = "TimeoutError" /\ task[u] # "running" =>
               stopped[u] + Poll + MaxRequest >= start[u] + WaitTimeout

\* How long a wait can take: per attempt the timeout, one poll and one request
\* more, and the delays between the attempts, also in an upload, each attempt of
\* which waits anew; in the helper, which makes one attempt and reads the log of a
\* failed task, the timeout, if it is given one, one poll and two requests.
WaitBudget ==
    \A u \in Upid :
      wait[u] \in Timed =>
        /\ caller \in {"tools", "upload"} =>
             clock <= round[u] * (WaitTimeout + Poll + MaxRequest) + Waits!MaxBackoff(round[u])
        /\ caller = "helper" /\ limited => clock <= WaitTimeout + Poll + 2 * MaxRequest

\* The caller gets an answer, and every wait comes to its end, even those that
\* fail_fast leaves behind: with a timeout even if no task of the server ever stops,
\* without one, which is what the helper does unless told otherwise, once every task
\* that is still waited for has stopped.
GatherEnds ==
    (/\ caller \in {"tools", "helper"}
     /\ limited \/ \A u \in Upid : wait[u] = "ended" \/ task[u] # "running")
    ~> (gather # "pending" /\ \A u \in Upid : wait[u] = "ended")

\* "fail_fast: If True, cancel remaining tasks if one fails" (tasks.py:238): once
\* the caller has the exception, no wait makes another request.
FailFastCancels ==
    [][gather = "raised" =>
         \A u \in Upid : wait'[u] = "polling" => wait[u] = "polling"]_taskVars

=============================================================================
