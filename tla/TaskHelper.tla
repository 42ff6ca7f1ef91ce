----------------------------- MODULE TaskHelper -----------------------------
(***************************************************************************)
(* TasksHelper of proxmoxer/helpers/tasks.py on the server's tasks of      *)
(* TaskWait: wait_for_tasks, a gather of one wait_for_task per UPID, and   *)
(* stream_task_log, which follows the log of one task while it grows.      *)
(*                                                                         *)
(* The waits keep their locals in the variables of TaskWait.  Unlike the   *)
(* one of the task tools a wait here is not retried, looks at its deadline *)
(* after a status, and reads the log of a task that failed.  The interval  *)
(* between the polls of the stream plays no part.                          *)
(***************************************************************************)
EXTENDS TaskWait

CONSTANTS
    Streamed,   \* the task whose log is followed
    Limit,      \* log lines per request
    MaxLines    \* bound: lines a task writes

ASSUME HelperAssumption ==
    Streamed \in Upid /\ Limit \in Nat \ {0} /\ MaxLines \in Nat

VARIABLES
    lines,      \* lines in the log of the streamed task
    stream,     \* where stream_task_log is
    running,    \* what its last status request saw
    offset,     \* its local start: the lines given to the callback
    batch       \* size of the last answer to a log request

helperVars == <<lines, stream, running, offset, batch>>

HelperInit ==
    /\ lines = 0
    /\ stream = "idle"
    /\ running = TRUE
    /\ offset = 0 /\ batch = 0

-----------------------------------------------------------------------------
(* wait_for_task and wait_for_tasks, with raise_on_error for fail_fast *)

\* The timeout is None unless it is given.
wait_for_tasks == GatherFor("helper") /\ limited' \in BOOLEAN

HelperBegin(u) ==
    /\ wait[u] = "begin"
    /\ start' = [start EXCEPT ![u] = clock]
    /\ \/ u \in bad /\ End(u, "ValueError")
       \/ u \notin bad /\ Request(u)
    /\ UNCHANGED <<caller, clock, task, round, seen, gatherVars, stopped>>

\* A task that failed has its log read, for the error.
ReadLog(u) ==
    /\ seen[u] = "failed"
    /\ wait' = [wait EXCEPT ![u] = "logging"]
    /\ until' = [until EXCEPT ![u] = clock + MaxRequest]
    /\ UNCHANGED result

Sleep(u) ==
    /\ seen[u] = "running"
    /\ wait' = [wait EXCEPT ![u] = "waiting"]
    /\ until' = [until EXCEPT ![u] = clock + Poll]
    /\ UNCHANGED result

Late(u) == limited /\ Overdue(u)

\* mutant: the deadline is looked at before the status
JudgeDeadlineFirst(u) ==
    \/ Late(u) /\ End(u, "TimeoutError")
    \/ ~Late(u) /\ ((seen[u] = "OK" /\ End(u, "OK")) \/ ReadLog(u) \/ Sleep(u))

\* What the loop makes of a status.
HelperJudge(u) ==
    \/ seen[u] = "OK" /\ End(u, "OK")
    \/ ReadLog(u)
    \/ seen[u] = "running" /\ Late(u) /\ End(u, "TimeoutError")
    \/ ~Late(u) /\ Sleep(u)

HelperStatus(u) ==
    /\ wait[u] = "polling" /\ seen[u] # "none"
    /\ seen' = [seen EXCEPT ![u] = "none"]
    /\ HelperJudge(u)
    /\ UNCHANGED <<caller, clock, task, round, start, gatherVars, stopped>>

\* Whether the log was read or not: the error with its lines is raised in the
\* try, whose except clause puts the one without lines in its place.
HelperLog(u) ==
    /\ wait[u] = "logging"
    /\ End(u, "TaskError")
    /\ UNCHANGED <<caller, clock, task, round, start, seen, gatherVars, stopped>>

HelperRequestFails(u) ==
    /\ wait[u] = "polling"
    /\ seen' = [seen EXCEPT ![u] = "none"]
    /\ End(u, "RequestError")
    /\ UNCHANGED <<caller, clock, task, round, start, gatherVars, stopped>>

HelperPollAgain(u) ==
    /\ wait[u] = "waiting" /\ clock >= until[u]
    /\ Request(u)
    /\ UNCHANGED <<caller, clock, task, round, start, seen, gatherVars, stopped>>

HelperWait(u) ==
    \/ HelperBegin(u) \/ Serve(u) \/ HelperStatus(u) \/ HelperLog(u)
    \/ HelperRequestFails(u) \/ HelperPollAgain(u)

-----------------------------------------------------------------------------
(* stream_task_log *)

stream_task_log ==
    /\ caller = "none"
    /\ caller' = "stream"
    /\ stream' = "status"
    /\ UNCHANGED <<clock, task, waitVars, gatherVars, stopped, lines, running, offset, batch>>

\* mutant: the loop keeps the status it began with
StatusOnce ==
    /\ stream = "status"
    /\ stream' = "log"
    /\ UNCHANGED <<taskVars, lines, running, offset, batch>>

\* The status, and the log request that follows it.
StreamStatus ==
    /\ stream = "status"
    /\ running' = (task[Streamed] = "running")
    /\ stream' = "log"
    /\ UNCHANGED <<taskVars, lines, offset, batch>>

\* mutant: the next request starts a page further on, however short the answer
StreamLogByPage ==
    /\ stream = "log"
    /\ batch' = IF lines - offset < Limit THEN lines - offset ELSE Limit
    /\ offset' = IF batch' > 0 THEN offset + Limit ELSE offset
    /\ stream' = IF running THEN "status" ELSE "done"
    /\ UNCHANGED <<taskVars, lines, running>>

\* The server answers with the lines from offset on, at most Limit of them; all
\* go to the callback.  The loop ends on the status it got before.
StreamLog ==
    /\ stream = "log"
    /\ batch' = IF lines - offset < Limit THEN lines - offset ELSE Limit
    /\ offset' = offset + batch'
    /\ stream' = IF running THEN "status" ELSE "done"
    /\ UNCHANGED <<taskVars, lines, running>>

\* No error is handled: the stream ends with it.
StreamFails ==
    /\ stream \in {"status", "log"}
    /\ stream' = "failed"
    /\ UNCHANGED <<taskVars, lines, running, offset, batch>>

\* The streamed task writes a line of its log.
WriteLine ==
    /\ caller = "stream"
    /\ task[Streamed] = "running" /\ lines < MaxLines
    /\ lines' = lines + 1
    /\ UNCHANGED <<taskVars, stream, running, offset, batch>>

\* The streamed task ends.
StopStreamed ==
    /\ caller = "stream"
    /\ task[Streamed] = "running"
    /\ \E s \in {"OK", "failed"} : task' = [task EXCEPT ![Streamed] = s]
    /\ UNCHANGED <<caller, clock, waitVars, gatherVars, stopped, helperVars>>

-----------------------------------------------------------------------------
HelperLoop ==
    \/ /\ caller = "helper"
       /\ (\E u \in Upid : HelperWait(u)) \/ GatherReturn \/ GatherRaise \/ Tick
       /\ UNCHANGED helperVars
    \/ StreamStatus \/ StreamLog \/ StreamFails

HelperNext ==
    \/ wait_for_tasks /\ UNCHANGED helperVars
    \/ stream_task_log
    \/ HelperLoop
    \/ caller = "helper" /\ (GatherCancelled \/ \E u \in Upid : Stop(u)) /\ UNCHANGED helperVars
    \/ WriteLine \/ StopStreamed

HelperSpec == WaitInit /\ HelperInit /\ [][HelperNext]_<<taskVars, helperVars>>

-----------------------------------------------------------------------------
(* Properties *)

\* A stream that ends by itself has passed every line of the log on, once and in
\* order (offset counts them), because it asks for the status before the log; only
\* a last answer of a full page may have left some behind.
StreamIsComplete ==
    /\ offset <= lines
    /\ stream = "done" /\ offset < lines => batch = Limit

\* What a wait returns or raises is what became of its task, and it gives up on a
\* task only if it has a deadline and the task was running until a request before
\* this at least.
HelperResultIsTrue ==
    caller = "helper" =>
      \A u \in Upid :
        /\ result[u] = "OK" => task[u] = "OK"
        /\ result[u] = "TaskError" => task[u] = "failed"
        /\ result[u] = "TimeoutError" => limited
        /\ result[u] = "TimeoutError" /\ task[u] # "running" =>
               stopped[u] + MaxRequest >= start[u] + WaitTimeout

\* Once the task has stopped, a stream of its log comes to an end.
StreamEnds ==
    (caller = "stream" /\ task[Streamed] # "running") ~> (stream \in {"done", "failed"})

=============================================================================
