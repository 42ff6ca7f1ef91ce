----------------------------- MODULE TaskProofs -----------------------------
(***************************************************************************)
(* Proofs about the waits for tasks: those of the task tools (TaskWait),   *)
(* of the task helper with its log stream (TaskHelper), and of the file    *)
(* tools (FileTransfer), for every set of tasks, timeout, interval and     *)
(* bound of a request.                                                     *)
(*                                                                         *)
(* The delays between attempts are left open: what they are matters to how *)
(* long a wait takes, not to what it reports.                              *)
(***************************************************************************)
EXTENDS TaskHelper, FileTransfer, RetryAsyncProofs

-----------------------------------------------------------------------------
(* What holds of every wait, whoever waits *)

Places == {"idle", "begin", "polling", "logging", "waiting", "sleeping", "ended"}

WaitTypes ==
    /\ clock \in Nat
    /\ task \in [Upid -> {"running", "OK", "failed"}]
    /\ wait \in [Upid -> Places]
    /\ start \in [Upid -> Nat] /\ stopped \in [Upid -> Nat]
    /\ DOMAIN until = Upid
    /\ seen \in [Upid -> {"none", "running", "OK", "failed"}]
    /\ result \in [Upid -> {"none", "OK", "cancelled", "ValueError"} \union WaitError]
    /\ limited \in BOOLEAN
    /\ caller # "helper" => limited

\* A status is of a request still out; one of a task that has stopped does not
\* change any more, and neither does what was made of it.  Nothing is asked of a task
\* whose UPID cannot be decoded.
Truthful(u) ==
    /\ seen[u] \in {"OK", "failed"} => task[u] = seen[u]
    /\ wait[u] = "logging" => task[u] = "failed"
    /\ wait[u] \in {"polling", "logging", "waiting"} => u \notin bad
    /\ result[u] = "OK" => task[u] = "OK" /\ u \notin bad
    /\ result[u] = "TaskError" => task[u] = "failed" \/ (u \in bad /\ caller # "helper")

\* How far ahead of the clock a wait's next step is, and how long ago its task can
\* have stopped without the wait knowing.
Timely(u) ==
    /\ seen[u] # "none" => wait[u] = "polling"
    /\ wait[u] \in {"polling", "logging", "waiting"} => until[u] \in Nat /\ clock <= until[u]
    /\ wait[u] = "polling" => until[u] <= clock + MaxRequest
    /\ wait[u] = "waiting" => until[u] <= clock + Poll
    /\ wait[u] = "polling" /\ seen[u] = "running" /\ task[u] # "running" =>
           until[u] <= stopped[u] + MaxRequest
    /\ wait[u] = "waiting" /\ task[u] # "running" =>
           until[u] <= stopped[u] + Poll + MaxRequest

\* Only a wait with a timeout gives up, and on a task only shortly before which it may have stopped: the
\* helper within a request of the deadline, the tools within a poll and a request.
GaveUp(u) ==
    /\ result[u] = "TimeoutError" => limited
    /\ result[u] = "TimeoutError" /\ task[u] # "running" =>
        /\ start[u] + WaitTimeout <= stopped[u] + Poll + MaxRequest
        /\ caller = "helper" => start[u] + WaitTimeout <= stopped[u] + MaxRequest

\* A wait has a result when it is over, and only then.
Concluded(u) ==
    /\ result[u] # "none" <=> wait[u] = "ended"
    /\ caller \in {"none", "stream"} => wait[u] = "idle"

WaitInv ==
    /\ WaitTypes
    /\ \A u \in Upid : Truthful(u) /\ Timely(u) /\ GaveUp(u) /\ Concluded(u)

-----------------------------------------------------------------------------
(* The steps of a wait *)

\* Nothing is called, nothing waits.
LEMMA WaitStarts == WaitInit => WaitInv
  BY WaitAssumption
  DEF WaitInit, WaitInv, WaitTypes, Places, Never, Nothing, Truthful, Timely, GaveUp,
      Concluded

\* What a step of the wait for u leaves alone.
OthersStay(u) ==
    /\ UNCHANGED <<caller, clock, task, gatherVars, stopped>>
    /\ \A v \in Upid \ {u} :
         /\ wait'[v] = wait[v] /\ seen'[v] = seen[v] /\ result'[v] = result[v]
         /\ start'[v] = start[v] /\ until'[v] = until[v]

\* What is to be shown of a step of the wait for u.
LEMMA OneWait ==
  ASSUME WaitInv, NEW u \in Upid, OthersStay(u), WaitTypes',
         Truthful(u)', Timely(u)', GaveUp(u)', Concluded(u)'
  PROVE  WaitInv'
<1> SUFFICES ASSUME NEW v \in Upid, v # u
             PROVE  Truthful(v)' /\ Timely(v)' /\ GaveUp(v)' /\ Concluded(v)'
  BY DEF WaitInv
<1> USE DEF WaitInv, OthersStay, gatherVars
<1>1. Truthful(v)'
  BY DEF Truthful
<1>2. Timely(v)'
  BY DEF Timely
<1>3. GaveUp(v)'
  BY DEF GaveUp
<1>4. Concluded(v)'
  BY DEF Concluded
<1> QED
  BY <1>1, <1>2, <1>3, <1>4

\* A wait ends with an error, or a sleep of some length begins.
LEMMA FailedEnds ==
  ASSUME WaitTypes, NEW u \in Upid, NEW e \in WaitError, Failed(u, e)
  PROVE  /\ DOMAIN until' = Upid /\ \A v \in Upid \ {u} : until'[v] = until[v]
         /\ \/ wait' = [wait EXCEPT ![u] = "ended"] /\ result' = [result EXCEPT ![u] = e]
            \/ wait' = [wait EXCEPT ![u] = "sleeping"] /\ result' = result
  BY DEF WaitTypes, Failed, End

\* The start of an attempt, of a wait that is not over.
LEMMA AttemptBegins ==
  ASSUME WaitInv, NEW u \in Upid, BeginAttempt(u), wait[u] \in {"begin", "sleeping"},
         caller # "helper",
         UNCHANGED <<caller, clock, task, seen, gatherVars, stopped>>
  PROVE  WaitInv'
<1> USE DEF gatherVars
<1>1. \/ /\ wait' = [wait EXCEPT ![u] = "ended"]
         /\ result' = [result EXCEPT ![u] = "TaskError"] /\ u \in bad
      \/ /\ wait' = [wait EXCEPT ![u] = "sleeping"] /\ result' = result
      \/ /\ wait' = [wait EXCEPT ![u] = "polling"] /\ result' = result /\ u \notin bad
         /\ until' = [until EXCEPT ![u] = clock + MaxRequest]
  BY FailedEnds DEF BeginAttempt, Request, WaitInv, WaitError
<1>2. DOMAIN until' = Upid /\ \A v \in Upid \ {u} : until'[v] = until[v]
  BY FailedEnds DEF BeginAttempt, Request, WaitInv, WaitTypes, WaitError
<1>3. start' = [start EXCEPT ![u] = clock]
  BY DEF BeginAttempt
<1>4. OthersStay(u)
  BY <1>1, <1>2, <1>3 DEF OthersStay, WaitInv, WaitTypes
<1>5. WaitTypes'
  BY <1>1, <1>2, <1>3 DEF WaitInv, WaitTypes, Places, WaitError
<1>6. Truthful(u)' /\ GaveUp(u)' /\ Concluded(u)'
  BY <1>1, <1>3 DEF WaitInv, WaitTypes, Truthful, GaveUp, Concluded
<1>7. Timely(u)'
  BY <1>1, WaitAssumption DEF WaitInv, WaitTypes, Timely
<1> QED
  BY <1>4, <1>5, <1>6, <1>7, OneWait

\* A step of a wait of the task tools.
LEMMA ToolsWait ==
  ASSUME WaitInv, NEW u \in Upid, wait_for_task(u), caller # "helper"
  PROVE  WaitInv'
<1> USE DEF gatherVars
<1>1. CASE Begin(u)
  BY <1>1, AttemptBegins DEF Begin, gatherVars
<1>2. CASE Retry(u)
  BY <1>2, AttemptBegins DEF Retry, gatherVars
<1>3. CASE Serve(u)
  <2>1. WaitTypes' /\ OthersStay(u)
    BY <1>3 DEF Serve, WaitInv, WaitTypes, OthersStay
  <2>2. Truthful(u)' /\ Timely(u)' /\ GaveUp(u)' /\ Concluded(u)'
    BY <1>3 DEF Serve, WaitInv, WaitTypes, Truthful, Timely, GaveUp, Concluded
  <2> QED
    BY <2>1, <2>2, OneWait
<1>4. ASSUME NEW e \in {"TaskError", "RequestError"}, wait[u] = "polling",
             e = "TaskError" => seen[u] = "failed",
             seen' = [seen EXCEPT ![u] = "none"], Failed(u, e),
             UNCHANGED <<caller, clock, task, start, gatherVars, stopped>>
      PROVE  WaitInv'
  <2>1. /\ DOMAIN until' = Upid /\ \A v \in Upid \ {u} : until'[v] = until[v]
        /\ \/ wait' = [wait EXCEPT ![u] = "ended"] /\ result' = [result EXCEPT ![u] = e]
           \/ wait' = [wait EXCEPT ![u] = "sleeping"] /\ result' = result
    BY <1>4, FailedEnds DEF WaitInv, WaitError
  <2>2. WaitTypes' /\ OthersStay(u)
    BY <1>4, <2>1 DEF WaitInv, WaitTypes, OthersStay, Places, WaitError
  <2>3. Truthful(u)' /\ Timely(u)' /\ GaveUp(u)' /\ Concluded(u)'
    BY <1>4, <2>1 DEF WaitInv, WaitTypes, Truthful, Timely, GaveUp, Concluded
  <2> QED
    BY <2>2, <2>3, OneWait
<1>5. CASE RequestFails(u)
  BY <1>4, <1>5 DEF RequestFails
<1>6. CASE Status(u)
  <2>1. CASE seen[u] = "failed"
    BY <1>4, <1>6, <2>1 DEF Status, Judge
  <2>2. CASE seen[u] = "OK" /\ End(u, "OK")
    <3>1. WaitTypes' /\ OthersStay(u)
      BY <1>6, <2>2 DEF Status, End, WaitInv, WaitTypes, OthersStay, Places
    <3>2. Truthful(u)' /\ Timely(u)' /\ GaveUp(u)' /\ Concluded(u)'
      BY <1>6, <2>2
      DEF Status, End, WaitInv, WaitTypes, Truthful, Timely, GaveUp, Concluded
    <3> QED
      BY <3>1, <3>2, OneWait
  <2>3. CASE /\ seen[u] = "running"
             /\ wait' = [wait EXCEPT ![u] = "waiting"]
             /\ until' = [until EXCEPT ![u] = clock + Poll] /\ UNCHANGED result
    <3>1. WaitTypes' /\ OthersStay(u)
      BY <1>6, <2>3 DEF Status, WaitInv, WaitTypes, OthersStay, Places
    <3>2. Truthful(u)' /\ GaveUp(u)' /\ Concluded(u)'
      BY <1>6, <2>3 DEF Status, WaitInv, WaitTypes, Truthful, GaveUp, Concluded
    <3>3. Timely(u)'
      BY <1>6, <2>3, WaitAssumption DEF Status, WaitInv, WaitTypes, Timely
    <3> QED
      BY <3>1, <3>2, <3>3, OneWait
  <2> QED
    BY <1>6, <2>1, <2>2, <2>3 DEF Status, Judge
<1>7. CASE PollAgain(u)
  <2>1. CASE Overdue(u) /\ Failed(u, "TimeoutError")
    <3>1. /\ DOMAIN until' = Upid /\ \A v \in Upid \ {u} : until'[v] = until[v]
          /\ \/ /\ wait' = [wait EXCEPT ![u] = "ended"]
                /\ result' = [result EXCEPT ![u] = "TimeoutError"]
             \/ wait' = [wait EXCEPT ![u] = "sleeping"] /\ result' = result
      BY <2>1, FailedEnds DEF WaitInv, WaitError
    <3>2. WaitTypes' /\ OthersStay(u)
      BY <1>7, <3>1 DEF PollAgain, WaitInv, WaitTypes, OthersStay, Places, WaitError
    <3>3. Truthful(u)' /\ Timely(u)' /\ Concluded(u)'
      BY <1>7, <3>1 DEF PollAgain, WaitInv, WaitTypes, Truthful, Timely, Concluded
    <3>4. GaveUp(u)'
      BY <1>7, <2>1, <3>1, WaitAssumption
      DEF PollAgain, Overdue, WaitInv, WaitTypes, Timely, GaveUp
    <3> QED
      BY <3>2, <3>3, <3>4, OneWait
  <2>2. CASE Request(u)
    <3>1. WaitTypes' /\ OthersStay(u)
      BY <1>7, <2>2 DEF PollAgain, Request, WaitInv, WaitTypes, OthersStay, Places
    <3>2. Truthful(u)' /\ GaveUp(u)' /\ Concluded(u)'
      BY <1>7, <2>2
      DEF PollAgain, Request, WaitInv, WaitTypes, Truthful, GaveUp, Concluded
    <3>3. Timely(u)'
      BY <1>7, <2>2, WaitAssumption DEF PollAgain, Request, WaitInv, WaitTypes, Timely
    <3> QED
      BY <3>1, <3>2, <3>3, OneWait
  <2> QED
    BY <1>7, <2>1, <2>2 DEF PollAgain
<1> QED
  BY <1>1, <1>2, <1>3, <1>5, <1>6, <1>7 DEF wait_for_task

\* A step of a wait of the task helper.
LEMMA HelperWaits ==
  ASSUME WaitInv, NEW u \in Upid, HelperWait(u)
  PROVE  WaitInv'
<1> USE DEF gatherVars
<1>1. CASE HelperBegin(u) /\ End(u, "ValueError")
  <2>1. WaitTypes' /\ OthersStay(u)
    BY <1>1 DEF HelperBegin, End, WaitInv, WaitTypes, OthersStay, Places, WaitError
  <2>2. Truthful(u)' /\ Timely(u)' /\ GaveUp(u)' /\ Concluded(u)'
    BY <1>1
    DEF HelperBegin, End, WaitInv, WaitTypes, Truthful, Timely, GaveUp, Concluded
  <2> QED
    BY <2>1, <2>2, OneWait
<1>2. CASE (HelperBegin(u) \/ HelperPollAgain(u)) /\ u \notin bad /\ Request(u)
  <2>1. WaitTypes' /\ OthersStay(u)
    BY <1>2 DEF HelperBegin, HelperPollAgain, Request, WaitInv, WaitTypes, OthersStay, Places
  <2>2. Truthful(u)' /\ GaveUp(u)' /\ Concluded(u)'
    BY <1>2
    DEF HelperBegin, HelperPollAgain, Request, WaitInv, WaitTypes, Truthful, GaveUp,
        Concluded
  <2>3. Timely(u)'
    BY <1>2, WaitAssumption
    DEF HelperBegin, HelperPollAgain, Request, WaitInv, WaitTypes, Timely
  <2> QED
    BY <2>1, <2>2, <2>3, OneWait
<1>3. CASE Serve(u)
  <2>1. WaitTypes' /\ OthersStay(u)
    BY <1>3 DEF Serve, WaitInv, WaitTypes, OthersStay
  <2>2. Truthful(u)' /\ Timely(u)' /\ GaveUp(u)' /\ Concluded(u)'
    BY <1>3 DEF Serve, WaitInv, WaitTypes, Truthful, Timely, GaveUp, Concluded
  <2> QED
    BY <2>1, <2>2, OneWait
<1>4. ASSUME NEW r \in {"OK", "TaskError", "RequestError"},
             wait[u] \in {"polling", "logging"}, End(u, r),
             r = "OK" => seen[u] = "OK", r = "TaskError" => wait[u] = "logging",
             seen' = [seen EXCEPT ![u] = "none"],
             UNCHANGED <<caller, clock, task, start, gatherVars, stopped>>
      PROVE  WaitInv'
  <2>1. WaitTypes' /\ OthersStay(u)
    BY <1>4 DEF End, WaitInv, WaitTypes, OthersStay, Places, WaitError
  <2>2. Truthful(u)' /\ Timely(u)' /\ GaveUp(u)' /\ Concluded(u)'
    BY <1>4 DEF End, WaitInv, WaitTypes, Truthful, Timely, GaveUp, Concluded
  <2> QED
    BY <2>1, <2>2, OneWait
<1>5. CASE HelperRequestFails(u)
  BY <1>4, <1>5 DEF HelperRequestFails
<1>6. CASE HelperLog(u)
  <2>1. seen[u] = "none"
    BY <1>6 DEF HelperLog, WaitInv, WaitTypes, Timely
  <2>2. seen' = [seen EXCEPT ![u] = "none"]
    BY <1>6, <2>1 DEF HelperLog, WaitInv, WaitTypes
  <2> QED
    BY <1>4, <1>6, <2>2 DEF HelperLog
<1>7. CASE HelperStatus(u) /\ seen[u] = "OK" /\ End(u, "OK")
  BY <1>4, <1>7 DEF HelperStatus
<1>8. CASE HelperStatus(u) /\ ReadLog(u)
  <2>1. WaitTypes' /\ OthersStay(u)
    BY <1>8 DEF HelperStatus, ReadLog, WaitInv, WaitTypes, OthersStay, Places
  <2>2. Truthful(u)' /\ GaveUp(u)' /\ Concluded(u)'
    BY <1>8
    DEF HelperStatus, ReadLog, WaitInv, WaitTypes, Truthful, GaveUp, Concluded
  <2>3. Timely(u)'
    BY <1>8, WaitAssumption DEF HelperStatus, ReadLog, WaitInv, WaitTypes, Timely
  <2> QED
    BY <2>1, <2>2, <2>3, OneWait
<1>9. CASE HelperStatus(u) /\ Sleep(u)
  <2>1. WaitTypes' /\ OthersStay(u)
    BY <1>9 DEF HelperStatus, Sleep, WaitInv, WaitTypes, OthersStay, Places
  <2>2. Truthful(u)' /\ GaveUp(u)' /\ Concluded(u)'
    BY <1>9 DEF HelperStatus, Sleep, WaitInv, WaitTypes, Truthful, GaveUp, Concluded
  <2>3. Timely(u)'
    BY <1>9, WaitAssumption DEF HelperStatus, Sleep, WaitInv, WaitTypes, Timely
  <2> QED
    BY <2>1, <2>2, <2>3, OneWait
<1>10. CASE HelperStatus(u) /\ seen[u] = "running" /\ Late(u) /\ End(u, "TimeoutError")
  <2>1. WaitTypes' /\ OthersStay(u)
    BY <1>10 DEF HelperStatus, End, WaitInv, WaitTypes, OthersStay, Places, WaitError
  <2>2. Truthful(u)' /\ Timely(u)' /\ Concluded(u)'
    BY <1>10 DEF HelperStatus, End, WaitInv, WaitTypes, Truthful, Timely, Concluded
  <2>3. GaveUp(u)'
    BY <1>10, WaitAssumption
    DEF HelperStatus, End, Late, Overdue, WaitInv, WaitTypes, Timely, GaveUp
  <2> QED
    BY <2>1, <2>2, <2>3, OneWait
<1>11. HelperPollAgain(u) => u \notin bad
  BY DEF HelperPollAgain, WaitInv, Truthful
<1> QED
  BY <1>1, <1>2, <1>3, <1>5, <1>6, <1>7, <1>8, <1>9, <1>10, <1>11
  DEF HelperWait, HelperBegin, HelperStatus, HelperJudge, HelperPollAgain

-----------------------------------------------------------------------------
(* The steps of a gather, of the server and of the clock *)

\* The waits of a gather begin.
LEMMA GatherBegins ==
  ASSUME WaitInv, NEW who \in {"tools", "helper"}, GatherFor(who),
         limited' \in BOOLEAN, who = "tools" => limited'
  PROVE  WaitInv'
  BY DEF GatherFor, WaitInv, WaitTypes, Places, Truthful, Timely, GaveUp, Concluded

\* A gather returns, raises or is cancelled.
LEMMA GatherOver ==
  ASSUME WaitInv, GatherReturn \/ GatherRaise \/ GatherCancelled, caller \in {"tools", "helper"}
  PROVE  WaitInv'
<1>1. CASE GatherReturn
  BY <1>1
  DEF GatherReturn, waitVars, WaitInv, WaitTypes, Truthful, Timely, GaveUp, Concluded
<1>2. CASE GatherRaise
  BY <1>2
  DEF GatherRaise, waitVars, WaitInv, WaitTypes, Truthful, Timely, GaveUp, Concluded
<1>3. CASE GatherCancelled
  <2>1. WaitTypes'
    BY <1>3 DEF GatherCancelled, Nothing, WaitInv, WaitTypes, Places
  <2>2. ASSUME NEW v \in Upid
        PROVE  Truthful(v)' /\ Timely(v)' /\ GaveUp(v)' /\ Concluded(v)'
    BY <1>3
    DEF GatherCancelled, Nothing, WaitInv, WaitTypes, Truthful, Timely, GaveUp, Concluded
  <2> QED
    BY <2>1, <2>2 DEF WaitInv
<1> QED
  BY <1>1, <1>2, <1>3

\* A task stops while it is waited for.
LEMMA TaskStops ==
  ASSUME WaitInv, NEW u \in Upid, Stop(u)
  PROVE  WaitInv'
<1> PICK s \in {"OK", "failed"} : task' = [task EXCEPT ![u] = s]
  BY DEF Stop
<1>1. WaitTypes'
  BY DEF Stop, waitVars, gatherVars, WaitInv, WaitTypes
<1>2. ASSUME NEW v \in Upid
      PROVE  Truthful(v)' /\ GaveUp(v)' /\ Concluded(v)'
  BY DEF Stop, waitVars, gatherVars, WaitInv, WaitTypes, Truthful, GaveUp, Concluded
<1>3. ASSUME NEW v \in Upid
      PROVE  Timely(v)'
  BY WaitAssumption DEF Stop, waitVars, gatherVars, WaitInv, WaitTypes, Timely
<1> QED
  BY <1>1, <1>2, <1>3 DEF WaitInv

\* The clock ticks, which it does only while every sleep and request is under way.
LEMMA ClockTicks ==
  ASSUME WaitInv, Tick
  PROVE  WaitInv'
<1>1. WaitTypes'
  BY DEF Tick, waitVars, gatherVars, WaitInv, WaitTypes
<1>2. ASSUME NEW v \in Upid
      PROVE  Truthful(v)' /\ GaveUp(v)' /\ Concluded(v)'
  BY DEF Tick, waitVars, gatherVars, WaitInv, WaitTypes, Truthful, GaveUp, Concluded
<1>3. ASSUME NEW v \in Upid
      PROVE  Timely(v)'
  BY WaitAssumption DEF Tick, Timed, waitVars, gatherVars, WaitInv, WaitTypes, Timely
<1> QED
  BY <1>1, <1>2, <1>3 DEF WaitInv

\* Nothing of a wait changes.
LEMMA NoWaitMoves == WaitInv /\ UNCHANGED taskVars => WaitInv'
  BY DEF taskVars, waitVars, gatherVars, WaitInv, WaitTypes, Truthful, Timely, GaveUp,
         Concluded

-----------------------------------------------------------------------------
(* The task tools *)

\* Every step of the task tools keeps the invariant of the waits.
LEMMA ToolsStep == WaitInv /\ [WaitNext]_taskVars => WaitInv'
<1> SUFFICES ASSUME WaitInv, [WaitNext]_taskVars PROVE WaitInv'
  OBVIOUS
<1>1. CASE wait_for_multiple_tasks
  BY <1>1, GatherBegins DEF wait_for_multiple_tasks
<1>2. CASE WaitLoop
  BY <1>2, ToolsWait, GatherOver, ClockTicks DEF WaitLoop
<1>3. ASSUME caller = "tools", (\E u \in Upid : Stop(u)) \/ GatherCancelled
      PROVE  WaitInv'
  BY <1>3, TaskStops, GatherOver
<1>4. CASE UNCHANGED taskVars
  BY <1>4, NoWaitMoves
<1> QED
  BY <1>1, <1>2, <1>3, <1>4 DEF WaitNext

\* The invariant of the waits holds in every reachable state of the task tools.
THEOREM WaitsHonest == WaitSpec => []WaitInv
  BY WaitStarts, ToolsStep, PTL DEF WaitSpec

\* What a wait of the task tools reports of its task is what became of it, and it
\* gives up on a task only if this still ran within a poll and a request of the
\* timeout: for any number of tasks, whatever stops, fails or is retried meanwhile.
THEOREM WaitsReportTheTruth == WaitSpec => []ResultIsTrue
<1>1. WaitInv => ResultIsTrue
  BY WaitAssumption DEF WaitInv, WaitTypes, Truthful, GaveUp, ResultIsTrue
<1> QED
  BY <1>1, WaitsHonest, PTL

-----------------------------------------------------------------------------
(* The task helper *)

\* The stream has passed on no line that was not written; a status that said the
\* task is over was true, and the last answer came after it.
StreamInv ==
    /\ lines \in Nat /\ offset \in Nat /\ offset <= lines
    /\ stream \in {"idle", "status", "log", "done", "failed"}
    /\ stream # "idle" => caller = "stream"
    /\ stream \in {"log", "done"} /\ ~running => task[Streamed] # "running"
    /\ stream = "done" => ~running /\ (offset < lines => batch = Limit)

HelperInv == WaitInv /\ StreamInv

\* No wait is called and no stream runs at first.
LEMMA HelperStarts == WaitInit /\ HelperInit => HelperInv
  BY WaitStarts DEF HelperInit, HelperInv, StreamInv

\* A stopped task stays stopped, whatever the waits and the gather do.
LEMMA StreamUntouched ==
  ASSUME StreamInv, UNCHANGED helperVars, stream = "idle" \/ UNCHANGED caller,
         task[Streamed] # "running" => task'[Streamed] # "running"
  PROVE  StreamInv'
  BY DEF StreamInv, helperVars

\* A step of the stream itself, which no wait takes part in.
LEMMA StreamMoves ==
  ASSUME HelperInv, StreamStatus \/ StreamLog \/ StreamFails \/ WriteLine
  PROVE  HelperInv'
<1> USE HelperAssumption
<1>1. WaitInv'
  BY NoWaitMoves DEF HelperInv, StreamStatus, StreamLog, StreamFails, WriteLine
<1>2. CASE StreamStatus
  BY <1>1, <1>2 DEF StreamStatus, taskVars, HelperInv, StreamInv
<1>3. CASE StreamLog
  BY <1>1, <1>3 DEF StreamLog, taskVars, HelperInv, StreamInv
<1>4. CASE StreamFails
  BY <1>1, <1>4 DEF StreamFails, taskVars, HelperInv, StreamInv
<1>5. CASE WriteLine
  BY <1>1, <1>5 DEF WriteLine, taskVars, HelperInv, StreamInv
<1> QED
  BY <1>2, <1>3, <1>4, <1>5

\* The stream is called, and its task ends.
LEMMA StreamedTask ==
  ASSUME HelperInv, stream_task_log \/ StopStreamed
  PROVE  HelperInv'
<1> USE HelperAssumption DEF waitVars, gatherVars
<1>1. CASE stream_task_log
  <2>1. WaitInv'
    BY <1>1
    DEF stream_task_log, HelperInv, WaitInv, WaitTypes, Truthful, Timely, GaveUp, Concluded
  <2> QED
    BY <1>1, <2>1 DEF stream_task_log, HelperInv, StreamInv
<1>2. CASE StopStreamed
  <2> PICK s \in {"OK", "failed"} : task' = [task EXCEPT ![Streamed] = s]
    BY <1>2 DEF StopStreamed
  <2>1. \A u \in Upid : wait[u] = "idle" /\ seen[u] = "none" /\ result[u] = "none"
    BY <1>2 DEF StopStreamed, HelperInv, WaitInv, WaitTypes, Timely, Concluded
  <2>2. WaitTypes'
    BY <1>2 DEF StopStreamed, HelperInv, WaitInv, WaitTypes
  <2>3. ASSUME NEW v \in Upid
        PROVE  Truthful(v)' /\ Timely(v)' /\ GaveUp(v)' /\ Concluded(v)'
    BY <1>2, <2>1
    DEF StopStreamed, HelperInv, WaitInv, Truthful, Timely, GaveUp, Concluded
  <2>4. StreamInv'
    BY <1>2 DEF StopStreamed, HelperInv, WaitInv, WaitTypes, StreamInv, helperVars
  <2> QED
    BY <2>2, <2>3, <2>4 DEF HelperInv, WaitInv
<1> QED
  BY <1>1, <1>2

\* Every step of the helper keeps the invariants of its waits and its stream.
LEMMA HelperStep == HelperInv /\ [HelperNext]_<<taskVars, helperVars>> => HelperInv'
<1> SUFFICES ASSUME HelperInv, [HelperNext]_<<taskVars, helperVars>> PROVE HelperInv'
  OBVIOUS
<1>1. CASE wait_for_tasks /\ UNCHANGED helperVars
  <2>1. WaitInv'
    BY <1>1, GatherBegins DEF wait_for_tasks, HelperInv
  <2>2. StreamInv'
    BY <1>1, StreamUntouched DEF wait_for_tasks, GatherFor, HelperInv, StreamInv
  <2> QED
    BY <2>1, <2>2 DEF HelperInv
<1>2. ASSUME caller = "helper", UNCHANGED helperVars, UNCHANGED <<caller, task>>, WaitInv'
      PROVE  HelperInv'
  BY <1>2, StreamUntouched DEF HelperInv
<1>3. ASSUME caller = "helper", UNCHANGED helperVars, NEW u \in Upid, HelperWait(u)
      PROVE  HelperInv'
  <2>1. UNCHANGED <<caller, task>>
    BY <1>3 DEF HelperWait, HelperBegin, Serve, HelperStatus, HelperLog,
                HelperRequestFails, HelperPollAgain
  <2> QED
    BY <1>2, <1>3, <2>1, HelperWaits DEF HelperInv
<1>4. ASSUME caller = "helper", UNCHANGED helperVars,
             GatherReturn \/ GatherRaise \/ GatherCancelled \/ Tick
      PROVE  HelperInv'
  <2>1. UNCHANGED <<caller, task>>
    BY <1>4 DEF GatherReturn, GatherRaise, GatherCancelled, Tick
  <2>2. WaitInv'
    BY <1>4, GatherOver, ClockTicks DEF HelperInv
  <2> QED
    BY <1>2, <1>4, <2>1, <2>2
<1>5. ASSUME caller = "helper", UNCHANGED helperVars, NEW u \in Upid, Stop(u)
      PROVE  HelperInv'
  <2>1. WaitInv'
    BY <1>5, TaskStops DEF HelperInv
  <2>2. UNCHANGED caller /\ (task[Streamed] # "running" => task'[Streamed] # "running")
    BY <1>5, HelperAssumption DEF Stop, HelperInv, WaitInv, WaitTypes
  <2> QED
    BY <1>5, <2>1, <2>2, StreamUntouched DEF HelperInv
<1>6. CASE UNCHANGED <<taskVars, helperVars>>
  BY <1>6, NoWaitMoves, StreamUntouched DEF HelperInv, taskVars
<1> QED
  BY <1>1, <1>3, <1>4, <1>5, <1>6, StreamMoves, StreamedTask DEF HelperNext, HelperLoop

\* The invariants of the waits and of the stream hold in every reachable state.
THEOREM HelperHonest == HelperSpec => []HelperInv
  BY HelperStarts, HelperStep, PTL DEF HelperSpec

\* What a wait of the helper returns or raises is what became of its task, and it
\* gives up on a task only if this still ran within a request of the deadline.
THEOREM HelperReportsTheTruth == HelperSpec => []HelperResultIsTrue
<1>1. HelperInv => HelperResultIsTrue
  BY WaitAssumption
  DEF HelperInv, WaitInv, WaitTypes, Truthful, GaveUp, HelperResultIsTrue
<1> QED
  BY <1>1, HelperHonest, PTL

\* A stream that ends by itself has passed on every line of the log, once, unless
\* its last answer was a full page.
THEOREM StreamPassesAllOn == HelperSpec => []StreamIsComplete
<1>1. HelperInv => StreamIsComplete
  BY DEF HelperInv, StreamInv, StreamIsComplete
<1> QED
  BY <1>1, HelperHonest, PTL

-----------------------------------------------------------------------------
(* Transfers of the file tools *)

Contents == {"old", "new", "torn"}

TransferTypes ==
    /\ WaitTypes
    /\ caller \in {"none", "upload", "download"}
    /\ file \in {"old", "new", "none"}
    /\ body \in [Upid -> [checksum : Contents \union {"none", "listed"}, content : Contents \union {"none"}]]
    /\ caller = "none" => body = [u \in Upid |-> NoBody] /\ stored = "none" /\ transfer = "idle"
    /\ verify = "computed" => caller \notin {"none", "download"}
    /\ transfer \in {"head", "discover"} => caller = "download"

\* What is in the hands of an attempt between its two readings of the file, which
\* is written over at most once: a content that is not the old one shows that the
\* file has changed before, so a content torn by the second reading comes with the
\* checksum of the old one.
ReadTwice ==
    /\ checksum \in Contents \union {"none", "listed"}
    /\ file_content \in Contents \union {"none"}
    /\ transfer = "hashing" => checksum = "old" \/ (checksum = "new" /\ file = "new")
    /\ transfer = "reading" => file_content = "old" \/ (file_content = "new" /\ file = "new")
    /\ transfer = "post" /\ caller = "upload" => file_content # "none"
    /\ verify = "computed" =>
         /\ transfer \in {"read", "reading", "post"} => checksum = "old" \/ file # "old"
         /\ transfer = "reading" /\ file_content = "old" => checksum = "old"
         /\ transfer = "post" /\ file_content = "torn" => checksum = "old"

\* What the requests carried, and what their tasks made of it.
Carried ==
    /\ verify = "computed" =>
         /\ \A u \in Upid : body[u].content = "torn" => body[u].checksum = "old"
         /\ stored # "torn"
    /\ \A u \in Upid : task[u] = "OK" =>
         /\ body[u] # NoBody
         /\ \E v \in Upid : task[v] = "OK" /\ stored = body[v].content
    /\ transfer \in {"wait", "get", "OK", "status"} =>
         upid \in Upid /\ body[upid] # NoBody /\ body[upid].content = file_content
    /\ transfer = "OK" => task[upid] = "OK"

TransferInv ==
    /\ TransferTypes
    /\ \A u \in Upid : Truthful(u)
    /\ ReadTwice
    /\ Carried

\* No transfer is called at first.
LEMMA TransferStarts == WaitInit /\ TransferInit => TransferInv
<1> SUFFICES ASSUME WaitInit, TransferInit PROVE TransferInv
  OBVIOUS
<1>1. WaitTypes /\ \A u \in Upid : Truthful(u)
  BY WaitStarts DEF WaitInv
<1> QED
  BY <1>1
  DEF WaitInit, TransferInit, NoBody, TransferInv, TransferTypes, ReadTwice, Carried, Contents

\* A step of a wait keeps its types and the truth of what it reports, also where
\* nothing is said of the clock.
LEMMA WaitTold ==
  ASSUME WaitTypes, \A v \in Upid : Truthful(v), NEW u \in Upid, wait_for_task(u),
         caller # "helper"
  PROVE  WaitTypes' /\ \A v \in Upid : Truthful(v)'
<1> USE DEF gatherVars
<1>1. ASSUME NEW e \in WaitError, Failed(u, e), e = "TaskError" => task[u] = "failed" \/ (u \in bad /\ caller # "helper"),
             UNCHANGED <<clock, task, stopped, bad, limited, caller>>,
             seen' = seen \/ seen' = [seen EXCEPT ![u] = "none"],
             start' = start \/ start' = [start EXCEPT ![u] = clock]
      PROVE  WaitTypes' /\ \A v \in Upid : Truthful(v)'
  <2>1. /\ DOMAIN until' = Upid
        /\ \/ wait' = [wait EXCEPT ![u] = "ended"] /\ result' = [result EXCEPT ![u] = e]
           \/ wait' = [wait EXCEPT ![u] = "sleeping"] /\ result' = result
    BY <1>1, FailedEnds
  <2>2. WaitTypes'
    BY <1>1, <2>1 DEF WaitTypes, Places
  <2>3. ASSUME NEW v \in Upid PROVE Truthful(v)'
    BY <1>1, <2>1 DEF WaitTypes, Truthful, WaitError
  <2> QED
    BY <2>2, <2>3
<1>2. ASSUME Request(u), UNCHANGED <<clock, task, stopped, seen, bad, limited, caller>>, u \notin bad,
             start' = start \/ start' = [start EXCEPT ![u] = clock]
      PROVE  WaitTypes' /\ \A v \in Upid : Truthful(v)'
  BY <1>2 DEF Request, WaitTypes, Places, Truthful
<1>3. ASSUME BeginAttempt(u), UNCHANGED <<clock, task, stopped, seen, bad, limited, caller>>
      PROVE  WaitTypes' /\ \A v \in Upid : Truthful(v)'
  BY <1>1, <1>2, <1>3 DEF BeginAttempt, WaitError
<1>4. CASE Begin(u) \/ Retry(u)
  BY <1>3, <1>4 DEF Begin, Retry
<1>5. CASE Serve(u)
  BY <1>5 DEF Serve, WaitTypes, Truthful
<1>6. CASE RequestFails(u)
  BY <1>1, <1>6 DEF RequestFails, WaitError
<1>7. CASE PollAgain(u)
  <2>1. u \notin bad
    BY <1>7 DEF PollAgain, Truthful
  <2> QED
    BY <1>1, <1>2, <1>7, <2>1 DEF PollAgain, WaitError
<1>8. CASE Status(u) /\ seen[u] = "failed" /\ Failed(u, "TaskError")
  BY <1>1, <1>8 DEF Status, WaitError, Truthful
<1>9. CASE Status(u) /\ seen[u] = "OK" /\ End(u, "OK")
  BY <1>9 DEF Status, End, WaitTypes, Places, Truthful
<1>10. CASE /\ Status(u)
            /\ wait' = [wait EXCEPT ![u] = "waiting"]
            /\ until' = [until EXCEPT ![u] = clock + Poll] /\ UNCHANGED result
  BY <1>10 DEF Status, WaitTypes, Places, Truthful
<1> QED
  BY <1>4, <1>5, <1>6, <1>7, <1>8, <1>9, <1>10 DEF wait_for_task, Status, Judge

\* A step of the transfer that leaves its waits and the server alone.
LEMMA Unsent ==
  ASSUME TransferInv, UNCHANGED <<taskVars, verify, body, stored, upid>>,
         transfer' \notin {"wait", "get", "OK", "status"} \/
           (UNCHANGED file_content /\ transfer \in {"wait", "get", "OK", "status"} /\
              (transfer' = "OK" => task[upid] = "OK"))
  PROVE  Carried' /\ WaitTypes' /\ \A u \in Upid : Truthful(u)'
  BY DEF TransferInv, TransferTypes, Carried, WaitTypes, Truthful, taskVars, waitVars,
         gatherVars

\* The steps of an attempt that read the file.
LEMMA Reading ==
  ASSUME TransferInv, IsFile \/ OpenToRead \/ calculate_checksum \/ ReadContent
  PROVE  TransferInv'
<1> USE DEF optionVars, readVars, serverVars, AttemptFails
<1>1. CASE IsFile
  <2>1. Carried' /\ WaitTypes' /\ \A u \in Upid : Truthful(u)'
    BY <1>1, Unsent DEF IsFile
  <2>2. TransferTypes' /\ ReadTwice'
    BY <1>1, <2>1
    DEF IsFile, TransferInv, TransferTypes, ReadTwice, taskVars
  <2> QED
    BY <2>1, <2>2 DEF TransferInv
<1>2. CASE OpenToRead
  <2>1. Carried' /\ WaitTypes' /\ \A u \in Upid : Truthful(u)'
    BY <1>2, Unsent DEF OpenToRead
  <2>2. TransferTypes' /\ ReadTwice'
    BY <1>2, <2>1
    DEF OpenToRead, TransferInv, TransferTypes, ReadTwice, Contents, taskVars
  <2> QED
    BY <2>1, <2>2 DEF TransferInv
<1>3. CASE calculate_checksum
  <2>1. Carried' /\ WaitTypes' /\ \A u \in Upid : Truthful(u)'
    BY <1>3, Unsent DEF calculate_checksum
  <2>2. TransferTypes' /\ ReadTwice'
    BY <1>3, <2>1
    DEF calculate_checksum, ReadAs, TransferInv, TransferTypes, ReadTwice, Contents, taskVars
  <2> QED
    BY <2>1, <2>2 DEF TransferInv
<1>4. CASE ReadContent
  <2>1. Carried' /\ WaitTypes' /\ \A u \in Upid : Truthful(u)'
    BY <1>4, Unsent DEF ReadContent
  <2>2. TransferTypes' /\ ReadTwice'
    BY <1>4, <2>1
    DEF ReadContent, ReadAs, TransferInv, TransferTypes, ReadTwice, Contents, taskVars
  <2> QED
    BY <2>1, <2>2 DEF TransferInv
<1> QED
  BY <1>1, <1>2, <1>3, <1>4

\* A transfer is called.
LEMMA Called ==
  ASSUME TransferInv, upload_local_file_to_storage \/ download_file_to_storage
  PROVE  TransferInv'
<1> USE DEF upload_local_file_to_storage, download_file_to_storage, readVars, serverVars,
            waitVars, gatherVars
<1>1. WaitTypes' /\ \A u \in Upid : Truthful(u)'
  BY DEF TransferInv, TransferTypes, WaitTypes, Truthful
<1>2. TransferTypes' /\ ReadTwice'
  BY <1>1 DEF TransferInv, TransferTypes, ReadTwice
<1>3. Carried'
  <2>1. /\ transfer' \in {"is_file", "head"} /\ stored' = "none" /\ task' = task
        /\ body' = body /\ body = [u \in Upid |-> NoBody]
    BY DEF TransferInv, TransferTypes
  <2>2. \A u \in Upid : task[u] # "OK" /\ body[u].content = "none"
    BY <2>1 DEF TransferInv, Carried, NoBody
  <2> QED
    BY <2>1, <2>2 DEF Carried
<1> QED
  BY <1>1, <1>2, <1>3 DEF TransferInv

\* The steps of an attempt that neither read the file nor send anything.
LEMMA AttemptGoesOn ==
  ASSUME TransferInv,
         PostFails \/ GetStatus \/ WaitOver \/ get_file_info
           \/ get_checksums_from_file_url \/ PostDownload
  PROVE  TransferInv'
<1> USE DEF optionVars, readVars, serverVars, AttemptFails
<1>1. Carried' /\ WaitTypes' /\ \A u \in Upid : Truthful(u)'
  <2>1. CASE WaitOver
    <3>1. transfer' = "OK" => task[upid] = "OK"
      BY <2>1 DEF WaitOver, TransferInv, Carried, Truthful
    <3> QED
      BY <2>1, <3>1, Unsent DEF WaitOver
  <2>2. CASE GetStatus
    BY <2>2, Unsent DEF GetStatus
  <2>3. CASE PostFails \/ PostDownload
    BY <2>3, Unsent DEF PostFails, PostDownload
  <2>4. CASE get_file_info
    BY <2>4, Unsent DEF get_file_info
  <2>5. CASE get_checksums_from_file_url
    BY <2>5, Unsent DEF get_checksums_from_file_url
  <2> QED
    BY <2>1, <2>2, <2>3, <2>4, <2>5
<1>2. CASE get_file_info
  <2>1. TransferTypes' /\ ReadTwice'
    BY <1>1, <1>2 DEF get_file_info, TransferInv, TransferTypes, ReadTwice, taskVars
  <2> QED
    BY <1>1, <2>1 DEF TransferInv
<1>3. CASE get_checksums_from_file_url
  <2>1. TransferTypes' /\ ReadTwice'
    BY <1>1, <1>3
    DEF get_checksums_from_file_url, TransferInv, TransferTypes, ReadTwice, taskVars
  <2> QED
    BY <1>1, <2>1 DEF TransferInv
<1>4. CASE PostFails \/ GetStatus \/ WaitOver \/ PostDownload
  <2>1. TransferTypes' /\ ReadTwice'
    BY <1>1, <1>4
    DEF PostFails, GetStatus, WaitOver, PostDownload, TransferInv, TransferTypes, ReadTwice,
        taskVars
  <2> QED
    BY <1>1, <2>1 DEF TransferInv
<1> QED
  BY <1>2, <1>3, <1>4

\* The request of an upload reaches the server, which starts a task for it.
LEMMA Posting ==
  ASSUME TransferInv, PostUpload
  PROVE  TransferInv'
<1> USE DEF optionVars, readVars, gatherVars, AttemptFails
<1> PICK u \in {v \in Upid : body[v] = NoBody} :
           /\ body' = [body EXCEPT ![u] = Posted]
           /\ \/ /\ upid' = u
                 /\ transfer' = IF follow THEN "wait" ELSE "get"
                 /\ wait' = IF follow THEN [wait EXCEPT ![u] = "begin"] ELSE wait
              \/ AttemptFails /\ UNCHANGED <<upid, wait>>
  BY DEF PostUpload
<1>1. WaitTypes' /\ \A v \in Upid : Truthful(v)'
  <2>1. /\ UNCHANGED <<caller, clock, task, limited, bad, stopped, start, until, seen, result>>
        /\ wait' = wait \/ wait' = [wait EXCEPT ![u] = "begin"]
        /\ WaitTypes
    BY DEF PostUpload, TransferInv, TransferTypes
  <2>2. WaitTypes'
    BY <2>1 DEF WaitTypes, Places
  <2>3. ASSUME NEW v \in Upid PROVE Truthful(v)'
    BY <2>1 DEF TransferInv, WaitTypes, Truthful
  <2> QED
    BY <2>2, <2>3
<1>2. /\ Posted.content = file_content /\ file_content # "none"
      /\ Posted \in [checksum : Contents \union {"none", "listed"},
                     content : Contents \union {"none"}]
      /\ verify = "computed" /\ Posted.content = "torn" => Posted.checksum = "old"
  BY DEF Posted, PostUpload, TransferInv, ReadTwice
<1>3. TransferTypes' /\ ReadTwice'
  BY <1>1, <1>2 DEF PostUpload, TransferInv, TransferTypes, ReadTwice
<1>4. \A v \in Upid : body[v] # NoBody => v # u /\ body'[v] = body[v]
  BY DEF TransferInv, TransferTypes
<1>5. body'[u] = Posted /\ Posted # NoBody
  BY <1>2 DEF TransferInv, TransferTypes, NoBody
<1>6. Carried'
  <2>1. verify' = "computed" =>
          /\ \A v \in Upid : body'[v].content = "torn" => body'[v].checksum = "old"
          /\ stored' # "torn"
    BY <1>2, <1>5 DEF PostUpload, TransferInv, TransferTypes, Carried
  <2>2. \A v \in Upid : task'[v] = "OK" =>
          /\ body'[v] # NoBody
          /\ \E w \in Upid : task'[w] = "OK" /\ stored' = body'[w].content
    <3> SUFFICES ASSUME NEW v \in Upid, task[v] = "OK"
                 PROVE  /\ body'[v] # NoBody
                        /\ \E w \in Upid : task[w] = "OK" /\ stored = body'[w].content
      BY DEF PostUpload
    <3>1. PICK w \in Upid : task[w] = "OK" /\ stored = body[w].content
      BY DEF TransferInv, Carried
    <3>2. body[v] # NoBody /\ body[w] # NoBody
      BY <3>1 DEF TransferInv, Carried
    <3> QED
      BY <1>4, <3>1, <3>2
  <2>3. transfer' \in {"wait", "get", "OK", "status"} =>
          upid' \in Upid /\ body'[upid'] # NoBody /\ body'[upid'].content = file_content'
    BY <1>2, <1>5 DEF PostUpload
  <2>4. transfer' # "OK"
    OBVIOUS
  <2> QED
    BY <2>1, <2>2, <2>3, <2>4 DEF Carried
<1> QED
  BY <1>1, <1>3, <1>6 DEF TransferInv

\* The waits of an upload go on, and the clock with them.
LEMMA UploadWaits ==
  ASSUME TransferInv, UNCHANGED fileVars, (\E u \in Upid : wait_for_task(u)) \/ Tick
  PROVE  TransferInv'
<1>1. WaitTypes' /\ \A v \in Upid : Truthful(v)'
  <2>1. CASE Tick
    BY <2>1
    DEF Tick, waitVars, gatherVars, TransferInv, TransferTypes, WaitTypes, Truthful
  <2> QED
    BY <2>1, WaitTold DEF TransferInv, TransferTypes
<1>2. UNCHANGED <<caller, task>>
  BY DEF Tick, wait_for_task, Begin, Serve, Status, RequestFails, PollAgain, Retry
<1>3. TransferTypes' /\ ReadTwice' /\ Carried'
  BY <1>1, <1>2 DEF fileVars, TransferInv, TransferTypes, ReadTwice, Carried
<1> QED
  BY <1>1, <1>3 DEF TransferInv

\* A task ends: it stores what it was sent if the checksum fits, so a torn content
\* that came with the checksum of the old one never is.
LEMMA TaskStores ==
  ASSUME TransferInv, NEW u \in Upid, TaskEnds(u)
  PROVE  TransferInv'
<1> USE DEF waitVars, gatherVars, optionVars, readVars
<1> PICK s \in {"OK", "failed"} :
           /\ task' = [task EXCEPT ![u] = s]
           /\ \/ s = "OK" /\ body[u].checksum \in {"none", body[u].content}
                 /\ stored' = body[u].content
              \/ s = "failed" /\ stored' = stored
  BY DEF TaskEnds
<1>1. task[u] = "running" /\ body[u] # NoBody /\ body' = body
  BY DEF TaskEnds
<1>2. /\ \A v \in Upid : task[v] # "running" => task'[v] = task[v]
      /\ \A v \in Upid \ {u} : task'[v] = task[v]
      /\ task'[u] = s
  BY <1>1 DEF TransferInv, TransferTypes, WaitTypes
<1>3. WaitTypes' /\ \A v \in Upid : Truthful(v)'
  BY <1>2 DEF TaskEnds, TransferInv, TransferTypes, WaitTypes, Truthful
<1>4. TransferTypes' /\ ReadTwice'
  BY <1>3 DEF TaskEnds, TransferInv, TransferTypes, ReadTwice
<1>5. Carried'
  <2>1. verify' = "computed" =>
          /\ \A v \in Upid : body'[v].content = "torn" => body'[v].checksum = "old"
          /\ stored' # "torn"
    BY <1>1 DEF TaskEnds, TransferInv, Carried
  <2>2. ASSUME NEW v \in Upid, task'[v] = "OK"
        PROVE  /\ body'[v] # NoBody
               /\ \E w \in Upid : task'[w] = "OK" /\ stored' = body'[w].content
    <3>1. CASE s = "OK"
      BY <1>1, <1>2, <2>2, <3>1 DEF TransferInv, Carried
    <3>2. CASE s = "failed"
      <4>1. task[v] = "OK"
        BY <1>2, <2>2, <3>2
      <4>2. PICK w \in Upid : task[w] = "OK" /\ stored = body[w].content
        BY <4>1 DEF TransferInv, Carried
      <4> QED
        BY <1>1, <1>2, <3>2, <4>1, <4>2 DEF TransferInv, Carried
    <3> QED
      BY <3>1, <3>2
  <2>3. transfer' \in {"wait", "get", "OK", "status"} =>
          upid' \in Upid /\ body'[upid'] # NoBody /\ body'[upid'].content = file_content'
    BY <1>1 DEF TaskEnds, TransferInv, Carried
  <2>4. transfer' = "OK" => task'[upid'] = "OK"
    BY <1>2 DEF TaskEnds, TransferInv, Carried
  <2> QED
    BY <2>1, <2>2, <2>3, <2>4 DEF Carried
<1> QED
  BY <1>3, <1>4, <1>5 DEF TransferInv

\* A new attempt, a cancelled transfer, and a file that is written over.
LEMMA TransferTurns ==
  ASSUME TransferInv, TransferAgain \/ TransferCancelled \/ FileChanges
  PROVE  TransferInv'
<1> USE DEF optionVars, readVars, serverVars, gatherVars
<1>1. CASE TransferAgain
  <2>1. WaitTypes' /\ \A v \in Upid : Truthful(v)'
    BY <1>1
    DEF TransferAgain, Nothing, Never, TransferInv, TransferTypes, WaitTypes, Places, Truthful
  <2>2. TransferTypes' /\ ReadTwice' /\ Carried'
    BY <1>1, <2>1 DEF TransferAgain, TransferInv, TransferTypes, ReadTwice, Carried
  <2> QED
    BY <2>1, <2>2 DEF TransferInv
<1>2. CASE TransferCancelled
  <2>1. WaitTypes' /\ \A v \in Upid : Truthful(v)'
    BY <1>2
    DEF TransferCancelled, Nothing, TransferInv, TransferTypes, WaitTypes, Places, Truthful
  <2>2. TransferTypes' /\ ReadTwice' /\ Carried'
    BY <1>2, <2>1 DEF TransferCancelled, TransferEnded, TransferInv, TransferTypes, ReadTwice,
                      Carried
  <2> QED
    BY <2>1, <2>2 DEF TransferInv
<1>3. CASE FileChanges
  <2>1. Carried' /\ WaitTypes' /\ \A v \in Upid : Truthful(v)'
    BY <1>3, Unsent DEF FileChanges, TransferEnded
  <2>2. TransferTypes' /\ ReadTwice'
    BY <1>3, <2>1
    DEF FileChanges, TransferInv, TransferTypes, ReadTwice, taskVars
  <2> QED
    BY <2>1, <2>2 DEF TransferInv
<1> QED
  BY <1>1, <1>2, <1>3

\* Every step of a transfer keeps its invariant.
LEMMA TransferStep == TransferInv /\ [TransferNext]_<<taskVars, fileVars>> => TransferInv'
<1> SUFFICES ASSUME TransferInv, [TransferNext]_<<taskVars, fileVars>> PROVE TransferInv'
  OBVIOUS
<1>1. CASE UNCHANGED <<taskVars, fileVars>>
  BY <1>1
  DEF taskVars, fileVars, waitVars, gatherVars, TransferInv, TransferTypes, WaitTypes,
      Truthful, ReadTwice, Carried
<1>2. CASE TransferLoop
  BY <1>2, UploadWaits, TransferTurns, Reading, Posting, AttemptGoesOn DEF TransferLoop
<1> QED
  BY <1>1, <1>2, Called, TransferTurns, TaskStores DEF TransferNext

\* The invariant of the transfers holds in every reachable state.
THEOREM TransferHonest == TransferSpec => []TransferInv
  BY TransferStarts, TransferStep, PTL DEF TransferSpec

\* With the computed checksum no mixture of two contents of the file is ever
\* stored, whenever the file is written over and whichever attempts' tasks end.
THEOREM NothingTornIsStored == TransferSpec => []StoredIsWhole
<1>1. TransferInv => StoredIsWhole
  BY DEF TransferInv, Carried, StoredIsWhole
<1> QED
  BY <1>1, TransferHonest, PTL

\* An upload that returns after its wait has stored what it read, unless the task
\* of an earlier attempt ended after its own.
THEOREM UploadStoresWhatItRead == TransferSpec => []UploadIsStored
<1>1. TransferInv => UploadIsStored
  BY DEF TransferInv, Carried, UploadIsStored
<1> QED
  BY <1>1, TransferHonest, PTL

-----------------------------------------------------------------------------
(* How long a wait of the task tools can take *)

\* The delays between the attempts of a wait, and what they add up to.
LEMMA WaitSleptAdds ==
    /\ \A n \in 1..WaitAttempts : Waits!Backoff(n) \in Nat /\ Waits!Longest[n] \in Nat
    /\ Waits!Slept[0] = 0
    /\ \A n \in 1..WaitAttempts : Waits!Slept[n] = Waits!Slept[n - 1] + Waits!Longest[n]
    /\ \A n \in 0..WaitAttempts : Waits!Slept[n] \in Nat
<1>1. WaitAttempts \in Nat
  BY WaitAssumption
<1>2. \A n \in 1..WaitAttempts : Waits!Backoff(n) \in Nat /\ Waits!Longest[n] \in Nat
  BY StrategyAssumption, WaitAssumption DEF Waits!Backoff, Waits!Longest
<1>3. PICK f : f = [n \in 0..WaitAttempts |->
                      IF n = 0 THEN 0 ELSE f[n - 1] + Waits!Longest[n]]
  BY <1>1, SumExists
<1>4. Waits!Slept =
        [n \in 0..WaitAttempts |-> IF n = 0 THEN 0 ELSE Waits!Slept[n - 1] + Waits!Longest[n]]
  BY <1>3, Zenon DEF Waits!Slept
<1>5. \A n \in 1..WaitAttempts : Waits!Longest[n] \in Nat
  BY <1>2
<1>6. /\ Waits!Slept[0] = 0
      /\ \A n \in 1..WaitAttempts : Waits!Slept[n] = Waits!Slept[n - 1] + Waits!Longest[n]
      /\ \A n \in 0..WaitAttempts : Waits!Slept[n] \in Nat
  BY <1>1, <1>4, <1>5, SumIs
<1> QED
  BY <1>2, <1>6

\* A delay is no longer than the longest.
LEMMA WaitDelayBounded ==
  ASSUME NEW n \in 1..WaitAttempts, NEW d \in Waits!get_delay(n)
  PROVE  d \in Nat /\ d <= Waits!Longest[n]
<1>1. Waits!Backoff(n) \in Nat
  BY WaitSleptAdds
<1>2. Waits!Longest[n] = Waits!Backoff(n) + (IF Jitter THEN Waits!Backoff(n) \div 4 ELSE 0)
  BY DEF Waits!Longest
<1> QED
  BY <1>1, <1>2 DEF Waits!get_delay

\* What an attempt takes without the delay after it, and what n of them take with theirs.
Lasts == WaitTimeout + Poll + MaxRequest

Allowed(n) == n * Lasts + Waits!Slept[n]

\* Another attempt allows as much more.
LEMMA AllowedGrows ==
  ASSUME NEW n \in 1..WaitAttempts
  PROVE  /\ Allowed(n) \in Nat /\ Allowed(n - 1) \in Nat
         /\ Lasts \in Nat /\ Waits!Longest[n] \in Nat
         /\ Allowed(n) = Allowed(n - 1) + Lasts + Waits!Longest[n]
<1>1. n \in Nat /\ n - 1 \in Nat /\ Lasts \in Nat /\ n - 1 \in 0..WaitAttempts /\ n \in 0..WaitAttempts
  BY WaitAssumption DEF Lasts
<1>2. /\ Waits!Slept[n] \in Nat /\ Waits!Slept[n - 1] \in Nat /\ Waits!Longest[n] \in Nat
      /\ Waits!Slept[n] = Waits!Slept[n - 1] + Waits!Longest[n]
  BY <1>1, WaitSleptAdds
<1>3. n * Lasts = (n - 1) * Lasts + Lasts /\ n * Lasts \in Nat /\ (n - 1) * Lasts \in Nat
  BY <1>1
<1> QED
  BY <1>1, <1>2, <1>3 DEF Allowed

\* An attempt starts within what those before it are allowed; its sleeps and requests
\* are not over yet and end within what it is.
InBudget(u) ==
    /\ round[u] \in 1..WaitAttempts
    /\ wait[u] # "logging"
    /\ wait[u] = "idle" => round[u] = 1
    /\ wait[u] = "begin" => round[u] = 1 /\ clock = 0
    /\ wait[u] \in {"polling", "waiting", "sleeping"} => until[u] \in Nat /\ clock <= until[u]
    /\ wait[u] \in {"polling", "waiting"} => start[u] <= Allowed(round[u] - 1)
    /\ wait[u] = "polling" => until[u] <= start[u] + WaitTimeout + MaxRequest
    /\ wait[u] = "waiting" => until[u] <= start[u] + Lasts
    /\ wait[u] = "sleeping" => until[u] <= Allowed(round[u]) /\ round[u] < WaitAttempts

AllInBudget ==
    /\ DOMAIN round = Upid
    /\ \A u \in Upid : InBudget(u)

\* What is to be shown of a step of the wait for u.
LEMMA OneBudget ==
  ASSUME AllInBudget, NEW u \in Upid, clock' = clock, DOMAIN round' = Upid,
         \A v \in Upid \ {u} : /\ wait'[v] = wait[v] /\ round'[v] = round[v]
                               /\ start'[v] = start[v] /\ until'[v] = until[v],
         InBudget(u)'
  PROVE  AllInBudget'
<1>1. ASSUME NEW v \in Upid, v # u PROVE InBudget(v)'
  BY <1>1 DEF AllInBudget, InBudget, Allowed
<1>2. \A v \in Upid : InBudget(v)'
  BY <1>1
<1> QED
  BY <1>2 DEF AllInBudget

\* Steps that leave the waits where they are, or end some of them.
LEMMA BudgetStays ==
  ASSUME AllInBudget, UNCHANGED <<clock, round, start, until>>,
         \A u \in Upid : wait'[u] \in {wait[u], "ended"}
  PROVE  AllInBudget'
<1>1. \A u \in Upid : InBudget(u)'
  BY DEF AllInBudget, InBudget, Allowed
<1> QED
  BY <1>1 DEF AllInBudget

\* The clock goes on only while no attempt begins, no sleep and no request is over.
LEMMA TickInBudget ==
  ASSUME WaitTypes, AllInBudget, Tick, limited
  PROVE  AllInBudget'
<1>1. UNCHANGED <<wait, round, start, until>> /\ clock' = clock + 1 /\ clock \in Nat
  BY DEF Tick, WaitTypes
<1>2. ASSUME NEW u \in Upid PROVE InBudget(u)'
  <2>1. wait[u] # "begin" /\ (wait[u] \in Timed => clock < until[u])
    BY DEF Tick
  <2>2. wait[u] \in {"polling", "waiting", "sleeping"} => until'[u] \in Nat /\ clock' <= until'[u]
    BY <1>1, <2>1 DEF AllInBudget, InBudget, Timed
  <2> QED
    BY <1>1, <2>1, <2>2 DEF AllInBudget, InBudget, Allowed
<1> QED
  BY <1>1, <1>2 DEF AllInBudget

\* The sleep after an attempt that failed ends within what the attempt is allowed.
LEMMA FailedInBudget ==
  ASSUME WaitTypes, NEW u \in Upid, NEW e \in WaitError, Failed(u, e),
         round'[u] \in 1..WaitAttempts, clock <= Allowed(round'[u] - 1) + Lasts,
         clock' = clock
  PROVE  /\ InBudget(u)'
         /\ \A v \in Upid \ {u} : wait'[v] = wait[v] /\ until'[v] = until[v]
<1> DEFINE n == round'[u]
<1>1. n \in 1..WaitAttempts /\ clock \in Nat
  BY DEF WaitTypes
<1> HIDE DEF n
<1>2. CASE /\ Waits!should_retry(e, round'[u])
           /\ wait' = [wait EXCEPT ![u] = "sleeping"]
           /\ \E d \in Waits!get_delay(round'[u]) : until' = [until EXCEPT ![u] = clock + d]
  <2>1. PICK d \in Waits!get_delay(n) : until' = [until EXCEPT ![u] = clock + d]
    BY <1>2 DEF n
  <2>2. d \in Nat /\ d <= Waits!Longest[n]
    BY <1>1, WaitDelayBounded
  <2>3. until'[u] = clock + d /\ wait'[u] = "sleeping"
    BY <1>2, <2>1 DEF WaitTypes
  <2>4. n < WaitAttempts
    BY <1>2 DEF Waits!should_retry, n
  <2>5. clock + d <= Allowed(n)
    BY <1>1, <2>2, AllowedGrows DEF n
  <2>6. InBudget(u)'
    BY <1>1, <2>2, <2>3, <2>4, <2>5 DEF InBudget, Allowed, n
  <2> QED
    BY <1>2, <2>1, <2>3, <2>6 DEF WaitTypes
<1>3. CASE End(u, e)
  BY <1>1, <1>3 DEF End, InBudget, WaitTypes, n
<1> QED
  BY <1>2, <1>3 DEF Failed

\* An attempt that starts within what those before it are allowed.
LEMMA StartInBudget ==
  ASSUME WaitTypes, AllInBudget, NEW u \in Upid, BeginAttempt(u),
         round'[u] \in 1..WaitAttempts, clock <= Allowed(round'[u] - 1),
         DOMAIN round' = Upid, \A v \in Upid \ {u} : round'[v] = round[v],
         clock' = clock
  PROVE  AllInBudget'
<1>1. /\ start'[u] = clock /\ clock \in Nat
      /\ \A v \in Upid \ {u} : start'[v] = start[v]
  BY DEF BeginAttempt, WaitTypes
<1>2. CASE Failed(u, "TaskError")
  <2>1. clock <= Allowed(round'[u] - 1) + Lasts
    BY <1>1, AllowedGrows
  <2>2. "TaskError" \in WaitError
    BY DEF WaitError
  <2> QED
    BY <1>1, <1>2, <2>1, <2>2, FailedInBudget, OneBudget
<1>3. CASE Request(u)
  <2>1. /\ wait'[u] = "polling" /\ until'[u] = clock + MaxRequest
        /\ \A v \in Upid \ {u} : wait'[v] = wait[v] /\ until'[v] = until[v]
    BY <1>3 DEF Request, WaitTypes
  <2>2. /\ until'[u] \in Nat /\ clock <= until'[u]
        /\ until'[u] <= start'[u] + WaitTimeout + MaxRequest
    BY <1>1, <2>1, WaitAssumption
  <2>3. InBudget(u)'
    BY <1>1, <2>1, <2>2 DEF InBudget, Allowed
  <2> QED
    BY <1>1, <2>1, <2>3, OneBudget
<1> QED
  BY <1>2, <1>3 DEF BeginAttempt

\* A step of a wait keeps within the budget.
LEMMA WaitInBudget ==
  ASSUME WaitTypes, AllInBudget, NEW u \in Upid, wait_for_task(u)
  PROVE  AllInBudget'
<1>1. /\ WaitTypes /\ InBudget(u)
      /\ clock \in Nat /\ start[u] \in Nat /\ round[u] \in 1..WaitAttempts
      /\ DOMAIN round = Upid
  BY DEF WaitTypes, AllInBudget, InBudget
<1>2. /\ WaitTimeout \in Nat /\ Poll \in Nat /\ MaxRequest \in Nat
      /\ Lasts = WaitTimeout + Poll + MaxRequest /\ WaitAttempts \in Nat
  BY WaitAssumption DEF Lasts
<1>3. clock' = clock
  BY DEF wait_for_task, Begin, Serve, Status, RequestFails, PollAgain, Retry
<1>4. /\ Allowed(round[u]) \in Nat /\ Allowed(round[u] - 1) \in Nat
      /\ Allowed(round[u] - 1) + Lasts <= Allowed(round[u])
  BY <1>1, <1>2, AllowedGrows
<1>5. CASE Begin(u)
  <2>1. round'[u] = 1 /\ clock = 0 /\ round' = round
    BY <1>1, <1>5 DEF Begin, InBudget
  <2> QED
    BY <1>1, <1>3, <1>4, <1>5, <2>1, StartInBudget DEF Begin
<1>6. CASE Retry(u)
  <2>1. /\ until[u] \in Nat /\ clock <= until[u] /\ clock >= until[u]
        /\ until[u] <= Allowed(round[u]) /\ round[u] < WaitAttempts
    BY <1>1, <1>6 DEF Retry, InBudget
  <2>2. round'[u] = round[u] + 1 /\ DOMAIN round' = Upid
        /\ \A v \in Upid \ {u} : round'[v] = round[v]
    BY <1>1, <1>6 DEF Retry
  <2>3. round'[u] \in 1..WaitAttempts /\ round'[u] - 1 = round[u]
    <3>1. WaitAttempts \in Nat /\ round[u] \in 1..WaitAttempts /\ round[u] < WaitAttempts
      BY <1>1, <1>2, <2>1
    <3>2. round'[u] = round[u] + 1
      BY <2>2
    <3> QED
      BY ONLY <3>1, <3>2
  <2>4. clock <= Allowed(round'[u] - 1)
    BY <1>1, <1>4, <2>1, <2>3
  <2> QED
    BY <1>1, <1>3, <1>6, <2>2, <2>3, <2>4, StartInBudget DEF Retry
<1>7. ASSUME NEW e \in WaitError, Failed(u, e), wait[u] \in {"polling", "waiting"},
             round' = round, start' = start
      PROVE  AllInBudget'
  <2>1. until[u] \in Nat /\ clock <= until[u]
    BY <1>1, <1>7 DEF InBudget
  <2>2. until[u] <= start[u] + Lasts /\ start[u] <= Allowed(round[u] - 1)
    BY <1>1, <1>2, <1>7, <2>1 DEF InBudget
  <2>3. clock <= Allowed(round[u] - 1) + Lasts
    BY <1>1, <1>2, <1>4, <2>1, <2>2
  <2> QED
    BY <1>1, <1>3, <1>7, <2>3, FailedInBudget, OneBudget
<1>8. CASE Serve(u)
  <2>1. /\ wait' = wait /\ round' = round /\ start' = start /\ until' = until
        /\ wait[u] = "polling"
    BY <1>8 DEF Serve
  <2>2. InBudget(u)'
    BY <1>1, <1>3, <2>1 DEF InBudget, Allowed
  <2> QED
    BY <1>1, <1>3, <2>1, <2>2, OneBudget
<1>9. CASE RequestFails(u)
  BY <1>7, <1>9 DEF RequestFails, WaitError
<1>10. CASE Status(u)
  <2>1. round' = round /\ start' = start /\ wait[u] = "polling"
    BY <1>10 DEF Status
  <2>2. CASE Failed(u, "TaskError")
    BY <1>7, <2>1, <2>2 DEF WaitError
  <2>3. CASE End(u, "OK")
    <3>1. wait'[u] = "ended"
          /\ \A v \in Upid \ {u} : wait'[v] = wait[v] /\ until'[v] = until[v]
      BY <1>1, <2>3 DEF End, WaitTypes
    <3>2. InBudget(u)'
      BY <1>1, <2>1, <3>1 DEF InBudget
    <3> QED
      BY <1>1, <1>3, <2>1, <3>1, <3>2, OneBudget
  <2>4. CASE /\ wait' = [wait EXCEPT ![u] = "waiting"]
             /\ until' = [until EXCEPT ![u] = clock + Poll]
    <3>1. /\ wait'[u] = "waiting" /\ until'[u] = clock + Poll
          /\ \A v \in Upid \ {u} : wait'[v] = wait[v] /\ until'[v] = until[v]
      BY <1>1, <2>4 DEF WaitTypes
    <3>2. /\ until[u] \in Nat /\ clock <= until[u]
          /\ until[u] <= start[u] + WaitTimeout + MaxRequest
          /\ start[u] <= Allowed(round[u] - 1)
      BY <1>1, <2>1 DEF InBudget
    <3>3. clock + Poll \in Nat /\ clock <= clock + Poll /\ clock + Poll <= start[u] + Lasts
      BY <1>1, <1>2, <3>2
    <3>4. InBudget(u)'
      BY <1>1, <1>3, <2>1, <3>1, <3>2, <3>3 DEF InBudget, Allowed, Lasts
    <3> QED
      BY <1>1, <1>3, <2>1, <3>1, <3>4, OneBudget
  <2> QED
    BY <1>10, <2>2, <2>3, <2>4 DEF Status, Judge
<1>11. CASE PollAgain(u)
  <2>1. round' = round /\ start' = start /\ wait[u] = "waiting"
    BY <1>11 DEF PollAgain
  <2>2. CASE Failed(u, "TimeoutError")
    BY <1>7, <2>1, <2>2 DEF WaitError
  <2>3. CASE ~Overdue(u) /\ Request(u)
    <3>1. /\ wait'[u] = "polling" /\ until'[u] = clock + MaxRequest
          /\ \A v \in Upid \ {u} : wait'[v] = wait[v] /\ until'[v] = until[v]
      BY <1>1, <2>3 DEF Request, WaitTypes
    <3>2. /\ clock + MaxRequest \in Nat /\ clock <= clock + MaxRequest
          /\ clock + MaxRequest <= start[u] + WaitTimeout + MaxRequest
      BY <1>1, <1>2, <2>3 DEF Overdue
    <3>3. start[u] <= Allowed(round[u] - 1)
      BY <1>1, <2>1 DEF InBudget
    <3>4. InBudget(u)'
      BY <1>1, <1>3, <2>1, <3>1, <3>2, <3>3 DEF InBudget, Allowed
    <3> QED
      BY <1>1, <1>3, <2>1, <3>1, <3>4, OneBudget
  <2> QED
    BY <1>11, <2>2, <2>3 DEF PollAgain
<1> QED
  BY <1>5, <1>6, <1>8, <1>9, <1>10, <1>11 DEF wait_for_task

\* A wait within the budget has not taken longer than its attempts and the delays
\* between them are allowed to.
LEMMA BudgetBounds ==
  ASSUME WaitTypes, AllInBudget, NEW u \in Upid, wait[u] \in Timed
  PROVE  clock <= round[u] * (WaitTimeout + Poll + MaxRequest) + Waits!MaxBackoff(round[u])
<1>1. /\ InBudget(u) /\ wait[u] \in {"polling", "waiting", "sleeping"}
      /\ round[u] \in 1..WaitAttempts /\ clock \in Nat /\ start[u] \in Nat
      /\ until[u] \in Nat /\ clock <= until[u]
  BY DEF WaitTypes, AllInBudget, InBudget, Timed
<1>2. /\ Allowed(round[u]) \in Nat /\ Allowed(round[u] - 1) \in Nat
      /\ Allowed(round[u] - 1) + Lasts <= Allowed(round[u])
      /\ WaitTimeout \in Nat /\ Poll \in Nat /\ MaxRequest \in Nat
      /\ Lasts = WaitTimeout + Poll + MaxRequest
  BY <1>1, AllowedGrows, WaitAssumption DEF Lasts
<1>3. CASE wait[u] = "sleeping"
  BY <1>1, <1>2, <1>3 DEF InBudget, Allowed, Lasts, Waits!MaxBackoff
<1>4. CASE wait[u] \in {"polling", "waiting"}
  <2>1. start[u] <= Allowed(round[u] - 1) /\ until[u] <= start[u] + Lasts
    BY <1>1, <1>2, <1>4 DEF InBudget
  <2>2. clock <= Allowed(round[u])
    BY <1>1, <1>2, <2>1
  <2> QED
    BY <2>2 DEF Allowed, Lasts, Waits!MaxBackoff
<1> QED
  BY <1>1, <1>3, <1>4

BudgetHolds ==
    /\ caller \in {"none", "tools"}
    /\ caller = "none" => clock = 0
    /\ AllInBudget

\* Every step of the task tools keeps within the budget.
LEMMA BudgetKept == WaitInv /\ BudgetHolds /\ [WaitNext]_taskVars => BudgetHolds'
<1> SUFFICES ASSUME WaitInv, BudgetHolds, [WaitNext]_taskVars PROVE BudgetHolds'
  OBVIOUS
<1>1. CASE wait_for_multiple_tasks
  <2>1. \A u \in Upid : wait[u] = "idle" /\ round[u] = 1
    BY <1>1
    DEF wait_for_multiple_tasks, GatherFor, WaitInv, Concluded, BudgetHolds, AllInBudget, InBudget
  <2>2. /\ clock = 0 /\ clock' = clock /\ caller' = "tools" /\ round' = round
        /\ \A u \in Upid : wait'[u] = "begin"
    BY <1>1 DEF wait_for_multiple_tasks, GatherFor, BudgetHolds
  <2>3. \A u \in Upid : InBudget(u)'
    BY <2>1, <2>2 DEF BudgetHolds, AllInBudget, InBudget
  <2> QED
    BY <2>2, <2>3 DEF BudgetHolds, AllInBudget
<1>2. ASSUME NEW u \in Upid, wait_for_task(u), caller = "tools" PROVE BudgetHolds'
  <2>1. AllInBudget'
    BY <1>2, WaitInBudget DEF WaitInv, BudgetHolds
  <2>2. caller' = caller
    BY <1>2 DEF wait_for_task, Begin, Serve, Status, RequestFails, PollAgain, Retry
  <2> QED
    BY <1>2, <2>1, <2>2 DEF BudgetHolds
<1>3. CASE \/ GatherReturn \/ GatherRaise \/ GatherCancelled \/ UNCHANGED taskVars
           \/ \E u \in Upid : Stop(u)
  <2>1. /\ UNCHANGED <<caller, clock, round, start, until>>
        /\ \A u \in Upid : wait'[u] \in {wait[u], "ended"}
    BY <1>3 DEF GatherReturn, GatherRaise, GatherCancelled, Stop, taskVars, waitVars
  <2> QED
    BY <2>1, BudgetStays DEF BudgetHolds
<1>4. CASE Tick /\ caller = "tools"
  <2>1. limited /\ caller' = caller
    BY <1>4 DEF Tick, WaitInv, WaitTypes
  <2> QED
    BY <1>4, <2>1, TickInBudget DEF WaitInv, BudgetHolds
<1> QED
  BY <1>1, <1>2, <1>3, <1>4 DEF WaitNext, WaitLoop

\* No wait takes longer than its attempts and the delays between them are allowed to,
\* however many others there are, for every timeout, interval and strategy.
THEOREM WaitsWithinBudget == WaitSpec => []WaitBudget
<1>1. WaitInit => BudgetHolds
  <2> SUFFICES ASSUME WaitInit PROVE BudgetHolds
    OBVIOUS
  <2>1. \A u \in Upid : InBudget(u)
    BY WaitAssumption DEF WaitInit, FirstRound, InBudget
  <2> QED
    BY <2>1 DEF WaitInit, FirstRound, BudgetHolds, AllInBudget
<1>2. WaitInv /\ BudgetHolds => WaitBudget
  BY BudgetBounds DEF WaitInv, WaitBudget, BudgetHolds
<1> QED
  BY <1>1, <1>2, BudgetKept, WaitsHonest, PTL DEF WaitSpec

-----------------------------------------------------------------------------
(* How long a wait of an upload can take *)

\* Nothing waits before the request of an attempt, when the clock is that of its
\* wait, and nothing goes on once the transfer has left its wait.
Unposted == {"idle", "is_file", "checksum", "hashing", "read", "reading", "post", "head", "discover"}

UploadBudget ==
    /\ AllInBudget
    /\ \A u \in Upid : wait[u] \in {"idle", "ended"} \/ (transfer = "wait" /\ u = upid)
    /\ transfer \in Unposted => clock = 0 /\ \A u \in Upid : wait[u] = "idle"

\* The steps of an attempt that leave the waits and the clock alone.
LEMMA UploadStays ==
  ASSUME UploadBudget, UNCHANGED taskVars, transfer # "wait" \/ upid' = upid,
         transfer' \in Unposted => transfer \in Unposted,
         transfer # "wait" \/ transfer' = "wait" \/ \A u \in Upid : wait[u] \in {"idle", "ended"}
  PROVE  UploadBudget'
<1>1. UNCHANGED <<clock, wait, round, start, until>>
  BY DEF taskVars, waitVars
<1>2. AllInBudget'
  BY <1>1, BudgetStays DEF UploadBudget
<1> QED
  BY <1>1, <1>2 DEF UploadBudget

\* The wait of an upload begins when its request is answered, with the clock at 0.
LEMMA PostedInBudget ==
  ASSUME TransferInv, UploadBudget, PostUpload
  PROVE  UploadBudget'
<1>1. /\ UNCHANGED <<clock, round, start, until>> /\ clock = 0
      /\ \A u \in Upid : wait[u] = "idle" /\ round[u] = 1
      /\ DOMAIN wait = Upid /\ DOMAIN round = Upid
  BY DEF PostUpload, UploadBudget, Unposted, AllInBudget, InBudget, TransferInv, TransferTypes,
         WaitTypes
<1>2. /\ transfer' \in {"wait", "get", "retry", "raised"}
      /\ \A u \in Upid : wait'[u] = "idle" \/ (transfer' = "wait" /\ upid' = u /\ wait'[u] = "begin")
  BY <1>1 DEF PostUpload, AttemptFails
<1>3. \A u \in Upid : InBudget(u)'
  BY <1>1, <1>2, WaitAssumption DEF InBudget
<1> QED
  BY <1>1, <1>2, <1>3 DEF UploadBudget, AllInBudget, Unposted

\* A new attempt begins without waits, a cancelled one leaves none.
LEMMA TurnsInBudget ==
  ASSUME TransferInv, UploadBudget, TransferAgain \/ TransferCancelled
  PROVE  UploadBudget'
<1>1. CASE TransferAgain
  <2>1. /\ clock' = 0 /\ round' = FirstRound
        /\ \A u \in Upid : wait'[u] = "idle"
    BY <1>1 DEF TransferAgain
  <2>2. \A u \in Upid : InBudget(u)'
    BY <2>1, WaitAssumption DEF FirstRound, InBudget
  <2> QED
    BY <2>1, <2>2 DEF FirstRound, UploadBudget, AllInBudget
<1>2. CASE TransferCancelled
  <2>1. /\ UNCHANGED <<clock, round, start, until>> /\ transfer' = "cancelled"
        /\ \A u \in Upid : /\ wait'[u] \in {"idle", "ended"}
                           /\ wait'[u] \in {wait[u], "ended"}
    BY <1>2 DEF TransferCancelled
  <2>2. AllInBudget'
    BY <2>1, BudgetStays DEF UploadBudget
  <2> QED
    BY <2>1, <2>2 DEF UploadBudget, Unposted
<1> QED
  BY <1>1, <1>2

\* A wait goes on, or the clock, only while the transfer waits.
LEMMA WaitOfUpload ==
  ASSUME TransferInv, UploadBudget, UNCHANGED fileVars,
         (\E u \in Upid : wait_for_task(u)) \/ Tick
  PROVE  UploadBudget'
<1>1. \E u \in Upid : wait[u] \notin {"idle", "ended"}
  BY DEF Tick, Timed, wait_for_task, Begin, Serve, Status, RequestFails, PollAgain, Retry
<1>2. /\ transfer = "wait" /\ transfer' = "wait" /\ upid' = upid
      /\ \A u \in Upid : u # upid => wait'[u] = wait[u]
  <2>1. transfer = "wait" /\ transfer' = "wait" /\ upid' = upid
    BY <1>1 DEF UploadBudget, fileVars
  <2>2. ASSUME NEW u \in Upid, u # upid PROVE wait'[u] = wait[u]
    <3>1. CASE Tick
      BY <3>1 DEF Tick, waitVars
    <3>2. ASSUME NEW v \in Upid, wait_for_task(v) PROVE wait'[u] = wait[u]
      <4>1. v # u
        BY <2>2, <3>2
        DEF UploadBudget, wait_for_task, Begin, Serve, Status, RequestFails, PollAgain, Retry
      <4> QED
        BY <3>2, <4>1
        DEF TransferInv, TransferTypes, WaitTypes, wait_for_task, Begin, Serve, Status,
            RequestFails, PollAgain, Retry, BeginAttempt, Failed, End, Request, Judge
    <3> QED
      BY <3>1, <3>2
  <2> QED
    BY <2>1, <2>2
<1>3. AllInBudget'
  <2>1. WaitTypes /\ AllInBudget /\ limited
    BY DEF UploadBudget, TransferInv, TransferTypes, WaitTypes
  <2> QED
    BY <2>1, WaitInBudget, TickInBudget
<1> QED
  BY <1>2, <1>3 DEF UploadBudget, Unposted

\* A transfer is called, and a task ends: the waits and the clock are left alone.
LEMMA CallsInBudget ==
  ASSUME UploadBudget,
         \/ upload_local_file_to_storage \/ download_file_to_storage
         \/ \E u \in Upid : TaskEnds(u),
         TransferInv
  PROVE  UploadBudget'
<1>1. /\ UNCHANGED <<clock, wait, round, start, until, upid>>
      /\ transfer' = transfer \/ (transfer = "idle" /\ transfer' \in {"is_file", "head"})
  BY DEF upload_local_file_to_storage, download_file_to_storage, TaskEnds, waitVars,
         TransferInv, TransferTypes
<1>2. AllInBudget'
  BY <1>1, BudgetStays DEF UploadBudget
<1> QED
  BY <1>1, <1>2 DEF UploadBudget, Unposted

\* Every step of a transfer keeps the wait of its attempt within the budget.
LEMMA UploadBudgetKept ==
    TransferInv /\ UploadBudget /\ [TransferNext]_<<taskVars, fileVars>> => UploadBudget'
<1> SUFFICES ASSUME TransferInv, UploadBudget, [TransferNext]_<<taskVars, fileVars>>
             PROVE  UploadBudget'
  OBVIOUS
<1>1. CASE UNCHANGED <<taskVars, fileVars>>
  BY <1>1, UploadStays DEF fileVars
<1>2. CASE \/ IsFile \/ OpenToRead \/ calculate_checksum \/ ReadContent \/ PostFails
           \/ GetStatus \/ get_file_info \/ get_checksums_from_file_url \/ PostDownload
           \/ FileChanges
  <2>1. /\ UNCHANGED <<taskVars, upid>>
        /\ transfer' = transfer \/ (transfer # "wait" /\ (transfer' \in Unposted => transfer \in Unposted))
    BY <1>2
    DEF IsFile, OpenToRead, calculate_checksum, ReadContent, PostFails, GetStatus,
        get_file_info, get_checksums_from_file_url, PostDownload, FileChanges, AttemptFails,
        Unposted
  <2> QED
    BY <2>1, UploadStays
<1>3. CASE WaitOver
  <2>1. UNCHANGED <<taskVars, upid>> /\ transfer' \in {"OK", "retry", "raised"}
    BY <1>3 DEF WaitOver, AttemptFails
  <2>2. \A u \in Upid : wait[u] \in {"idle", "ended"}
    BY <1>3 DEF WaitOver, UploadBudget
  <2> QED
    BY <2>1, <2>2, UploadStays DEF Unposted
<1> QED
  BY <1>1, <1>2, <1>3, PostedInBudget, TurnsInBudget, WaitOfUpload, CallsInBudget
  DEF TransferNext, TransferLoop

\* Each attempt of an upload waits no longer than its requests, sleeps and delays are
\* allowed to take, whatever became of the attempts before it.
THEOREM UploadWaitsWithinBudget == TransferSpec => []WaitBudget
<1>1. WaitInit /\ TransferInit => UploadBudget
  <2> SUFFICES ASSUME WaitInit, TransferInit PROVE UploadBudget
    OBVIOUS
  <2>1. \A u \in Upid : InBudget(u)
    BY WaitAssumption DEF WaitInit, FirstRound, InBudget
  <2> QED
    BY <2>1 DEF WaitInit, TransferInit, FirstRound, UploadBudget, AllInBudget
<1>2. TransferInv /\ UploadBudget => WaitBudget
  BY BudgetBounds DEF TransferInv, TransferTypes, WaitBudget, UploadBudget
<1> QED
  BY <1>1, <1>2, TransferHonest, UploadBudgetKept, PTL DEF TransferSpec

-----------------------------------------------------------------------------
(* How long a wait of the helper takes *)

\* Its waits start together and once; what they sleep for and what they ask for is
\* over soon after the timeout, if they have one.
InHelperBudget(u) ==
    /\ start[u] = 0
    /\ wait[u] # "sleeping"
    /\ wait[u] = "idle" => caller # "helper"
    /\ wait[u] = "begin" => clock = 0
    /\ limited =>
         /\ wait[u] = "polling" => until[u] <= WaitTimeout + Poll + MaxRequest
         /\ wait[u] = "waiting" => until[u] <= WaitTimeout + Poll
         /\ wait[u] = "logging" => until[u] <= WaitTimeout + Poll + 2 * MaxRequest

HelperBudget ==
    /\ caller \in {"none", "helper", "stream"}
    /\ caller = "none" => clock = 0
    /\ \A u \in Upid : InHelperBudget(u)

\* A step of a wait of the helper keeps within its budget.
LEMMA WaitInHelperBudget ==
  ASSUME HelperInv, HelperBudget, NEW u \in Upid, HelperWait(u), caller = "helper"
  PROVE  HelperBudget'
<1>1. /\ WaitTypes /\ Timely(u) /\ InHelperBudget(u) /\ clock \in Nat
      /\ WaitTimeout \in Nat /\ Poll \in Nat /\ MaxRequest \in Nat
      /\ WaitTimeout >= 1
  BY WaitAssumption DEF HelperInv, WaitInv, WaitTypes, HelperBudget
<1>2. UNCHANGED <<caller, clock, limited>>
  BY DEF HelperWait, HelperBegin, Serve, HelperStatus, HelperLog, HelperRequestFails,
         HelperPollAgain, gatherVars
<1>3. ASSUME NEW v \in Upid, v # u PROVE InHelperBudget(v)'
  <2>1. UNCHANGED <<start[v], wait[v], until[v]>>
    BY <1>1, <1>3 DEF WaitTypes, HelperWait, HelperBegin, Serve, HelperStatus, HelperLog,
       HelperRequestFails, HelperPollAgain, HelperJudge, ReadLog, Sleep, Request, End
  <2> QED
    BY <1>2, <2>1 DEF HelperBudget, InHelperBudget
<1>4. InHelperBudget(u)'
  <2> USE <1>1, <1>2 DEF WaitTypes, InHelperBudget
  <2>1. CASE HelperBegin(u)
    BY <2>1 DEF HelperBegin, Request, End
  <2>2. CASE Serve(u)
    BY <2>2 DEF Serve
  <2>3. CASE HelperStatus(u)
    <3>1. until[u] \in Nat /\ (limited => clock <= WaitTimeout + Poll + MaxRequest)
      BY <2>3 DEF HelperStatus, Timely
    <3>2. CASE ReadLog(u)
      BY <2>3, <3>1, <3>2 DEF HelperStatus, ReadLog
    <3>3. CASE ~Late(u) /\ Sleep(u)
      BY <2>3, <3>3 DEF HelperStatus, Sleep, Late, Overdue
    <3>4. ASSUME NEW r, End(u, r) PROVE InHelperBudget(u)'
      BY <2>3, <3>4 DEF HelperStatus, End
    <3> QED
      BY <2>3, <3>2, <3>3, <3>4 DEF HelperStatus, HelperJudge
  <2>4. CASE HelperLog(u) \/ HelperRequestFails(u)
    BY <2>4 DEF HelperLog, HelperRequestFails, End
  <2>5. CASE HelperPollAgain(u)
    <3>1. limited => clock <= WaitTimeout + Poll
      BY <2>5 DEF HelperPollAgain, Timely
    <3> QED
      BY <2>5, <3>1 DEF HelperPollAgain, Request
  <2> QED
    BY <2>1, <2>2, <2>3, <2>4, <2>5 DEF HelperWait
<1> QED
  BY <1>2, <1>3, <1>4 DEF HelperBudget

\* Every step of the helper keeps within the budget.
LEMMA HelperBudgetKept ==
    HelperInv /\ HelperBudget /\ [HelperNext]_<<taskVars, helperVars>> => HelperBudget'
<1> SUFFICES ASSUME HelperInv, HelperBudget, [HelperNext]_<<taskVars, helperVars>>
             PROVE  HelperBudget'
  OBVIOUS
<1>1. CASE wait_for_tasks
  <2>1. /\ clock = 0 /\ clock' = clock /\ caller' = "helper" /\ start' = start
        /\ \A u \in Upid : wait'[u] = "begin"
    BY <1>1 DEF wait_for_tasks, GatherFor, HelperBudget
  <2> QED
    BY <2>1 DEF HelperBudget, InHelperBudget
<1>2. ASSUME NEW u \in Upid, HelperWait(u), caller = "helper" PROVE HelperBudget'
  BY <1>2, WaitInHelperBudget
<1>3. CASE Tick /\ caller = "helper"
  <2>1. /\ UNCHANGED <<caller, wait, start, limited>> /\ \A u \in Upid : wait[u] # "begin"
        /\ limited => UNCHANGED until
    BY <1>3 DEF Tick, gatherVars
  <2> QED
    BY <1>3, <2>1 DEF HelperBudget, InHelperBudget
<1>4. CASE GatherCancelled
  <2>1. UNCHANGED <<caller, clock, start, limited>> /\ \A u \in Upid : wait'[u] = "ended"
    BY <1>4 DEF GatherCancelled
  <2> QED
    BY <2>1 DEF HelperBudget, InHelperBudget
<1>5. CASE stream_task_log
  BY <1>5 DEF stream_task_log, waitVars, gatherVars, HelperBudget, InHelperBudget
<1>6. CASE \/ GatherReturn \/ GatherRaise \/ \E u \in Upid : Stop(u)
           \/ StreamStatus \/ StreamLog \/ StreamFails \/ WriteLine \/ StopStreamed
           \/ UNCHANGED <<taskVars, helperVars>>
  <2>1. UNCHANGED <<caller, clock, start, wait, until, limited>>
    BY <1>6 DEF GatherReturn, GatherRaise, Stop, StreamStatus, StreamLog, StreamFails,
       WriteLine, StopStreamed, taskVars, waitVars, gatherVars
  <2> QED
    BY <2>1 DEF HelperBudget, InHelperBudget
<1> QED
  BY <1>1, <1>2, <1>3, <1>4, <1>5, <1>6 DEF HelperNext, HelperLoop

\* A wait of the helper that has a timeout is over soon after it, the reading of a failed
\* task's log included, for every timeout and interval.
THEOREM HelperWithinBudget == HelperSpec => []WaitBudget
<1>1. WaitInit /\ HelperInit => HelperBudget
  BY DEF WaitInit, Never, HelperBudget, InHelperBudget
<1>2. HelperInv /\ HelperBudget => WaitBudget
  <2> SUFFICES ASSUME HelperInv, HelperBudget, caller = "helper", NEW u \in Upid,
                      wait[u] \in Timed, limited
               PROVE  clock <= WaitTimeout + Poll + 2 * MaxRequest
    BY DEF WaitBudget, HelperBudget
  <2>1. /\ wait[u] \in {"polling", "waiting", "logging"} /\ Timely(u) /\ InHelperBudget(u)
        /\ clock \in Nat /\ WaitTimeout \in Nat /\ Poll \in Nat /\ MaxRequest \in Nat
    BY WaitAssumption DEF HelperInv, WaitInv, WaitTypes, Timed, HelperBudget, InHelperBudget
  <2>2. until[u] \in Nat /\ clock <= until[u]
    BY <2>1 DEF Timely
  <2> QED
    BY <2>1, <2>2 DEF InHelperBudget
<1> QED
  BY <1>1, <1>2, HelperHonest, HelperBudgetKept, PTL DEF HelperSpec

=============================================================================
