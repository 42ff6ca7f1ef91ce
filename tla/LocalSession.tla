---------------------------- MODULE LocalSession ----------------------------
(***************************************************************************)
(* LocalSession of proxmoxer/backends/local.py: a request is one pvesh     *)
(* process per attempt of retry_async, whose loop is that of RetryAsync    *)
(* without an overall timeout.  A run of a command counts as MaxRun ticks  *)
(* at most: command timeout, kill and wait.                                *)
(***************************************************************************)
EXTENDS RetryAsync

CONSTANT SSHError   \* what request raises, whatever the reason

ASSUME LocalAssumption == SSHError \in Error \cap Retryable

VARIABLES
    requested,  \* whether the loop of RetryAsync is a request's
    _closed,
    alive,      \* attempts whose process has not ended
    process,    \* what the request knows of its process
    effects     \* history: times the command has done what it is for

localVars == <<requested, _closed, alive, process, effects>>

Loop == INSTANCE RetryAsync WITH Timeout <- 0

LocalInit ==
    /\ requested = FALSE
    /\ _closed = FALSE
    /\ alive = {}
    /\ process = "none"
    /\ effects = 0

-----------------------------------------------------------------------------
request ==
    /\ ~requested /\ calls = 0 /\ pc = "check"
    /\ requested' = TRUE
    /\ UNCHANGED <<vars, _closed, alive, process, effects>>

\* An attempt starts a process, unless the session is closed or exec fails.
Execute ==
    /\ requested
    /\ Loop!Call
    /\ \/ ~_closed /\ process' = "running" /\ alive' = alive \union {attempt}
       \/ process' = "refused" /\ UNCHANGED alive
    /\ UNCHANGED <<requested, _closed, effects>>

\* communicate() has the exit code.
Completed ==
    /\ process = "exit0"
    /\ Loop!Return
    /\ process' = "none"
    /\ UNCHANGED <<requested, _closed, alive, effects>>

CommandFails ==
    /\ process \in {"exit1", "refused"}
    /\ Loop!Fail(SSHError)
    /\ process' = "none"
    /\ UNCHANGED <<requested, _closed, alive, effects>>

\* mutant: the process is left to itself
TimeoutWithoutKill ==
    /\ process \in {"running", "exit0", "exit1"}
    /\ process' = "refused"
    /\ UNCHANGED <<vars, requested, _closed, alive, effects>>

\* wait_for gives up, which is also possible when the process has just ended;
\* the process is killed, which then changes nothing.
CommandTimeout ==
    /\ process \in {"running", "exit0", "exit1"}
    /\ process' = "killed"
    /\ UNCHANGED <<vars, requested, _closed, alive, effects>>

\* process.wait() after the kill.
Killed ==
    /\ process = "killed"
    /\ Loop!Fail(SSHError)
    /\ alive' = alive \ {attempt}
    /\ process' = "none"
    /\ UNCHANGED <<requested, _closed, effects>>

\* Cancellation reaches communicate() or wait(), or the sleep: no handler of
\* request deals with it.
RequestCancelled ==
    /\ requested
    /\ Loop!Cancelled
    /\ process' = "none"
    /\ alive' = IF process = "killed" THEN alive \ {attempt} ELSE alive
    /\ UNCHANGED <<requested, _closed, effects>>

LocalWake == requested /\ Loop!Wake /\ UNCHANGED localVars

close ==
    /\ requested /\ ~_closed
    /\ _closed' = TRUE
    /\ UNCHANGED <<vars, requested, alive, process, effects>>

-----------------------------------------------------------------------------
(* The processes *)

\* A command does what it is for and ends, or fails before that or after it.
ProcessEnds(a) ==
    /\ a \in alive
    /\ ~(a = attempt /\ process = "killed")
    /\ \E code \in {"exit0", "exit1"}, done \in BOOLEAN :
         /\ code = "exit0" => done
         /\ process' = IF a = attempt /\ process = "running" THEN code ELSE process
         /\ effects' = IF done THEN effects + 1 ELSE effects
    /\ alive' = alive \ {a}
    /\ UNCHANGED <<vars, requested, _closed>>

\* The kill finds a process that had done its work but not ended.
KilledLate ==
    /\ process = "killed" /\ attempt \in alive
    /\ effects' = effects + 1
    /\ alive' = alive \ {attempt}
    /\ UNCHANGED <<vars, requested, _closed, process>>

Process == KilledLate \/ \E a \in alive : ProcessEnds(a)

LocalNext ==
    \/ request \/ Execute \/ Completed \/ CommandFails \/ CommandTimeout \/ Killed
    \/ RequestCancelled \/ LocalWake \/ close \/ Process

LocalSpec == Init /\ LocalInit /\ [][LocalNext]_<<vars, localVars>>

-----------------------------------------------------------------------------
(* Properties *)

\* The commands of a request never overlap: a process is running only for the
\* attempt under way, or was left behind by the cancellation that ended the
\* request.  So it takes effect once per attempt at most, and once at least if
\* the request returned.
OneCommandAtATime ==
    requested =>
        /\ alive # {} => alive = {attempt} /\ pc \in {"running", "cancelled"}
        /\ effects <= calls
        /\ pc = "returned" => effects >= 1

=============================================================================
