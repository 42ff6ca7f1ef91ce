---------------------------- MODULE RetryContext ----------------------------
(***************************************************************************)
(* RetryContext of proxmoxer/retry.py, driven by the loop its docstring    *)
(* documents (retry.py:245-254).  One context object may be entered by     *)
(* several `async with` blocks, one after another.                         *)
(***************************************************************************)
EXTENDS RetryStrategy

CONSTANT MaxUses    \* bound: blocks that enter the context

ASSUME ContextAssumption == MaxUses \in Nat

VARIABLES
    context_attempt, success, last_exception,  \* fields of the context
    block,   \* where the block is
    tries,   \* history: tries of the operation in this block
    uses     \* history: blocks so far

contextVars == <<context_attempt, success, block, last_exception, tries, uses>>

ContextInit ==
    /\ context_attempt = 0
    /\ success = FALSE
    /\ block = "outside"
    /\ last_exception = "none"
    /\ tries = 0
    /\ uses = 0

Left == {"ok", "nothing", "raised", "cancelled"}

\* __aenter__ sets the attempt back, and nothing else.
Enter ==
    /\ block \in {"outside"} \union Left
    /\ uses < MaxUses
    /\ context_attempt' = 1
    /\ block' = "loop"
    /\ tries' = 0
    /\ uses' = uses + 1
    /\ UNCHANGED <<success, last_exception>>

should_continue == context_attempt <= MaxAttempts /\ ~success

\* The while loop: try the operation, or leave the block without a result.
Try ==
    /\ block = "loop"
    /\ \/ should_continue /\ block' = "running" /\ tries' = tries + 1
       \/ ~should_continue /\ block' = "nothing" /\ UNCHANGED tries
    /\ UNCHANGED <<context_attempt, success, last_exception, uses>>

ContextSucceed ==
    /\ block = "running"
    /\ success' = TRUE
    /\ block' = "ok"
    /\ UNCHANGED <<context_attempt, last_exception, tries, uses>>

\* handle_error decides between a wait and the error itself.
ContextFail(e) ==
    /\ block = "running"
    /\ last_exception' = e
    /\ block' = IF should_retry(e, context_attempt) THEN "waiting" ELSE "raised"
    /\ UNCHANGED <<context_attempt, success, tries, uses>>

\* mutant: only the time is waited
WaitKeepsAttempt ==
    /\ block = "waiting"
    /\ block' = "loop"
    /\ UNCHANGED <<context_attempt, success, last_exception, tries, uses>>

ContextWait ==
    /\ block = "waiting"
    /\ context_attempt' = context_attempt + 1
    /\ block' = "loop"
    /\ UNCHANGED <<success, last_exception, tries, uses>>

\* Only a wait that sleeps can be cancelled.
ContextCancelled ==
    /\ \/ block = "running"
       \/ block = "waiting" /\ \E d \in get_delay(context_attempt) : d > 0
    /\ block' = "cancelled"
    /\ UNCHANGED <<context_attempt, success, last_exception, tries, uses>>

ContextNext ==
    \/ Enter \/ Try \/ ContextSucceed \/ ContextWait \/ ContextCancelled
    \/ \E e \in Error : ContextFail(e)

ContextSpec == ContextInit /\ [][ContextNext]_contextVars

-----------------------------------------------------------------------------
(* Properties *)

Result == IF block = "ok" THEN "ok" ELSE IF block \in Left THEN "error" ELSE "none"
Blocks ==
    INSTANCE BoundedAttempts
      WITH Max <- MaxAttempts, running <- (block = "running"), result <- Result

\* A block that leaves the loop by its condition, with neither a result nor an
\* error, is one that entered a context that had already succeeded: nothing ran.
NothingOnlyAfterSuccess ==
    block = "nothing" => success /\ uses > 1 /\ tries = 0

\* Every block is a bounded sequence of attempts that ends in one result, and
\* only a new block starts another one.  The one exception runs nothing.
BlocksAreAttempts ==
    /\ Blocks!Init
    /\ [][Blocks!Next \/ Enter]_<<tries, block = "running", Result>>
    /\ []NothingOnlyAfterSuccess

=============================================================================
