----------------------------- MODULE RetryAsync -----------------------------
(***************************************************************************)
(* The retry decorator of proxmoxer/retry.py: one call of a function under *)
(* retry_async.  Time is counted in ticks of the loop's clock; the random  *)
(* jitter of get_delay is any value of its range.                          *)
(***************************************************************************)
EXTENDS RetryStrategy

CONSTANTS
    Timeout,      \* overall timeout, 0 for None
    MaxRun        \* bound: ticks one run of the function takes

ASSUME RetryAssumption == Timeout \in Nat /\ MaxRun \in Nat

VARIABLES
    pc,       \* where the wrapper is
    attempt,  \* from 1
    elapsed,  \* ticks since start_time
    delay,    \* the sleep chosen for this attempt
    error,    \* last_exception
    calls     \* history: times the function was started

vars == <<pc, attempt, elapsed, delay, error, calls>>

-----------------------------------------------------------------------------
Init ==
    /\ pc = "check"
    /\ attempt = 1
    /\ elapsed = 0
    /\ delay = 0
    /\ error = "none"
    /\ calls = 0

\* The except clause: raise, or choose the delay and sleep.
Caught(e) ==
    /\ error' = e
    /\ \/ /\ should_retry(e, attempt)
          /\ pc' = "sleeping"
          /\ delay' \in get_delay(attempt)
       \/ /\ ~should_retry(e, attempt)
          /\ pc' = "raised"
          /\ UNCHANGED delay

\* The overall timeout is raised inside the try, so it is caught as well.
DeadlinePassed ==
    /\ pc = "check"
    /\ Timeout > 0 /\ elapsed >= Timeout
    /\ Caught("timeout")
    /\ UNCHANGED <<attempt, elapsed, calls>>

Call ==
    /\ pc = "check"
    /\ ~(Timeout > 0 /\ elapsed >= Timeout)
    /\ pc' = "running"
    /\ calls' = calls + 1
    /\ UNCHANGED <<attempt, elapsed, delay, error>>

\* mutant: a result may be looked at and found wanting
ReturnOrTryAgain ==
    /\ pc = "running"
    /\ pc' \in {"returned", "check"}
    /\ elapsed' \in elapsed..(elapsed + MaxRun)
    /\ UNCHANGED <<attempt, delay, error, calls>>

Return ==
    /\ pc = "running"
    /\ pc' = "returned"
    /\ elapsed' \in elapsed..(elapsed + MaxRun)
    /\ UNCHANGED <<attempt, delay, error, calls>>

Fail(e) ==
    /\ pc = "running"
    /\ elapsed' \in elapsed..(elapsed + MaxRun)
    /\ Caught(e)
    /\ UNCHANGED <<attempt, calls>>

\* After the sleep; past the last attempt the loop ends in RetryExhaustedError.
Wake ==
    /\ pc = "sleeping"
    /\ elapsed' = elapsed + delay
    /\ delay' = 0
    /\ attempt' = attempt + 1
    /\ pc' = IF attempt' <= MaxAttempts THEN "check" ELSE "exhausted"
    /\ UNCHANGED <<error, calls>>

\* Cancellation is not an Exception: it leaves the loop from either wait.
Cancelled ==
    /\ pc = "running" \/ (pc = "sleeping" /\ delay > 0)
    /\ pc' = "cancelled"
    /\ delay' = 0
    /\ UNCHANGED <<attempt, elapsed, error, calls>>

Work == DeadlinePassed \/ Call \/ Return \/ (\E e \in Error : Fail(e)) \/ Wake

Next == Work \/ Cancelled

Spec == Init /\ [][Next]_vars

-----------------------------------------------------------------------------
(* Properties *)

Ended == {"returned", "raised", "exhausted", "cancelled"}

\* Types of the wrapper's locals.
TypeOK ==
    /\ pc \in {"check", "running", "sleeping"} \union Ended
    /\ attempt \in 1..MaxAttempts
    /\ elapsed \in Nat /\ delay \in Nat
    /\ error \in Error \union {"none", "timeout"}
    /\ calls \in Nat

\* retry_async is a bounded sequence of attempts: an attempt of the loop starts
\* the function at most once, and the loop ends after max_attempts of them.
Attempts ==
    INSTANCE BoundedAttempts
      WITH Max <- MaxAttempts, tries <- calls, running <- (pc = "running"),
           result <- IF pc = "returned" THEN "ok"
                     ELSE IF pc \in Ended THEN "error" ELSE "none"
ImplementsAttempts == Attempts!Spec

\* An error that may not be retried, the TimeoutError of the loop itself among them,
\* ends the loop in the attempt that raised it, and the caller gets that error; one
\* that may be retried reaches the caller from the last attempt only.
NonRetryableEnds ==
    /\ error \notin Retryable \union {"none"} => pc = "raised"
    /\ pc = "raised" => error \notin Retryable \/ attempt = MaxAttempts

\* The longest a call can take: every run and the jittered back-off between runs.
BackoffBudget ==
    elapsed + delay <=
        attempt * MaxRun + MaxBackoff(IF pc = "sleeping" THEN attempt ELSE attempt - 1)

\* "timeout: Overall timeout for all attempts" (retry.py:162): nothing but the
\* run under way when it is over makes the call longer.
OverallTimeout == Timeout > 0 => elapsed <= Timeout + MaxRun

=============================================================================
