--------------------------- MODULE RetryStrategy ---------------------------
(***************************************************************************)
(* The retry strategy of proxmoxer/retry.py: which errors are retried, and *)
(* after how long.  The random jitter is any value of its range.           *)
(***************************************************************************)
EXTENDS Integers

CONSTANTS
    MaxAttempts, InitialDelay, MaxDelay, Base, Jitter,
    Error,        \* kinds of exceptions the function raises
    Retryable     \* retryable_exceptions (all kinds for None)

\* The checks of RetryStrategy.__init__ (retry.py:55-62).  "timeout" is the
\* TimeoutError of retry_async itself.
ASSUME StrategyAssumption ==
    /\ MaxAttempts \in Nat /\ MaxAttempts >= 1
    /\ InitialDelay \in Nat
    /\ MaxDelay \in Nat /\ MaxDelay >= InitialDelay
    /\ Base \in Nat /\ Base >= 1
    /\ Jitter \in BOOLEAN
    /\ "none" \notin Error
    /\ Retryable \subseteq Error \union {"timeout"}

\* Time is counted in ticks such that every delay is a number of them.
ASSUME TicksAssumption == \A a \in 1..MaxAttempts : InitialDelay * (Base ^ (a - 1)) \in Nat

\* mutant: whatever is raised is retried
ShouldRetryAny(e, a) == a < MaxAttempts

should_retry(e, a) == a < MaxAttempts /\ e \in Retryable

\* The capped exponential back-off, before jitter.
Backoff(a) ==
    LET d == InitialDelay * (Base ^ (a - 1))
    IN  IF d < MaxDelay THEN d ELSE MaxDelay

\* mutant: the jitter is as large as the delay
GetDelayWide(a) ==
    IF Jitter THEN 0 .. (2 * Backoff(a)) ELSE {Backoff(a)}

\* Every delay get_delay may return: jitter is a quarter either way, after the cap.
get_delay(a) ==
    IF Jitter THEN (Backoff(a) - Backoff(a) \div 4) .. (Backoff(a) + Backoff(a) \div 4)
              ELSE {Backoff(a)}

\* The longest delays there can be, and the first n of them together.
Longest == [a \in 1..MaxAttempts |-> Backoff(a) + (IF Jitter THEN Backoff(a) \div 4 ELSE 0)]

Slept[n \in 0..MaxAttempts] == IF n = 0 THEN 0 ELSE Slept[n - 1] + Longest[n]

MaxBackoff(n) == Slept[n]

=============================================================================
