-------------------------- MODULE RetryAsyncProofs --------------------------
(***************************************************************************)
(* Proofs about RetryAsync, for every strategy, timeout and kind of error. *)
(* The delays are left open: what they are does not matter to how often    *)
(* the function runs and to what ends the loop.                            *)
(***************************************************************************)
EXTENDS RetryAsync, WellFoundedInduction, TLAPS

\* What the loop knows at each place: a wait is for an error that may be
\* retried, before the last attempt; an attempt about to run has not been counted
\* in calls.
LoopInv ==
    /\ attempt \in 1..MaxAttempts
    /\ calls \in Nat
    /\ pc \in {"check", "running", "sleeping"} \union Ended
    /\ pc # "exhausted"
    /\ pc = "sleeping" => attempt < MaxAttempts /\ error \in Retryable
    /\ pc = "raised" => error \notin Retryable \/ attempt = MaxAttempts
    /\ pc # "raised" => error \in Retryable \union {"none"}
    /\ calls <= attempt
    /\ pc = "check" => calls < attempt

\* The initial state satisfies the loop invariant.
LEMMA LoopInit == Init => LoopInv
  BY StrategyAssumption DEF Init, LoopInv, Ended

\* Every step of the wrapper keeps the loop invariant.
LEMMA LoopStep == LoopInv /\ [Next]_vars => LoopInv'
<1> SUFFICES ASSUME LoopInv, [Next]_vars PROVE LoopInv'
  OBVIOUS
<1> USE StrategyAssumption DEF LoopInv, Ended
<1>1. CASE DeadlinePassed
  BY <1>1 DEF DeadlinePassed, Caught, should_retry
<1>2. CASE Call
  BY <1>2 DEF Call
<1>3. CASE Return
  BY <1>3 DEF Return
<1>4. ASSUME NEW e \in Error, Fail(e) PROVE LoopInv'
  BY <1>4 DEF Fail, Caught, should_retry
<1>5. CASE Wake
  BY <1>5 DEF Wake
<1>6. CASE Cancelled
  BY <1>6 DEF Cancelled
<1>7. CASE UNCHANGED vars
  BY <1>7 DEF vars
<1> QED
  BY <1>1, <1>2, <1>3, <1>4, <1>5, <1>6, <1>7 DEF Next, Work

\* The loop invariant holds in every reachable state.
THEOREM LoopCorrect == Spec => []LoopInv
  BY LoopInit, LoopStep, PTL DEF Spec

\* An error that may not be retried is what the caller gets, from the attempt that
\* raised it; one that may be retried reaches the caller from the last attempt only.
THEOREM NonRetryable == Spec => []NonRetryableEnds
<1>1. LoopInv => NonRetryableEnds
  BY DEF LoopInv, NonRetryableEnds
<1> QED
  BY <1>1, LoopCorrect, PTL

-----------------------------------------------------------------------------
(* The wrapper implements BoundedAttempts *)

USE DEF Attempts!Next, Attempts!Try, Attempts!Succeed, Attempts!FailAndGoOn, Attempts!GiveUp

\* Every step of the wrapper is an attempt's step or a stutter.
LEMMA AttemptStep ==
    LoopInv /\ [Next]_vars =>
        [Attempts!Next]_<<calls, pc = "running",
            IF pc = "returned" THEN "ok" ELSE IF pc \in Ended THEN "error" ELSE "none">>
<1> SUFFICES ASSUME LoopInv, [Next]_vars
             PROVE  [Attempts!Next]_<<calls, pc = "running",
                      IF pc = "returned" THEN "ok" ELSE IF pc \in Ended THEN "error" ELSE "none">>
  OBVIOUS
<1> USE StrategyAssumption DEF LoopInv, Ended
<1>1. CASE DeadlinePassed
  BY <1>1 DEF DeadlinePassed, Caught
<1>2. CASE Call
  BY <1>2 DEF Call
<1>3. CASE Return
  BY <1>3 DEF Return
<1>4. ASSUME NEW e \in Error, Fail(e)
      PROVE  [Attempts!Next]_<<calls, pc = "running",
               IF pc = "returned" THEN "ok" ELSE IF pc \in Ended THEN "error" ELSE "none">>
  BY <1>4 DEF Fail, Caught
<1>5. CASE Wake
  BY <1>5 DEF Wake
<1>6. CASE Cancelled
  BY <1>6 DEF Cancelled
<1>7. CASE UNCHANGED vars
  BY <1>7 DEF vars
<1> QED
  BY <1>1, <1>2, <1>3, <1>4, <1>5, <1>6, <1>7 DEF Next, Work

\* retry_async implements BoundedAttempts: the function runs at most max_attempts
\* times, one run after another, and ends in the first success or in an error.
THEOREM RefinesAttempts == Spec => ImplementsAttempts
<1>1. Init => Attempts!Init
  BY DEF Init, Attempts!Init, Ended
<1> QED
  BY <1>1, AttemptStep, LoopCorrect, PTL DEF Spec, ImplementsAttempts, Attempts!Spec

-----------------------------------------------------------------------------
(* How long a call can take *)

\* A set of natural numbers has a least one: induction, as a statement about sets.
LEMMA Least ==
  ASSUME NEW T, T \subseteq Nat, T # {}
  PROVE  \E x \in T : \A y \in T : x <= y
<1> DEFINE R == {p \in Nat \X Nat : p[1] < p[2]}
<1>1. OpToRel(<, Nat) = R
  BY DEF OpToRel
<1>2. IsWellFoundedOn(R, Nat)
  BY <1>1, NatLessThanWellFounded
<1>3. PICK x \in T : \A y \in T : ~(<<y, x>> \in R)
  <2> HIDE DEF R
  <2> QED
    BY <1>2, WFMin
<1>4. \A y \in T : ~(y < x)
  BY <1>3
<1> QED
  BY <1>4

\* A function that adds up what is given exists.
LEMMA SumExists ==
  ASSUME NEW N \in Nat, NEW d
  PROVE  \E f : f = [n \in 0..N |-> IF n = 0 THEN 0 ELSE f[n - 1] + d[n]]
<1> DEFINE Adds(f, m) == f = [n \in 0..m |-> IF n = 0 THEN 0 ELSE f[n - 1] + d[n]]
           T == {m \in Nat : ~ \E f : Adds(f, m)}
<1> SUFFICES ASSUME T # {} PROVE FALSE
  BY DEF T
<1>1. PICK m \in T : \A k \in T : m <= k
  BY Least
<1>2. m # 0
  <2>1. Adds([n \in 0..0 |-> 0], 0)
    OBVIOUS
  <2> QED
    BY <2>1
<1>3. PICK f : Adds(f, m - 1)
  <2>1. m - 1 \in Nat /\ ~(m <= m - 1)
    BY <1>2
  <2> QED
    BY <1>1, <2>1
<1>4. Adds([n \in 0..m |-> IF n = m THEN f[m - 1] + d[m] ELSE f[n]], m)
  BY <1>2, <1>3
<1> QED
  BY <1>1, <1>4

\* What such a function is.
LEMMA SumIs ==
  ASSUME NEW N \in Nat, NEW d, NEW f,
         f = [n \in 0..N |-> IF n = 0 THEN 0 ELSE f[n - 1] + d[n]],
         \A n \in 1..N : d[n] \in Nat
  PROVE  /\ f[0] = 0
         /\ \A n \in 1..N : f[n] = f[n - 1] + d[n]
         /\ \A n \in 0..N : f[n] \in Nat
<1>1. f[0] = 0
  OBVIOUS
<1>2. \A n \in 1..N : f[n] = f[n - 1] + d[n]
  OBVIOUS
<1>3. \A n \in 0..N : f[n] \in Nat
  <2> DEFINE T == {n \in 0..N : f[n] \notin Nat}
  <2> SUFFICES ASSUME T # {} PROVE FALSE
    OBVIOUS
  <2>0. T \subseteq Nat /\ T \subseteq 0..N
    OBVIOUS
  <2>1. PICK m \in T : \A k \in T : m <= k
    <3> HIDE DEF T
    <3> QED
      BY <2>0, Least
  <2>2. m \in 1..N /\ m - 1 \in 0..N /\ ~(m <= m - 1)
    BY <1>1, <2>1
  <2>3. f[m - 1] \in Nat
    BY <2>1, <2>2
  <2> QED
    BY <1>2, <2>1, <2>2, <2>3
<1> QED
  BY <1>1, <1>2, <1>3

\* The longest delay is a number of ticks.
LEMMA LongestIsNat == \A n \in 1..MaxAttempts : Backoff(n) \in Nat /\ Longest[n] \in Nat
  BY StrategyAssumption, TicksAssumption DEF Backoff, Longest

\* What MaxBackoff adds up, and that it is a number of ticks.
LEMMA SleptAdds ==
    /\ Slept[0] = 0
    /\ \A n \in 1..MaxAttempts : Slept[n] = Slept[n - 1] + Longest[n]
    /\ \A n \in 0..MaxAttempts : Slept[n] \in Nat
<1>1. MaxAttempts \in Nat
  BY StrategyAssumption
<1>2. PICK f : f = [n \in 0..MaxAttempts |-> IF n = 0 THEN 0 ELSE f[n - 1] + Longest[n]]
  BY <1>1, SumExists
<1>3. Slept = [n \in 0..MaxAttempts |-> IF n = 0 THEN 0 ELSE Slept[n - 1] + Longest[n]]
  BY <1>2, Zenon DEF Slept
<1> QED
  BY <1>1, <1>3, LongestIsNat, SumIs

\* A delay is no longer than the longest.
LEMMA DelayBounded ==
  ASSUME NEW a \in 1..MaxAttempts, NEW d \in get_delay(a)
  PROVE  d \in Nat /\ d <= Longest[a]
<1>1. Backoff(a) \in Nat
  BY LongestIsNat
<1>2. Longest[a] = Backoff(a) + (IF Jitter THEN Backoff(a) \div 4 ELSE 0)
  BY DEF Longest
<1> QED
  BY <1>1, <1>2 DEF get_delay

\* What was spent up to the last attempt, and on it.
BudgetInv ==
    /\ elapsed \in Nat /\ delay \in Nat
    /\ elapsed <= attempt * MaxRun + Slept[attempt - 1]
    /\ pc \in {"check", "running"} => elapsed <= (attempt - 1) * MaxRun + Slept[attempt - 1]
    /\ pc = "sleeping" => delay <= Longest[attempt]
    /\ pc # "sleeping" => delay = 0

\* Nothing is spent at first.
LEMMA BudgetInit == Init => BudgetInv
  BY SleptAdds, RetryAssumption DEF Init, BudgetInv

\* A run takes no longer than it may, and a sleep as long as the delay.
LEMMA BudgetStep == LoopInv /\ LoopInv' /\ BudgetInv /\ [Next]_vars => BudgetInv'
<1> SUFFICES ASSUME LoopInv, LoopInv', BudgetInv, [Next]_vars PROVE BudgetInv'
  OBVIOUS
<1>1. /\ attempt \in 1..MaxAttempts /\ MaxAttempts \in Nat /\ MaxRun \in Nat
      /\ attempt \in Nat
  BY StrategyAssumption, RetryAssumption DEF LoopInv
<1> DEFINE runs == attempt * MaxRun
           before == (attempt - 1) * MaxRun
           slept == Slept[attempt - 1]
<1>2. runs \in Nat /\ before \in Nat /\ runs = before + MaxRun
  BY <1>1
<1>3. slept \in Nat
  BY <1>1, SleptAdds
<1>4. ASSUME NEW e, Caught(e), UNCHANGED attempt, elapsed' \in Nat, delay = 0,
             elapsed' <= runs + slept
      PROVE  BudgetInv'
  <2>1. CASE pc' = "sleeping" /\ delay' \in get_delay(attempt)
    BY <1>1, <1>4, <2>1, DelayBounded DEF BudgetInv
  <2>2. CASE pc' = "raised" /\ UNCHANGED delay
    BY <1>4, <2>2 DEF BudgetInv
  <2> QED
    BY <1>4, <2>1, <2>2 DEF Caught
<1>5. CASE DeadlinePassed
  BY <1>2, <1>3, <1>4, <1>5 DEF DeadlinePassed, BudgetInv
<1>6. CASE Call
  BY <1>6 DEF Call, BudgetInv
<1>7. CASE pc = "running" /\ elapsed' \in elapsed..(elapsed + MaxRun)
  <2>1. /\ elapsed' \in Nat /\ elapsed' <= runs + slept /\ delay = 0
    BY <1>1, <1>2, <1>3, <1>7 DEF BudgetInv
  <2>2. CASE Return
    BY <2>1, <2>2 DEF Return, BudgetInv
  <2>3. ASSUME NEW e \in Error, Fail(e) PROVE BudgetInv'
    BY <1>4, <2>1, <2>3 DEF Fail
  <2>4. CASE Cancelled
    BY <2>4 DEF Cancelled, BudgetInv
  <2>5. CASE UNCHANGED vars
    BY <2>5 DEF vars, BudgetInv
  <2> QED
    BY <1>7, <2>2, <2>3, <2>4, <2>5 DEF Next, Work, DeadlinePassed, Call, Wake
<1>8. CASE Wake
  <2>1. /\ attempt' = attempt + 1 /\ elapsed' = elapsed + delay /\ delay' = 0
        /\ delay <= Longest[attempt] /\ delay \in Nat /\ elapsed \in Nat
        /\ elapsed <= runs + slept /\ pc' # "sleeping"
    BY <1>8 DEF Wake, BudgetInv
  <2>2. Slept[attempt] = slept + Longest[attempt] /\ Longest[attempt] \in Nat
    BY <1>1, SleptAdds, LongestIsNat
  <2>3. attempt' - 1 = attempt /\ (attempt' - 1) * MaxRun = runs
        /\ attempt' * MaxRun = runs + MaxRun
    BY <1>1, <2>1
  <2>4. elapsed' <= runs + Slept[attempt]
    BY <1>2, <1>3, <2>1, <2>2
  <2>5. elapsed' <= (attempt' - 1) * MaxRun + Slept[attempt' - 1]
    BY <2>3, <2>4
  <2>6. elapsed' <= attempt' * MaxRun + Slept[attempt' - 1]
    BY <1>1, <1>2, <1>3, <2>1, <2>2, <2>3, <2>4
  <2> QED
    BY <2>1, <2>5, <2>6 DEF BudgetInv
<1>9. CASE Cancelled
  BY <1>9 DEF Cancelled, BudgetInv
<1>10. CASE UNCHANGED vars
  BY <1>10 DEF vars, BudgetInv
<1> QED
  BY <1>5, <1>6, <1>7, <1>8, <1>9, <1>10 DEF Next, Work, Return, Fail

\* A call takes no longer than its runs and the longest back-off between them: for
\* every strategy, jitter and timeout.
THEOREM CallWithinBudget == Spec => []BackoffBudget
<1>1. LoopInv /\ BudgetInv => BackoffBudget
  <2> SUFFICES ASSUME LoopInv, BudgetInv PROVE BackoffBudget
    OBVIOUS
  <2>1. attempt \in 1..MaxAttempts /\ MaxAttempts \in Nat /\ MaxRun \in Nat
    BY StrategyAssumption, RetryAssumption DEF LoopInv
  <2>2. /\ attempt * MaxRun \in Nat /\ Slept[attempt - 1] \in Nat /\ Longest[attempt] \in Nat
        /\ Slept[attempt] = Slept[attempt - 1] + Longest[attempt]
    BY <2>1, SleptAdds, LongestIsNat
  <2>3. CASE pc = "sleeping"
    BY <2>2, <2>3 DEF BudgetInv, BackoffBudget, MaxBackoff
  <2>4. CASE pc # "sleeping"
    BY <2>2, <2>4 DEF BudgetInv, BackoffBudget, MaxBackoff
  <2> QED
    BY <2>3, <2>4
<1> QED
  BY <1>1, BudgetInit, BudgetStep, LoopCorrect, PTL DEF Spec

=============================================================================
