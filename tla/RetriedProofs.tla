--------------------------- MODULE RetriedProofs ---------------------------
(***************************************************************************)
(* Proofs about what is built on the retries: a request of the local       *)
(* session, which is one process per attempt (LocalSession), and the       *)
(* blocks of a RetryContext (RetryContext), for every strategy.            *)
(***************************************************************************)
EXTENDS LocalSession, RetryContext, TLAPS

-----------------------------------------------------------------------------
(* A request of the local session *)

\* Where the loop is, what it knows of its process, and which processes there can
\* be go together; a process that has not ended may still take effect once.
LocalInv ==
    /\ attempt \in 1..MaxAttempts /\ calls \in Nat /\ effects \in Nat
    /\ pc \in {"check", "running", "sleeping", "returned", "raised", "cancelled"}
    /\ process \in {"none", "running", "exit0", "exit1", "refused", "killed"}
    /\ ~requested => calls = 0 /\ pc = "check"
    /\ calls = IF pc = "check" THEN attempt - 1 ELSE attempt
    /\ pc = "sleeping" => attempt < MaxAttempts
    /\ process # "none" <=> pc = "running"
    /\ alive \subseteq {attempt}
    /\ process = "running" => attempt \in alive
    /\ alive # {} => process \in {"running", "killed"} \/ pc = "cancelled"
    /\ effects <= calls
    /\ \A a \in alive : effects < calls
    /\ process = "exit0" \/ pc = "returned" => effects >= 1

\* No process runs before the first request.
LEMMA LocalStarts == Init /\ LocalInit => LocalInv
  BY StrategyAssumption DEF Init, LocalInit, LocalInv

\* The steps of the request that concern its process.
LEMMA RequestStep ==
  ASSUME LocalInv,
         request \/ Execute \/ Completed \/ CommandFails \/ CommandTimeout \/ Killed
           \/ RequestCancelled \/ LocalWake \/ close
  PROVE  LocalInv'
<1> USE StrategyAssumption DEF LocalInv, vars
<1>1. CASE request
  BY <1>1 DEF request
<1>2. CASE Execute
  BY <1>2 DEF Execute, Loop!Call
<1>3. CASE Completed
  BY <1>3 DEF Completed, Loop!Return
<1>4. CASE CommandFails
  BY <1>4, LocalAssumption DEF CommandFails, Loop!Fail, Loop!Caught, Loop!should_retry
<1>5. CASE CommandTimeout
  BY <1>5 DEF CommandTimeout
<1>6. CASE Killed
  BY <1>6, LocalAssumption DEF Killed, Loop!Fail, Loop!Caught, Loop!should_retry
<1>7. CASE RequestCancelled
  BY <1>7 DEF RequestCancelled, Loop!Cancelled
<1>8. CASE LocalWake
  BY <1>8 DEF LocalWake, Loop!Wake, localVars
<1>9. CASE close
  BY <1>9 DEF close
<1> QED
  BY <1>1, <1>2, <1>3, <1>4, <1>5, <1>6, <1>7, <1>8, <1>9

\* The steps of a process, of the attempt under way or one left behind.
LEMMA ProcessStep ==
  ASSUME LocalInv, Process
  PROVE  LocalInv'
<1> USE DEF LocalInv, vars
<1>1. CASE KilledLate
  <2>1. alive' = {} /\ effects < calls
    BY <1>1 DEF KilledLate
  <2> QED
    BY <1>1, <2>1 DEF KilledLate
<1>2. ASSUME NEW a \in alive, ProcessEnds(a)
      PROVE  LocalInv'
  <2>1. a = attempt /\ alive' = {} /\ effects < calls
    BY <1>2 DEF ProcessEnds
  <2>2. \/ effects' = effects /\ process' # "exit0"
        \/ effects' = effects + 1
    BY <1>2, <2>1 DEF ProcessEnds
  <2>3. IF process = "running" THEN process' \in {"exit0", "exit1"} ELSE process' = process
    BY <1>2, <2>1 DEF ProcessEnds
  <2>4. UNCHANGED <<pc, attempt, calls, requested>>
    BY <1>2 DEF ProcessEnds
  <2>5. effects' \in Nat /\ effects' <= calls /\ effects <= effects'
    BY <2>1, <2>2
  <2>6. process' = "exit0" => effects' >= 1
    BY <1>2, <2>1, <2>2
  <2> QED
    BY <2>1, <2>3, <2>4, <2>5, <2>6
<1> QED
  BY <1>1, <1>2 DEF Process

\* Every step of the local session keeps its invariant.
LEMMA LocalStep == LocalInv /\ [LocalNext]_<<vars, localVars>> => LocalInv'
<1>1. LocalInv /\ UNCHANGED <<vars, localVars>> => LocalInv'
  BY DEF LocalInv, vars, localVars
<1> QED
  BY <1>1, RequestStep, ProcessStep DEF LocalNext

\* The invariant holds in every reachable state of the local session.
THEOREM LocalCorrect == LocalSpec => []LocalInv
  BY LocalStarts, LocalStep, PTL DEF LocalSpec

\* The commands of a request never overlap, it takes effect at most once per
\* attempt, and a request that returned has taken effect: for every number of
\* attempts, and whenever a command is timed out, killed or cancelled.
THEOREM CommandsNeverOverlap == LocalSpec => []OneCommandAtATime
<1>1. LocalInv => OneCommandAtATime
  BY DEF LocalInv, OneCommandAtATime
<1> QED
  BY <1>1, LocalCorrect, PTL

\* Every step of the local session is one of BoundedAttempts, or none of its own.
LEMMA LocalAttempt ==
    LocalInv /\ [LocalNext]_<<vars, localVars>> =>
        [Attempts!Next]_<<calls, pc = "running",
            IF pc = "returned" THEN "ok" ELSE IF pc \in Ended THEN "error" ELSE "none">>
<1> SUFFICES ASSUME LocalInv, [LocalNext]_<<vars, localVars>>
             PROVE  [Attempts!Next]_<<calls, pc = "running",
                      IF pc = "returned" THEN "ok" ELSE IF pc \in Ended THEN "error" ELSE "none">>
  OBVIOUS
<1> USE StrategyAssumption
    DEF LocalInv, Ended, Attempts!Next, Attempts!Try, Attempts!Succeed,
        Attempts!FailAndGoOn, Attempts!GiveUp
<1>1. CASE Execute
  BY <1>1 DEF Execute, Loop!Call
<1>2. CASE Completed
  BY <1>2 DEF Completed, Loop!Return
<1>3. CASE CommandFails \/ Killed
  BY <1>3 DEF CommandFails, Killed, Loop!Fail, Loop!Caught
<1>4. CASE RequestCancelled
  BY <1>4 DEF RequestCancelled, Loop!Cancelled
<1>5. CASE LocalWake
  BY <1>5 DEF LocalWake, Loop!Wake
<1>6. CASE request \/ CommandTimeout \/ close \/ Process \/ UNCHANGED <<vars, localVars>>
  <2>1. UNCHANGED vars
    BY <1>6 DEF request, CommandTimeout, close, Process, KilledLate, ProcessEnds
  <2> QED
    BY <2>1 DEF vars
<1> QED
  BY <1>1, <1>2, <1>3, <1>4, <1>5, <1>6 DEF LocalNext

\* A request of the local session is a bounded sequence of attempts: its command is
\* started at most max_attempts times, and the first success is its result.
THEOREM LocalRefinesAttempts == LocalSpec => ImplementsAttempts
<1>1. Init => Attempts!Init
  BY DEF Init, Attempts!Init, Ended
<1> QED
  BY <1>1, LocalAttempt, LocalCorrect, PTL DEF LocalSpec, ImplementsAttempts, Attempts!Spec

-----------------------------------------------------------------------------
(* The blocks of a RetryContext *)

\* The counter of the context is the number of the try under way, or of the next;
\* only a block that entered after a success meets one.
ContextInv ==
    /\ context_attempt \in 0..MaxAttempts /\ tries \in Nat /\ uses \in Nat
    /\ success \in BOOLEAN
    /\ block \in {"outside", "loop", "running", "waiting"} \union Left
    /\ block = "outside" => ~success /\ tries = 0
    /\ block = "loop" => context_attempt = tries + 1
    /\ block = "loop" /\ success => tries = 0 /\ uses > 1
    /\ block \in {"running", "waiting"} => context_attempt = tries /\ ~success
    /\ block = "waiting" => context_attempt < MaxAttempts
    /\ success \/ block # "outside" => uses >= 1
    /\ NothingOnlyAfterSuccess

\* The context is outside of any block at first.
LEMMA ContextStarts == ContextInit => ContextInv /\ Blocks!Init
<1>1. ContextInit => ContextInv
  <2>1. ContextInit => context_attempt \in 0..MaxAttempts /\ tries \in Nat /\ uses \in Nat
    BY StrategyAssumption DEF ContextInit
  <2> QED
    BY <2>1 DEF ContextInit, ContextInv, NothingOnlyAfterSuccess, Left
<1>2. ContextInit => Blocks!Init
  BY DEF ContextInit, Left, Blocks!Init, Result
<1> QED
  BY <1>1, <1>2

\* Every step of a block keeps the invariant.
LEMMA ContextStep == ContextInv /\ [ContextNext]_contextVars => ContextInv'
<1> SUFFICES ASSUME ContextInv, [ContextNext]_contextVars PROVE ContextInv'
  OBVIOUS
<1> USE StrategyAssumption DEF ContextInv, NothingOnlyAfterSuccess, Left
<1>1. CASE Enter
  BY <1>1 DEF Enter
<1>2. CASE Try
  BY <1>2 DEF Try, should_continue
<1>3. CASE ContextSucceed
  BY <1>3 DEF ContextSucceed
<1>4. CASE ContextWait
  BY <1>4 DEF ContextWait
<1>5. CASE ContextCancelled
  BY <1>5 DEF ContextCancelled
<1>6. ASSUME NEW e \in Error, ContextFail(e) PROVE ContextInv'
  BY <1>6 DEF ContextFail, should_retry
<1>7. CASE UNCHANGED contextVars
  BY <1>7 DEF contextVars
<1> QED
  BY <1>1, <1>2, <1>3, <1>4, <1>5, <1>6, <1>7 DEF ContextNext

\* Every step of a block is one of BoundedAttempts, a new block, or none of its own.
LEMMA BlockStep ==
    ContextInv /\ [ContextNext]_contextVars =>
        [Blocks!Next \/ Enter]_<<tries, block = "running", Result>>
<1> SUFFICES ASSUME ContextInv, [ContextNext]_contextVars
             PROVE  [Blocks!Next \/ Enter]_<<tries, block = "running", Result>>
  OBVIOUS
<1> USE DEF ContextInv, Left, Result, Blocks!Next, Blocks!Try, Blocks!Succeed,
            Blocks!FailAndGoOn, Blocks!GiveUp
<1>1. CASE Enter
  BY <1>1
<1>2. CASE Try
  <2>1. CASE should_continue /\ block' = "running" /\ tries' = tries + 1
    <3>1. tries < MaxAttempts
      BY <1>2, <2>1, StrategyAssumption DEF Try, should_continue
    <3>2. Result = "none" /\ Result' = "none" /\ block # "running"
      BY <1>2, <2>1 DEF Try
    <3> QED
      BY <2>1, <3>1, <3>2 DEF Blocks!Try
  <2>2. CASE block' = "nothing" /\ tries' = tries
    BY <1>2, <2>2 DEF Try
  <2> QED
    BY <1>2, <2>1, <2>2 DEF Try
<1>3. CASE ContextSucceed
  BY <1>3 DEF ContextSucceed
<1>4. CASE ContextWait
  BY <1>4 DEF ContextWait
<1>5. CASE ContextCancelled
  BY <1>5 DEF ContextCancelled
<1>6. ASSUME NEW e \in Error, ContextFail(e)
      PROVE  [Blocks!Next \/ Enter]_<<tries, block = "running", Result>>
  BY <1>6 DEF ContextFail
<1>7. CASE UNCHANGED contextVars
  BY <1>7 DEF contextVars
<1> QED
  BY <1>1, <1>2, <1>3, <1>4, <1>5, <1>6, <1>7 DEF ContextNext

\* The invariant of the context holds in every reachable state.
THEOREM ContextCorrect == ContextSpec => []ContextInv
  BY ContextStarts, ContextStep, PTL DEF ContextSpec

\* Every block of a RetryContext is a bounded sequence of attempts that ends in one
\* result, however often one context is entered; the one that has neither a result
\* nor an error entered a context that had succeeded, and ran nothing.
THEOREM BlocksRefineAttempts == ContextSpec => BlocksAreAttempts
<1>1. ContextInv => NothingOnlyAfterSuccess
  BY DEF ContextInv
<1> QED
  BY <1>1, ContextStarts, BlockStep, ContextCorrect, PTL DEF ContextSpec, BlocksAreAttempts

=============================================================================
