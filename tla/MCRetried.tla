----------------------------- MODULE MCRetried -----------------------------
(***************************************************************************)
(* The operations that are retried, or wait for what others do, in one     *)
(* small instance for TLC: a call under retry_async (RetryAsync), blocks   *)
(* of a RetryContext, a request of the local session, and the waits,       *)
(* streams and transfers of the task and file tools.  A behaviour is a     *)
(* call of one of them.                                                    *)
(***************************************************************************)
EXTENDS LocalSession, RetryContext, TaskHelper, FileTransfer

MCError == {"transient", "fatal"}
MCRetryable == {"transient", "timeout"}

allVars == <<vars, localVars, contextVars, taskVars, helperVars, fileVars>>

MCInit ==
    Init /\ LocalInit /\ ContextInit /\ WaitInit /\ HelperInit /\ TransferInit

NoneCalled == calls = 0 /\ ~requested
NoBlock == uses = 0
NoTasks == caller = "none"

\* Waits that are retried are many: the task tools get one good UPID only here.
FewWaits == caller' = "tools" => bad' = BadUpid

MCNext ==
    \/ /\ NoBlock /\ NoTasks
       /\ UNCHANGED <<contextVars, taskVars, helperVars, fileVars>>
       /\ \/ ~requested /\ Next /\ UNCHANGED localVars
          \/ LocalNext
    \/ /\ NoneCalled /\ NoTasks
       /\ UNCHANGED <<vars, localVars, taskVars, helperVars, fileVars>>
       /\ ContextNext
    \/ /\ NoneCalled /\ NoBlock
       /\ UNCHANGED <<vars, localVars, contextVars>>
       /\ \/ WaitNext /\ FewWaits /\ UNCHANGED <<helperVars, fileVars>>
          \/ HelperNext /\ UNCHANGED fileVars
          \/ TransferNext /\ UNCHANGED helperVars

\* The event loop runs and time passes; the tasks of the server need not end.
TaskLoop ==
    /\ UNCHANGED <<vars, localVars, contextVars>>
    /\ \/ WaitLoop /\ UNCHANGED <<helperVars, fileVars>>
       \/ HelperLoop /\ UNCHANGED fileVars
       \/ TransferLoop /\ UNCHANGED helperVars

MCSpec == MCInit /\ [][MCNext]_allVars /\ WF_allVars(TaskLoop)

=============================================================================
