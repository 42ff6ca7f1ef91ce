---------------------------- MODULE FileTransfer ----------------------------
(***************************************************************************)
(* Files of proxmoxer/tools/files.py: an upload or a download of one file  *)
(* under retry_async, with the wait_for_task of TaskWait for the task it   *)
(* starts.                                                                 *)
(*                                                                         *)
(* The local file is written over once by somebody else: what is read      *)
(* while that happens is the old content, the new one or a mixture.  A     *)
(* checksum stands for the content it was computed of.  The delays between *)
(* the attempts of a transfer play no part.                                *)
(***************************************************************************)
EXTENDS TaskWait

CONSTANT TransferAttempts   \* max_attempts of a transfer

ASSUME TransferAssumption == TransferAttempts \in Nat \ {0}

VARIABLES
    transfer,  \* where the transfer is
    tries_left,
    verify,    \* do_checksum_check, or the checksum arguments of a download
    follow,    \* wait_for_task
    file,      \* what the local file holds
    checksum,  \* locals of the attempt
    file_content,
    upid,
    body,      \* per task, what its request carried
    stored     \* what the storage holds

fileVars == <<transfer, tries_left, verify, follow, file, checksum, file_content,
              upid, body, stored>>
readVars == <<checksum, file_content>>
serverVars == <<body, stored>>
optionVars == <<verify, follow>>

TransferEnded == {"OK", "status", "raised", "cancelled"}
NoBody == [checksum |-> "none", content |-> "none"]

TransferInit ==
    /\ transfer = "idle"
    /\ tries_left = TransferAttempts
    /\ verify = "none" /\ follow = FALSE
    /\ file = "old"
    /\ checksum = "none" /\ file_content = "none"
    /\ upid = "none"
    /\ body = [u \in Upid |-> NoBody]
    /\ stored = "none"

-----------------------------------------------------------------------------
(* upload_local_file_to_storage *)

upload_local_file_to_storage ==
    /\ caller = "none"
    /\ caller' = "upload"
    /\ transfer' = "is_file"
    /\ verify' \in {"computed", "none"} /\ follow' \in BOOLEAN
    /\ UNCHANGED <<clock, task, waitVars, gatherVars, stopped>>
    /\ UNCHANGED <<tries_left, file, readVars, upid, serverVars>>

\* mutant: the attempts are not counted
AttemptFailsForever == transfer' = "retry" /\ UNCHANGED tries_left

\* Every failure is a FileOperationError, and retried.
AttemptFails ==
    /\ transfer' = IF tries_left > 1 THEN "retry" ELSE "raised"
    /\ tries_left' = tries_left - 1

\* A new attempt begins with nothing of the last one; the clock is that of its wait.
TransferAgain ==
    /\ transfer = "retry"
    /\ transfer' = IF caller = "upload" THEN "is_file" ELSE "head"
    /\ checksum' = "none" /\ file_content' = "none" /\ upid' = "none"
    /\ wait' = [u \in Upid |-> "idle"] /\ round' = FirstRound
    /\ clock' = 0 /\ start' = Never /\ until' = Never
    /\ seen' = Nothing /\ result' = Nothing
    /\ UNCHANGED <<caller, task, gatherVars, stopped, tries_left, optionVars, file, serverVars>>

IsFile ==
    /\ transfer = "is_file"
    /\ \/ /\ file # "none"
          /\ transfer' = IF verify = "computed" THEN "checksum" ELSE "read"
          /\ UNCHANGED tries_left
       \/ file = "none" /\ AttemptFails
    /\ UNCHANGED <<taskVars, optionVars, file, readVars, upid, serverVars>>

\* The file is open; what it held then is known to the one who reads it.
OpenToRead ==
    /\ transfer \in {"checksum", "read"}
    /\ \/ /\ file # "none"
          /\ transfer' = IF transfer = "checksum" THEN "hashing" ELSE "reading"
          /\ IF transfer = "checksum"
             THEN checksum' = file /\ UNCHANGED file_content
             ELSE file_content' = file /\ UNCHANGED checksum
          /\ UNCHANGED tries_left
       \/ file = "none" /\ AttemptFails /\ UNCHANGED readVars
    /\ UNCHANGED <<taskVars, optionVars, file, upid, serverVars>>

\* What is read of a file that held c when it was opened.  A file that was
\* removed can be read to its end.
ReadAs(c) == IF file \in {c, "none"} THEN {c} ELSE {c, file, "torn"}

calculate_checksum ==
    /\ transfer = "hashing"
    /\ checksum' \in ReadAs(checksum)
    /\ transfer' = "read"
    /\ UNCHANGED <<taskVars, tries_left, optionVars, file, file_content, upid, serverVars>>

ReadContent ==
    /\ transfer = "reading"
    /\ file_content' \in ReadAs(file_content)
    /\ transfer' = "post"
    /\ UNCHANGED <<taskVars, tries_left, optionVars, file, checksum, upid, serverVars>>

\* mutant: the checksum is computed and not sent
PostedUnchecked == [checksum |-> "none", content |-> file_content]

Posted == [checksum |-> checksum, content |-> file_content]

\* The server starts a task for the upload; the answer may be lost.
PostUpload ==
    /\ transfer = "post" /\ caller = "upload"
    /\ \E u \in {v \in Upid : body[v] = NoBody} :
         /\ body' = [body EXCEPT ![u] = Posted]
         /\ \/ /\ upid' = u
               /\ transfer' = IF follow THEN "wait" ELSE "get"
               /\ wait' = IF follow THEN [wait EXCEPT ![u] = "begin"] ELSE wait
               /\ UNCHANGED tries_left
            \/ AttemptFails /\ UNCHANGED <<upid, wait>>
    /\ UNCHANGED <<caller, clock, task, round, start, until, seen, result, gatherVars, stopped>>
    /\ UNCHANGED <<optionVars, file, readVars, stored>>

\* The request is refused, or never reaches the server.
PostFails ==
    /\ transfer = "post" /\ caller = "upload"
    /\ AttemptFails
    /\ UNCHANGED <<taskVars, optionVars, file, readVars, upid, serverVars>>

\* The wait is over; its failure is one of the attempt, whatever it failed for.
WaitOver ==
    /\ transfer = "wait" /\ wait[upid] = "ended"
    /\ \/ result[upid] = "OK" /\ transfer' = "OK" /\ UNCHANGED tries_left
       \/ result[upid] # "OK" /\ AttemptFails
    /\ UNCHANGED <<taskVars, optionVars, file, readVars, upid, serverVars>>

\* One status in the place of the wait.
GetStatus ==
    /\ transfer = "get"
    /\ \/ transfer' = "status" /\ UNCHANGED tries_left
       \/ AttemptFails
    /\ UNCHANGED <<taskVars, optionVars, file, readVars, upid, serverVars>>

-----------------------------------------------------------------------------
(* download_file_to_storage *)

\* Both of checksum and checksum_type are given, one of them, or neither.
download_file_to_storage ==
    /\ caller = "none"
    /\ caller' = "download"
    /\ transfer' = "head"
    /\ verify' \in {"given", "half", "none"} /\ follow' \in BOOLEAN
    /\ UNCHANGED <<clock, task, waitVars, gatherVars, stopped>>
    /\ UNCHANGED <<tries_left, file, readVars, upid, serverVars>>

\* get_file_info: an error or another status than 200 only costs the name.
get_file_info ==
    /\ transfer = "head"
    /\ \E filename \in {"none", "name"} :
         \/ verify = "given" /\ transfer' = "post" /\ UNCHANGED tries_left
         \/ verify = "half" /\ AttemptFails
         \/ verify = "none" /\ UNCHANGED tries_left
            /\ transfer' = IF filename = "none" THEN "post" ELSE "discover"
    /\ UNCHANGED <<taskVars, optionVars, file, readVars, upid, serverVars>>

\* get_checksums_from_file_url: the first file of checksums with a line for the
\* name; without a name no line is one for it.
get_checksums_from_file_url ==
    /\ transfer = "discover"
    /\ checksum' \in {"none", "listed"}
    /\ transfer' = "post"
    /\ UNCHANGED <<taskVars, tries_left, optionVars, file, file_content, upid, serverVars>>

\* The path is download_url, the server's is download-url: it refuses.
PostDownload ==
    /\ transfer = "post" /\ caller = "download"
    /\ AttemptFails
    /\ UNCHANGED <<taskVars, optionVars, file, readVars, upid, serverVars>>

-----------------------------------------------------------------------------
TransferCancelled ==
    /\ transfer \notin {"idle"} \union TransferEnded
    /\ transfer' = "cancelled"
    /\ wait' = [u \in Upid |-> IF wait[u] = "idle" THEN "idle" ELSE "ended"]
    /\ result' = [u \in Upid |-> IF wait[u] \in {"idle", "ended"} THEN result[u] ELSE "cancelled"]
    /\ seen' = Nothing
    /\ UNCHANGED <<caller, clock, task, round, start, until, gatherVars, stopped>>
    /\ UNCHANGED <<tries_left, optionVars, file, readVars, upid, serverVars>>

\* Somebody writes the local file over, or removes it.
FileChanges ==
    /\ transfer \notin {"idle"} \union TransferEnded
    /\ file = "old" /\ caller = "upload"
    /\ file' \in {"new", "none"}
    /\ UNCHANGED <<taskVars, transfer, tries_left, optionVars, readVars, upid, serverVars>>

\* A task of the server ends; it stores what it was sent unless a checksum was
\* sent too and does not fit.
TaskEnds(u) ==
    /\ body[u] # NoBody /\ task[u] = "running"
    /\ \/ /\ body[u].checksum \in {"none", body[u].content}
          /\ task' = [task EXCEPT ![u] = "OK"]
          /\ stored' = body[u].content
       \/ task' = [task EXCEPT ![u] = "failed"] /\ UNCHANGED stored
    /\ UNCHANGED <<caller, clock, waitVars, gatherVars, stopped>>
    /\ UNCHANGED <<transfer, tries_left, optionVars, file, readVars, upid, body>>

TransferLoop ==
    \/ /\ caller = "upload" /\ UNCHANGED fileVars
       /\ (\E u \in Upid : wait_for_task(u)) \/ Tick
    \/ TransferAgain \/ IsFile \/ OpenToRead \/ calculate_checksum \/ ReadContent
    \/ PostUpload \/ PostFails \/ WaitOver \/ GetStatus
    \/ get_file_info \/ get_checksums_from_file_url \/ PostDownload

TransferNext ==
    \/ upload_local_file_to_storage \/ download_file_to_storage
    \/ TransferLoop
    \/ TransferCancelled \/ FileChanges \/ \E u \in Upid : TaskEnds(u)

TransferSpec == WaitInit /\ TransferInit /\ [][TransferNext]_<<taskVars, fileVars>>

-----------------------------------------------------------------------------
(* Properties *)

\* With do_checksum_check nothing but a content the file once had is ever stored,
\* although the file is read twice and may be written over in between, and tasks
\* of attempts that were given up may still end.
StoredIsWhole == verify = "computed" => stored # "torn"

\* An upload that returns after its wait has stored what it read, unless the task
\* of an earlier attempt, whose request or wait was lost, ended later still.
UploadIsStored ==
    transfer = "OK" =>
        /\ task[upid] = "OK"
        /\ \/ stored = file_content
           \/ \E u \in Upid \ {upid} : task[u] = "OK" /\ stored = body[u].content

\* Every transfer comes to an end, and with it every wait, even if no task does.
TransferEnds ==
    (transfer \notin {"idle"} \union TransferEnded) ~>
        (transfer \in TransferEnded /\ \A u \in Upid : wait[u] \in {"idle", "ended"})

=============================================================================
