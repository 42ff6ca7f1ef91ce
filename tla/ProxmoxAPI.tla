----------------------------- MODULE ProxmoxAPI -----------------------------
(***************************************************************************)
(* ProxmoxAPI of proxmoxer/core.py, which owns a backend, and the way of a *)
(* request from ProxmoxResource._request to the server and back.  The      *)
(* session repeats a request that fails (retry_async): what fails is an    *)
(* attempt that gets no answer and, for the SSH and local sessions, one    *)
(* whose answer is an error, since pvesh then ends with a code other than  *)
(* 0; an HTTPS answer of 400 or more is an answer like any other, and      *)
(* becomes an exception in _request, after the retries.                    *)
(*                                                                         *)
(* A request whose client gives up may have reached the server, or reach   *)
(* it later.  What the server does is left to the modules that extend      *)
(* this one.                                                               *)
(***************************************************************************)
EXTENDS Naturals

CONSTANTS
    Clients,        \* tasks that share the object
    MaxAttempts     \* max_attempts of the session's retry_async

ASSUME MaxAttemptsAssumption == MaxAttempts \in Nat \ {0}

VARIABLES
    backend,        \* of the object, once there is one; "refused" when there is none
    closed,         \* its _closed
    closing,        \* closing[c]: where c is in close()
    call,           \* call[c]: the request c makes
    late            \* a request its client gave up, which the server still gets

apiVars == <<backend, closed, closing>>
requestVars == <<call, late>>

SERVICES ==
    [PVE |-> {"local", "https", "ssh"}, PMG |-> {"local", "https", "ssh"}, PBS |-> {"https"}]

Backends == UNION {SERVICES[s] : s \in DOMAIN SERVICES}

NoCall == [pc |-> "idle", op |-> "none", arg |-> "none", attempt |-> 0, answer |-> "none"]

NotLate == [client |-> "none", op |-> "none", arg |-> "none"]

APIInit ==
    /\ backend = "none" /\ closed = FALSE
    /\ closing = [c \in Clients |-> "no"]
    /\ call = [c \in Clients |-> NoCall]
    /\ late = NotLate

-----------------------------------------------------------------------------
(* The object *)

\* Service and backend are checked before anything is made.
Supported(service, name, host) ==
    /\ service \in DOMAIN SERVICES
    /\ name \in SERVICES[service]
    /\ host => name # "local"

Create ==
    /\ backend = "none"
    /\ \E service \in DOMAIN SERVICES \union {"other"}, name \in Backends \union {"other"},
          host \in BOOLEAN :
         \/ Supported(service, name, host) /\ backend' = name
         \/ ~Supported(service, name, host) /\ backend' = "refused"
         \* only the HTTPS backend has a login to fail in initialize()
         \/ Supported(service, name, host) /\ name = "https" /\ backend' = "refused"
    /\ UNCHANGED <<closed, closing, requestVars>>

\* The sessions refuse requests as soon as close() is called.  The HTTPS one then waits
\* for its connections to close.  The SSH one leaves them open, since the pool it was
\* given is not its own (ClosePoolToo of SSHSession is about that), and the local one
\* has none: both return at once.
Close(c) ==
    /\ backend \in Backends /\ ~closed /\ closing[c] = "no" /\ call[c].pc = "idle"
    /\ closed' = TRUE
    /\ closing' = [closing EXCEPT ![c] = IF backend = "https" THEN "closing" ELSE "returned"]
    /\ UNCHANGED <<backend, requestVars>>

CloseAgain(c) ==
    /\ closed /\ closing[c] = "no" /\ call[c].pc = "idle"
    /\ closing' = [closing EXCEPT ![c] = "returned"]
    /\ UNCHANGED <<backend, closed, requestVars>>

CloseReturns(c) ==
    /\ closing[c] = "closing"
    /\ closing' = [closing EXCEPT ![c] = "returned"]
    /\ UNCHANGED <<backend, closed, requestVars>>

CloseCancelled(c) ==
    /\ closing[c] = "closing"
    /\ closing' = [closing EXCEPT ![c] = "cancelled"]
    /\ UNCHANGED <<backend, closed, requestVars>>

APINext ==
    \/ Create
    \/ \E c \in Clients : Close(c) \/ CloseAgain(c) \/ CloseReturns(c) \/ CloseCancelled(c)

-----------------------------------------------------------------------------
(* A request *)

\* On a closed session a request raises and changes nothing.
Request(c, op, arg) ==
    /\ backend \in Backends /\ ~closed /\ closing[c] = "no" /\ call[c].pc = "idle"
    /\ call' = [call EXCEPT ![c] = [pc |-> "sent", op |-> op, arg |-> arg, attempt |-> 1,
                                    answer |-> "none"]]
    /\ UNCHANGED <<apiVars, late>>

Answer(c, answer) == [call EXCEPT ![c].pc = "answered", ![c].answer = answer]

Ended(c) == [call EXCEPT ![c] = NoCall]

\* The next attempt of a request that failed, or the exception.
Again(c) ==
    IF call[c].attempt < MaxAttempts /\ ~closed
      THEN [call EXCEPT ![c].pc = "sent", ![c].attempt = @ + 1, ![c].answer = "none"]
      ELSE Ended(c)

\* No answer comes: the connection fails, or the time is up.  What was sent may
\* still arrive.
Lose(c) ==
    /\ call[c].pc # "idle"
    /\ \/ late' = late
       \/ /\ call[c].pc = "sent" /\ late = NotLate
          /\ late' = [client |-> c, op |-> call[c].op, arg |-> call[c].arg]
    /\ \/ call' = Again(c)
       \/ call' = Ended(c)      \* cancelled
    /\ UNCHANGED apiVars

\* An error in the answer of pvesh is a failure of the attempt.
Refused(c) ==
    /\ call[c].pc = "answered" /\ call[c].answer = "error" /\ backend # "https"
    /\ call' = Again(c)
    /\ UNCHANGED <<apiVars, late>>

\* The answer that _request gives, or makes an exception of.
Returns(c) ==
    /\ call[c].pc = "answered"
    /\ call[c].answer = "ok" \/ backend = "https"
    /\ call' = Ended(c)
    /\ UNCHANGED <<apiVars, late>>

=============================================================================
