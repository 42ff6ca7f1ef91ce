---------------------------- MODULE HTTPSession ----------------------------
(***************************************************************************)
(* The HTTPS back end of proxmoxer/backends/https.py: concurrent requests  *)
(* of one ProxmoxHttpSession under retry_async, the ticket that            *)
(* ProxmoxHTTPAuth renews under its lock, and close().                     *)
(*                                                                         *)
(* asyncio switches tasks only where a coroutine waits: for the lock, for  *)
(* the answer to a login or to a request, in the sleep between attempts.   *)
(* One action is the code between two of these.  A ticket is the tick at   *)
(* which the server issued it; the CSRF token that came with it has the    *)
(* same name.  The server is modelled by when it may accept a ticket.      *)
(***************************************************************************)
EXTENDS Integers, Sequences, FiniteSets, SequencesExt

CONSTANTS
    Task,         \* tasks that make requests
    MaxAttempts,  \* attempts of retry_async
    RenewAge,     \* renew_age
    Timeout,      \* total timeout of a login and of a request
    Lifetime,     \* ticks the server accepts a ticket
    MaxClock,     \* bound: ticks of the behaviour
    NoToken       \* a header that was never set

\* A ticket renewed at renew_age is accepted for as long as the requests it
\* is attached to may take (3600 and 5 of 7200 seconds in the code).
ASSUME HTTPAssumption ==
    /\ IsFiniteSet(Task)
    /\ MaxAttempts \in Nat \ {0}
    /\ RenewAge \in Nat \ {0} /\ Timeout \in Nat /\ Lifetime \in Nat
    /\ Lifetime >= RenewAge + 2 * Timeout
    /\ MaxClock \in Nat /\ MaxClock >= Timeout
    /\ NoToken \notin Nat

VARIABLES
    clock,          \* time.monotonic(), in ticks
    ticket, birth,  \* pve_auth_ticket with its CSRF token, birth_time
    queue,          \* auth._lock: its holder, then its waiters in FIFO order
    header,         \* CSRFPreventionToken among the default headers of _session
    closed,         \* _closed; then any session, old or new, has a closed connector
    pc,             \* where the request of each task is
    attempt,        \* attempt of retry_async
    method,         \* of the request
    file,           \* whether the data of the caller still has its file
    since,          \* when the login or the request under way began
    sent,           \* the request under way
    upload,         \* history: whether the caller gave a file
    applied,        \* history: times the server carried the request out
    result          \* history: how the last request of a task ended

authVars == <<ticket, birth>>
taskVars == <<pc, attempt, method, file, since, sent, upload, applied, result>>
vars == <<clock, authVars, queue, header, closed, taskVars>>

NoMessage == [ticket |-> NoToken, csrf |-> NoToken, file |-> FALSE]
Stage == {"idle", "waiting", "login", "sent", "sleeping"}

\* ProxmoxAPI.create has logged in before it returns.
Init ==
    /\ ticket = 0
    /\ birth \in 0..Timeout
    /\ clock = birth
    /\ queue = <<>>
    /\ header = NoToken
    /\ closed = FALSE
    /\ pc = [t \in Task |-> "idle"]
    /\ attempt = [t \in Task |-> 1]
    /\ method = [t \in Task |-> "GET"]
    /\ file = [t \in Task |-> FALSE]
    /\ since = [t \in Task |-> 0]
    /\ sent = [t \in Task |-> NoMessage]
    /\ upload = [t \in Task |-> FALSE]
    /\ applied = [t \in Task |-> 0]
    /\ result = [t \in Task |-> "none"]

-----------------------------------------------------------------------------
(* The parts of request *)

HasLock(t) == queue # <<>> /\ Head(queue) = t

\* The queue once t has left it, by __aexit__ or cancelled.
Leave(t) ==
    \/ t \notin Range(queue) /\ UNCHANGED queue
    \/ \E i \in DOMAIN queue : queue[i] = t /\ queue' = RemoveAt(queue, i)

GoOn(t, stage) ==
    /\ pc' = [pc EXCEPT ![t] = stage]
    /\ result' = [result EXCEPT ![t] = "none"]

EndWith(t, r) ==
    /\ pc' = [pc EXCEPT ![t] = "idle"]
    /\ result' = [result EXCEPT ![t] = r]

\* The except clause of retry_async, which retries every Exception.
Failed(t, e) ==
    /\ IF attempt'[t] < MaxAttempts THEN GoOn(t, "sleeping") ELSE EndWith(t, e)
    /\ since' = [since EXCEPT ![t] = 0]
    /\ sent' = [sent EXCEPT ![t] = NoMessage]

\* mutant: the header is set unless it is there
HeaderOnce(t, tk, m) ==
    header' = IF m # "GET" /\ header = NoToken THEN tk ELSE header

SetHeader(t, tk, m) == header' = IF m # "GET" THEN tk ELSE header

\* The rest of request after prepare_request has the lock and a ticket tk:
\* cookies and header, the file out of the caller's data, and the request itself,
\* which raises on a session with a closed connector (_get_session makes no other
\* once close() has closed the connector).
Send(t, tk, m, f) ==
    /\ SetHeader(t, tk, m)
    /\ file' = [file EXCEPT ![t] = FALSE]
    /\ \/ /\ closed
          /\ Failed(t, "raised")
       \/ /\ ~closed
          /\ GoOn(t, "sent")
          /\ since' = [since EXCEPT ![t] = clock]
          /\ sent' = [sent EXCEPT ![t] = [ticket |-> tk, csrf |-> header', file |-> f]]

\* mutant: only a ticket that has expired is renewed
RenewExpiredOnly == clock - birth >= Lifetime

Old == clock - birth >= RenewAge

\* prepare_request, with the lock: renew an old ticket or go on with it.
Authenticate(t, m, f) ==
    \/ /\ Old
       /\ queue' = IF queue = <<>> THEN <<t>> ELSE queue
       /\ GoOn(t, "login")
       /\ since' = [since EXCEPT ![t] = clock]
       /\ file' = [file EXCEPT ![t] = f]
       /\ UNCHANGED <<header, sent>>
    \/ /\ ~Old
       /\ Leave(t)
       /\ Send(t, ticket, m, f)

\* mutant: the age is looked at before the lock is waited for
EnterChecksFirst(t, m, f) ==
    \/ queue = <<>> /\ Authenticate(t, m, f)
    \/ /\ queue # <<>>
       /\ queue' = Append(queue, t)
       /\ GoOn(t, IF Old THEN "login" ELSE "waiting")
       /\ since' = [since EXCEPT ![t] = IF Old THEN clock ELSE 0]
       /\ file' = [file EXCEPT ![t] = f]
       /\ UNCHANGED <<header, sent>>

\* An attempt up to its first wait; f says whether its data has a file.
Enter(t, m, f) ==
    \/ queue = <<>> /\ Authenticate(t, m, f)
    \/ /\ queue # <<>>
       /\ queue' = Append(queue, t)
       /\ GoOn(t, "waiting")
       /\ file' = [file EXCEPT ![t] = f]
       /\ UNCHANGED <<header, since, sent>>

-----------------------------------------------------------------------------
(* The actions *)

Start(t, m, f) ==
    /\ pc[t] = "idle"
    /\ f => m = "POST"
    /\ attempt' = [attempt EXCEPT ![t] = 1]
    /\ method' = [method EXCEPT ![t] = m]
    /\ upload' = [upload EXCEPT ![t] = f]
    /\ applied' = [applied EXCEPT ![t] = 0]
    /\ Enter(t, m, f)
    /\ UNCHANGED <<clock, authVars, closed>>

\* mutant: the attempt is not counted
WakeUncounted(t) ==
    /\ pc[t] = "sleeping"
    /\ UNCHANGED attempt
    /\ Enter(t, method[t], file[t])
    /\ UNCHANGED <<clock, authVars, closed, method, upload, applied>>

\* The sleep between attempts is over.
Wake(t) ==
    /\ pc[t] = "sleeping"
    /\ attempt' = [attempt EXCEPT ![t] = @ + 1]
    /\ Enter(t, method[t], file[t])
    /\ UNCHANGED <<clock, authVars, closed, method, upload, applied>>

\* The lock was handed to t.
Granted(t) ==
    /\ pc[t] = "waiting" /\ HasLock(t)
    /\ UNCHANGED attempt
    /\ Authenticate(t, method[t], file[t])
    /\ UNCHANGED <<clock, authVars, closed, method, upload, applied>>

\* mutant: a renewal takes whatever the age of the ticket, as one with the password does
RenewableAlways(i) == TRUE

\* The server takes the ticket it is given for a password while it accepts the
\* ticket: at some time i between the request and its answer.
Renewable(i) == i < ticket + Lifetime

LoginOk(t) ==
    /\ pc[t] = "login"
    /\ \E i \in since[t]..clock : Renewable(i) /\ ticket' = i
    /\ birth' = clock
    /\ Leave(t)
    /\ UNCHANGED attempt
    /\ Send(t, ticket', method[t], file[t])
    /\ UNCHANGED <<clock, closed, method, upload, applied>>

\* The answer has no data: AuthenticationError.
LoginRefused(t) ==
    /\ pc[t] = "login"
    /\ \E i \in since[t]..clock : ~Renewable(i)
    /\ Leave(t)
    /\ UNCHANGED attempt
    /\ Failed(t, "refused")
    /\ UNCHANGED <<clock, authVars, header, closed, method, file, upload, applied>>

\* A connection error or the timeout.
LoginLost(t) ==
    /\ pc[t] = "login"
    /\ Leave(t)
    /\ UNCHANGED attempt
    /\ Failed(t, "raised")
    /\ UNCHANGED <<clock, authVars, header, closed, method, file, upload, applied>>

\* The server checks the ticket, and the CSRF token unless the method is GET.
Accepted(m, msg, i) ==
    /\ i < msg.ticket + Lifetime
    /\ m = "GET" \/ (msg.csrf # NoToken /\ i < msg.csrf + Lifetime)

\* Whatever its status, an answer is returned and not retried.
Answer(t) ==
    /\ pc[t] = "sent"
    /\ \E i \in since[t]..clock :
          IF Accepted(method[t], sent[t], i)
          THEN EndWith(t, "answered") /\ applied' = [applied EXCEPT ![t] = @ + 1]
          ELSE EndWith(t, "unauthorized") /\ UNCHANGED applied
    /\ since' = [since EXCEPT ![t] = 0]
    /\ sent' = [sent EXCEPT ![t] = NoMessage]
    /\ UNCHANGED <<clock, authVars, queue, header, closed, attempt, method, file, upload>>

\* A connection error or the timeout: the server may have carried it out.
Lost(t) ==
    /\ pc[t] = "sent"
    /\ applied' \in {applied, [applied EXCEPT ![t] = @ + 1]}
    /\ UNCHANGED attempt
    /\ Failed(t, "raised")
    /\ UNCHANGED <<clock, authVars, queue, header, closed, method, file, upload>>

\* mutant: a login that is cancelled keeps the lock
CancelKeepsLock(t) ==
    /\ pc[t] # "idle"
    /\ IF pc[t] = "login" THEN UNCHANGED queue ELSE Leave(t)
    /\ EndWith(t, "cancelled")
    /\ since' = [since EXCEPT ![t] = 0]
    /\ sent' = [sent EXCEPT ![t] = NoMessage]
    /\ UNCHANGED <<clock, authVars, header, closed, attempt, method, file, upload, applied>>

\* CancelledError is not an Exception: it ends the request where it waits.
Cancel(t) ==
    /\ pc[t] # "idle"
    /\ Leave(t)
    /\ EndWith(t, "cancelled")
    /\ since' = [since EXCEPT ![t] = 0]
    /\ sent' = [sent EXCEPT ![t] = NoMessage]
    /\ UNCHANGED <<clock, authVars, header, closed, attempt, method, file, upload, applied>>

\* Closing the session or its connector is done before close() first waits.
Close ==
    /\ ~closed
    /\ closed' = TRUE
    /\ UNCHANGED <<clock, authVars, queue, header, taskVars>>

\* No login and no request outlasts its timeout.
Tick ==
    /\ clock < MaxClock
    /\ \A t \in Task : pc[t] \in {"login", "sent"} => clock - since[t] < Timeout
    /\ clock' = clock + 1
    /\ UNCHANGED <<authVars, queue, header, closed, taskVars>>

\* What a request does by itself once it is under way.
Resume(t) ==
    \/ Wake(t) \/ Granted(t)
    \/ LoginOk(t) \/ LoginRefused(t) \/ LoginLost(t)
    \/ Answer(t) \/ Lost(t)

Next ==
    \/ \E t \in Task :
          \/ \E m \in {"GET", "POST"}, f \in BOOLEAN : Start(t, m, f)
          \/ Resume(t)
          \/ Cancel(t)
    \/ Close
    \/ Tick

Spec == Init /\ [][Next]_vars

\* A wait on the network ends, at the latest with its timeout, a sleep ends, and
\* the event loop resumes a task whose wait is over.
FairSpec == Spec /\ \A t \in Task : WF_vars(Resume(t))

-----------------------------------------------------------------------------
(* Properties *)

\* Types of the fields and of the requests' locals.
TypeOK ==
    /\ clock \in Nat /\ ticket \in Nat /\ birth \in Nat
    /\ queue \in Seq(Task)
    /\ header \in Nat \union {NoToken}
    /\ closed \in BOOLEAN
    /\ pc \in [Task -> Stage]
    /\ attempt \in [Task -> 1..MaxAttempts]
    /\ method \in [Task -> {"GET", "POST"}]
    /\ file \in [Task -> BOOLEAN] /\ upload \in [Task -> BOOLEAN]
    /\ since \in [Task -> Nat]
    /\ sent \in [Task -> [ticket : Nat \union {NoToken}, csrf : Nat \union {NoToken},
                           file : BOOLEAN]]
    /\ applied \in [Task -> Nat]
    /\ result \in [Task -> {"none", "answered", "unauthorized", "raised", "refused", "cancelled"}]

\* Two renewals are never closer than renew_age: a task that waited for the lock
\* while another renewed the ticket does not renew it again.
RenewalsApart == [][birth' # birth => birth' - birth >= RenewAge]_vars

\* A request never reaches the server with a ticket or a CSRF token that has
\* expired meanwhile: what is sent was young enough to outlast the request.
NoExpiredTicketUsed == \A t \in Task : result[t] # "unauthorized"

\* Requests share the session's cookies and default headers; still one that needs
\* the CSRF token has the token of the ticket it carries.
TokensMatch ==
    \A t \in Task :
        pc[t] = "sent" /\ method[t] # "GET" => sent[t].csrf = sent[t].ticket

\* The server carries a request out at most once for each attempt, and at least
\* once if it was answered.
AppliedPerAttempt ==
    \A t \in Task :
        /\ applied[t] <= attempt[t]
        /\ result[t] = "answered" => applied[t] >= 1

\* The server accepts the ticket no more, and every renewal under way was asked for
\* since.
Expired ==
    /\ clock >= ticket + Lifetime
    /\ \A t \in Task : pc[t] = "login" => since[t] >= ticket + Lifetime

\* A ticket is renewed with itself and not with the password, so one that has expired
\* stays the session's ticket, and no request is answered again.
ExpiredForGood ==
    [][Expired => /\ Expired'
                  /\ \A t \in Task : result'[t] = "answered" => result[t] = "answered"]_vars

\* Every request returns, raises or is cancelled.
RequestsEnd == \A t \in Task : pc[t] # "idle" ~> pc[t] = "idle"

\* "Make async HTTP request with automatic retry." (https.py:348), and the session
\* "Handles: ... Large file uploads" (https.py:287-289): every attempt of an upload
\* sends the file.
RetrySendsTheFile ==
    \A t \in Task : pc[t] = "sent" /\ upload[t] => sent[t].file

=============================================================================
