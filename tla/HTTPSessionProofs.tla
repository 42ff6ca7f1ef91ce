------------------------- MODULE HTTPSessionProofs -------------------------
(***************************************************************************)
(* Proofs about HTTPSession, for any tasks, ages, timeouts and lifetimes   *)
(* with Lifetime >= RenewAge + 2 * Timeout.                                *)
(*                                                                         *)
(* The argument: only the holder of the lock is in a login, the ticket is  *)
(* old for as long as the login lasts, and a ticket is at most a timeout   *)
(* older than birth_time says; so what is sent is younger than             *)
(* RenewAge + Timeout, and the request takes at most another Timeout.      *)
(***************************************************************************)
EXTENDS HTTPSession, SequenceTheorems, TLAPS

\* Tickets and the times kept with them.
TimeInv ==
    /\ ticket <= birth /\ birth <= clock /\ birth <= ticket + Timeout
    /\ \A t \in Task : pc[t] \in {"login", "sent"} =>
          since[t] <= clock /\ clock <= since[t] + Timeout

\* A request under way has a young ticket and its CSRF token.
MessageInv ==
    \A t \in Task : pc[t] = "sent" =>
        /\ sent[t].ticket \in Nat
        /\ since[t] < sent[t].ticket + RenewAge + Timeout
        /\ method[t] # "GET" => sent[t].csrf = sent[t].ticket

\* A login is made with the lock, and the ticket stays old until it is over.
LockInv == \A t \in Task : pc[t] = "login" => HasLock(t) /\ Old

\* Attempts, and what the server carried out for them.
AttemptInv ==
    \A t \in Task :
        /\ pc[t] = "sleeping" => attempt[t] < MaxAttempts
        /\ applied[t] <= attempt[t]
        /\ pc[t] \in {"waiting", "login", "sent"} => applied[t] < attempt[t]
        /\ result[t] = "answered" => applied[t] >= 1

Inv == TypeOK /\ TimeInv /\ MessageInv /\ LockInv /\ AttemptInv /\ NoExpiredTicketUsed

-----------------------------------------------------------------------------
(* The queue of the lock *)

\* Removing one entry leaves a sequence, and its head if it was another's.
LEMMA RemoveAtFacts ==
    ASSUME NEW S, NEW s \in Seq(S), NEW i \in DOMAIN s
    PROVE  /\ RemoveAt(s, i) \in Seq(S)
           /\ s[i] # Head(s) => RemoveAt(s, i) # <<>> /\ Head(RemoveAt(s, i)) = Head(s)
<1>1. i \in 1..Len(s) /\ Len(s) \in Nat
  BY LenProperties
<1> DEFINE a == SubSeq(s, 1, i-1)
           b == SubSeq(s, i+1, Len(s))
<1>2. \A j \in 1..(i-1) : s[j] \in S
  BY <1>1, ElementOfSeq
<1>3. \A j \in (i+1)..Len(s) : s[j] \in S
  BY <1>1, ElementOfSeq
<1>4. a \in Seq(S) /\ Len(a) = (IF 1 <= i-1 THEN i-1 ELSE 0)
  BY <1>1, <1>2, SubSeqProperties
<1>5. b \in Seq(S)
  BY <1>1, <1>3, SubSeqProperties
<1>6. RemoveAt(s, i) = a \o b
  BY DEF RemoveAt
<1>7. a \o b \in Seq(S)
  BY <1>4, <1>5, ConcatProperties
<1>8. ASSUME s[i] # Head(s) PROVE a \o b # <<>> /\ Head(a \o b) = Head(s)
  <2>1. i >= 2
    BY <1>1, <1>8, HeadTailProperties
  <2>2. a[1] = s[1] /\ Len(a) >= 1
    BY <1>1, <1>2, <1>4, <2>1, SubSeqProperties
  <2>3. Len(a \o b) >= 1 /\ (a \o b)[1] = a[1]
    BY <1>4, <1>5, <2>2, ConcatProperties, LenProperties
  <2> HIDE DEF a, b
  <2> QED
    BY <1>1, <1>7, <2>2, <2>3, EmptySeq, HeadTailProperties
<1> QED
  BY <1>6, <1>7, <1>8

\* Leaving the lock keeps the queue a queue, and another holder its holder.
LEMMA LeaveFacts ==
    ASSUME queue \in Seq(Task), NEW t \in Task, Leave(t)
    PROVE  /\ queue' \in Seq(Task)
           /\ \A u \in Task : u # t /\ HasLock(u) => HasLock(u)'
  BY RemoveAtFacts DEF Leave, HasLock

\* Waiting for the lock does so too.
LEMMA AppendFacts ==
    ASSUME queue \in Seq(Task), NEW t \in Task, queue' = Append(queue, t)
    PROVE  /\ queue' \in Seq(Task)
           /\ \A u \in Task : HasLock(u) => HasLock(u)'
  BY AppendProperties, HeadTailProperties, EmptySeq DEF HasLock

-----------------------------------------------------------------------------
(* What the parts of request do *)

\* The locals of the requests keep their types, and t alone moves.
Moves(t) ==
    /\ pc' \in [Task -> Stage]
    /\ since' \in [Task -> Nat]
    /\ sent' \in [Task -> [ticket : Nat \union {NoToken}, csrf : Nat \union {NoToken},
                           file : BOOLEAN]]
    /\ result' \in [Task -> {"none", "answered", "unauthorized", "raised", "refused", "cancelled"}]
    /\ \A u \in Task \ {t} : /\ pc'[u] = pc[u] /\ since'[u] = since[u]
                             /\ sent'[u] = sent[u] /\ result'[u] = result[u]

\* An attempt of t with ticket tk was sent, waits, or failed.
Attempted(t, tk, m) ==
    /\ Moves(t)
    /\ header' \in Nat \union {NoToken}
    /\ file' \in [Task -> BOOLEAN]
    /\ result'[t] \in {"none", "raised"}
    /\ pc'[t] = "sleeping" => attempt'[t] < MaxAttempts
    /\ pc'[t] = "sent" =>
          /\ ~closed /\ since'[t] = clock /\ sent'[t].ticket = tk
          /\ m # "GET" => sent'[t].csrf = tk

\* A failed attempt is followed by a sleep if another attempt is left.
LEMMA FailedFacts ==
    ASSUME TypeOK, NEW t \in Task, NEW e \in {"raised", "refused"}, Failed(t, e)
    PROVE  /\ Moves(t)
           /\ pc'[t] \in {"sleeping", "idle"}
           /\ pc'[t] = "sleeping" => attempt'[t] < MaxAttempts
           /\ result'[t] \in {"none", e}
  BY DEF TypeOK, Failed, GoOn, EndWith, Moves, Stage, NoMessage

\* What Send makes of the request of t.
LEMMA SendFacts ==
    ASSUME TypeOK, NEW t \in Task, NEW tk \in Nat, NEW m \in {"GET", "POST"},
           NEW f \in BOOLEAN, Send(t, tk, m, f)
    PROVE  Attempted(t, tk, m) /\ pc'[t] \in {"sent", "sleeping", "idle"}
<1>1. /\ header' \in Nat \union {NoToken}
      /\ m # "GET" => header' = tk
      /\ file' \in [Task -> BOOLEAN]
  BY DEF Send, SetHeader, TypeOK
<1>2. CASE closed /\ Failed(t, "raised")
  BY <1>1, <1>2, FailedFacts DEF Attempted
<1>3. CASE ~closed /\ ~(closed /\ Failed(t, "raised"))
  <2>1. /\ GoOn(t, "sent")
        /\ since' = [since EXCEPT ![t] = clock]
        /\ sent' = [sent EXCEPT ![t] = [ticket |-> tk, csrf |-> header', file |-> f]]
    BY <1>3 DEF Send
  <2> QED
    BY <1>1, <1>3, <2>1 DEF TypeOK, GoOn, Moves, Attempted, Stage
<1> QED
  BY <1>2, <1>3 DEF Send

\* Authenticate sends the request, or logs in with the lock and an old ticket.
LEMMA AuthenticateFacts ==
    ASSUME TypeOK, NEW t \in Task, NEW m \in {"GET", "POST"}, NEW f \in BOOLEAN,
           queue = <<>> \/ HasLock(t), Authenticate(t, m, f)
    PROVE  /\ Attempted(t, ticket, m)
           /\ pc'[t] \in {"login", "sent", "sleeping", "idle"}
           /\ pc'[t] = "login" => Old /\ since'[t] = clock /\ HasLock(t)'
           /\ pc'[t] = "sent" => ~Old
           /\ queue' \in Seq(Task)
           /\ \A u \in Task : u # t /\ HasLock(u) => HasLock(u)'
<1>1. CASE Old /\ GoOn(t, "login")
  <2>1. /\ queue' = IF queue = <<>> THEN <<t>> ELSE queue
        /\ since' = [since EXCEPT ![t] = clock]
        /\ file' = [file EXCEPT ![t] = f]
        /\ UNCHANGED <<header, sent>>
    BY <1>1 DEF Authenticate
  <2>2. queue' \in Seq(Task) /\ HasLock(t)'
    BY <2>1 DEF HasLock, TypeOK
  <2>3. \A u \in Task : u # t /\ HasLock(u) => HasLock(u)'
    BY <2>1 DEF HasLock
  <2>4. Moves(t)
    BY <1>1, <2>1 DEF GoOn, Moves, TypeOK, Stage
  <2> QED
    BY <1>1, <2>1, <2>2, <2>3, <2>4 DEF Attempted, GoOn, TypeOK
<1>2. CASE ~Old /\ Leave(t) /\ Send(t, ticket, m, f)
  BY <1>2, SendFacts, LeaveFacts DEF TypeOK
<1> QED
  BY <1>1, <1>2 DEF Authenticate

\* Enter does that, or queues.
LEMMA EnterFacts ==
    ASSUME TypeOK, NEW t \in Task, NEW m \in {"GET", "POST"}, NEW f \in BOOLEAN,
           Enter(t, m, f)
    PROVE  /\ Attempted(t, ticket, m)
           /\ pc'[t] \in {"waiting", "login", "sent", "sleeping", "idle"}
           /\ pc'[t] = "login" => Old /\ since'[t] = clock /\ HasLock(t)'
           /\ pc'[t] = "sent" => ~Old
           /\ queue' \in Seq(Task)
           /\ \A u \in Task : u # t /\ HasLock(u) => HasLock(u)'
<1>1. CASE queue = <<>> /\ Authenticate(t, m, f)
  BY <1>1, AuthenticateFacts
<1>2. CASE queue # <<>> /\ ~(queue = <<>> /\ Authenticate(t, m, f))
  <2>1. /\ queue' = Append(queue, t)
        /\ GoOn(t, "waiting")
        /\ file' = [file EXCEPT ![t] = f]
        /\ UNCHANGED <<header, since, sent>>
    BY <1>2 DEF Enter
  <2>2. Attempted(t, ticket, m) /\ pc'[t] = "waiting"
    BY <2>1 DEF GoOn, Attempted, Moves, TypeOK, Stage
  <2> QED
    BY <2>1, <2>2, AppendFacts DEF TypeOK
<1> QED
  BY <1>1, <1>2 DEF Enter

-----------------------------------------------------------------------------
(* The invariant is inductive *)

\* The initial states satisfy the invariant.
LEMMA InvInit == Init => Inv
<1> SUFFICES ASSUME Init PROVE Inv
  OBVIOUS
<1>1. clock \in Nat /\ ticket \in Nat /\ birth \in Nat /\ queue \in Seq(Task)
  BY HTTPAssumption, EmptySeq DEF Init
<1>2. attempt \in [Task -> 1..MaxAttempts]
  BY HTTPAssumption DEF Init
<1>3. sent \in [Task -> [ticket : Nat \union {NoToken}, csrf : Nat \union {NoToken},
                        file : BOOLEAN]]
  BY DEF Init, NoMessage
<1>4. TypeOK
  BY <1>1, <1>2, <1>3 DEF Init, TypeOK, Stage
<1> QED
  BY <1>4, HTTPAssumption
     DEF Init, Inv, TypeOK, TimeInv, MessageInv, LockInv, AttemptInv, NoExpiredTicketUsed

\* A ticket whose birth_time is young is not much older itself.
LEMMA YoungTicket ==
    ASSUME NEW c \in Nat, NEW b \in Nat, NEW k \in Nat, c - b < RenewAge, b <= k + Timeout
    PROVE  c < k + RenewAge + Timeout
  BY HTTPAssumption

\* The invariant after a step in which t made an attempt with the ticket there is.
LEMMA AttemptedInv ==
    ASSUME Inv, NEW t \in Task, NEW m \in {"GET", "POST"}, Attempted(t, ticket', m),
           UNCHANGED <<clock, closed>>,
           ticket' \in Nat, birth' \in Nat,
           ticket' <= birth', birth' <= clock, birth' <= ticket' + Timeout,
           birth' = birth \/ \A u \in Task : u # t => pc[u] # "login",
           attempt' \in [Task -> 1..MaxAttempts], method' \in [Task -> {"GET", "POST"}],
           upload' \in [Task -> BOOLEAN], applied' \in [Task -> Nat],
           \A u \in Task : u # t => /\ attempt'[u] = attempt[u] /\ method'[u] = method[u]
                                    /\ applied'[u] = applied[u],
           method'[t] = m, applied'[t] < attempt'[t],
           pc'[t] = "sent" => clock - birth' < RenewAge,
           pc'[t] = "login" => Old' /\ since'[t] = clock /\ HasLock(t)',
           queue' \in Seq(Task),
           \A u \in Task : u # t /\ HasLock(u) => HasLock(u)'
    PROVE  Inv'
<1> USE HTTPAssumption
<1>1. TypeOK'
  BY DEF Inv, TypeOK, Attempted, Moves
<1>2. TimeInv'
  <2> SUFFICES ASSUME NEW u \in Task, pc'[u] \in {"login", "sent"}
               PROVE  since'[u] <= clock /\ clock <= since'[u] + Timeout
    BY DEF TimeInv
  <2>1. CASE u = t
    BY <2>1 DEF Attempted, Inv, TypeOK
  <2>2. CASE u # t
    BY <2>2 DEF Attempted, Moves, Inv, TimeInv
  <2> QED
    BY <2>1, <2>2
<1>3. MessageInv'
  <2> SUFFICES ASSUME NEW u \in Task, pc'[u] = "sent"
               PROVE  /\ sent'[u].ticket \in Nat
                      /\ since'[u] < sent'[u].ticket + RenewAge + Timeout
                      /\ method'[u] # "GET" => sent'[u].csrf = sent'[u].ticket
    BY DEF MessageInv
  <2>1. CASE u = t
    <3>1. since'[t] = clock /\ sent'[t].ticket = ticket'
      BY <2>1 DEF Attempted
    <3>2. method'[t] # "GET" => sent'[t].csrf = ticket'
      BY <2>1 DEF Attempted
    <3>3. clock \in Nat
      BY DEF Inv, TypeOK
    <3>4. clock - birth' < RenewAge
      BY <2>1
    <3>5. clock < ticket' + RenewAge + Timeout
      BY <3>3, <3>4, YoungTicket
    <3> QED
      BY <2>1, <3>1, <3>2, <3>5
  <2>2. CASE u # t
    BY <2>2 DEF Attempted, Moves, Inv, MessageInv
  <2> QED
    BY <2>1, <2>2
<1>4. LockInv'
  <2> SUFFICES ASSUME NEW u \in Task, pc'[u] = "login"
               PROVE  HasLock(u)' /\ Old'
    BY DEF LockInv
  <2>1. CASE u = t
    BY <2>1
  <2>2. CASE u # t
    BY <2>2 DEF Attempted, Moves, Inv, LockInv, Old
  <2> QED
    BY <2>1, <2>2
<1>5. AttemptInv'
  <2> SUFFICES ASSUME NEW u \in Task
               PROVE  /\ pc'[u] = "sleeping" => attempt'[u] < MaxAttempts
                      /\ applied'[u] <= attempt'[u]
                      /\ pc'[u] \in {"waiting", "login", "sent"} => applied'[u] < attempt'[u]
                      /\ result'[u] = "answered" => applied'[u] >= 1
    BY DEF AttemptInv
  <2>1. CASE u = t
    BY <2>1 DEF Attempted
  <2>2. CASE u # t
    BY <2>2 DEF Attempted, Moves, Inv, AttemptInv
  <2> QED
    BY <2>1, <2>2
<1>6. NoExpiredTicketUsed'
  BY DEF Attempted, Moves, Inv, NoExpiredTicketUsed
<1> QED
  BY <1>1, <1>2, <1>3, <1>4, <1>5, <1>6 DEF Inv

\* The same where the ticket is the one there was.
LEMMA SameTicketInv ==
    ASSUME Inv, NEW t \in Task, NEW m \in {"GET", "POST"}, Attempted(t, ticket, m),
           UNCHANGED <<clock, ticket, birth, closed>>,
           attempt' \in [Task -> 1..MaxAttempts], method' \in [Task -> {"GET", "POST"}],
           upload' \in [Task -> BOOLEAN], applied' \in [Task -> Nat],
           \A u \in Task : u # t => /\ attempt'[u] = attempt[u] /\ method'[u] = method[u]
                                    /\ applied'[u] = applied[u],
           method'[t] = m, applied'[t] < attempt'[t],
           pc'[t] = "sent" => ~Old,
           pc'[t] = "login" => Old /\ since'[t] = clock /\ HasLock(t)',
           queue' \in Seq(Task),
           \A u \in Task : u # t /\ HasLock(u) => HasLock(u)'
    PROVE  Inv'
<1>1. ticket' = ticket /\ birth' = birth /\ clock' = clock /\ closed' = closed
  OBVIOUS
<1>2. Attempted(t, ticket', m)
  BY <1>1
<1>3. /\ ticket' \in Nat /\ birth' \in Nat
      /\ ticket' <= birth' /\ birth' <= clock /\ birth' <= ticket' + Timeout
  BY <1>1 DEF Inv, TypeOK, TimeInv
<1>4. Old' <=> Old
  BY <1>1 DEF Old
<1>5. ~Old => clock - birth' < RenewAge
  BY <1>1, HTTPAssumption DEF Old, Inv, TypeOK
<1> QED
  BY <1>1, <1>2, <1>3, <1>4, <1>5, AttemptedInv

\* The invariant after a step in which t ended an attempt, or its request.
LEMMA EndedInv ==
    ASSUME Inv, NEW t \in Task, Moves(t), pc'[t] \in {"sleeping", "idle"},
           UNCHANGED <<clock, authVars, header, closed, attempt, method, file, upload>>,
           pc'[t] = "sleeping" => attempt[t] < MaxAttempts,
           result'[t] # "unauthorized",
           applied' \in [Task -> Nat], applied'[t] <= attempt[t],
           \A u \in Task : u # t => applied'[u] = applied[u],
           result'[t] = "answered" => applied'[t] >= 1,
           queue' \in Seq(Task),
           \A u \in Task : u # t /\ HasLock(u) => HasLock(u)'
    PROVE  Inv'
<1>1. TypeOK'
  BY DEF Inv, TypeOK, Moves, authVars
<1>2. TimeInv'
  BY DEF Inv, TimeInv, Moves, authVars
<1>3. MessageInv'
  BY DEF Inv, MessageInv, Moves
<1>4. LockInv'
  BY DEF Inv, LockInv, Moves, Old, authVars
<1>5. AttemptInv'
  BY DEF Inv, AttemptInv, Moves
<1>6. NoExpiredTicketUsed'
  BY DEF Inv, NoExpiredTicketUsed, Moves
<1> QED
  BY <1>1, <1>2, <1>3, <1>4, <1>5, <1>6 DEF Inv

\* A request is answered before its tokens expire.
LEMMA AnswerAccepted ==
    ASSUME Inv, NEW t \in Task, pc[t] = "sent", NEW i \in since[t]..clock
    PROVE  Accepted(method[t], sent[t], i)
<1>1. i < sent[t].ticket + Lifetime
  BY HTTPAssumption DEF Inv, TypeOK, TimeInv, MessageInv
<1> QED
  BY <1>1, HTTPAssumption DEF Inv, TypeOK, MessageInv, Accepted

\* Every step keeps the invariant.
LEMMA InvStep == Inv /\ [Next]_vars => Inv'
<1> SUFFICES ASSUME Inv, [Next]_vars PROVE Inv'
  OBVIOUS
<1>0. TypeOK
  BY DEF Inv
<1> USE HTTPAssumption
<1>1. ASSUME NEW t \in Task, NEW m \in {"GET", "POST"}, NEW f \in BOOLEAN, Start(t, m, f)
      PROVE  Inv'
  <2>1. /\ attempt' = [attempt EXCEPT ![t] = 1]
        /\ method' = [method EXCEPT ![t] = m]
        /\ upload' = [upload EXCEPT ![t] = f]
        /\ applied' = [applied EXCEPT ![t] = 0]
        /\ Enter(t, m, f)
        /\ UNCHANGED <<clock, ticket, birth, closed>>
    BY <1>1 DEF Start, authVars
  <2>2. /\ attempt' \in [Task -> 1..MaxAttempts] /\ method' \in [Task -> {"GET", "POST"}]
        /\ upload' \in [Task -> BOOLEAN] /\ applied' \in [Task -> Nat]
        /\ method'[t] = m /\ applied'[t] < attempt'[t]
    BY <1>0, <2>1 DEF TypeOK
  <2>3. \A u \in Task : u # t => /\ attempt'[u] = attempt[u] /\ method'[u] = method[u]
                                 /\ applied'[u] = applied[u]
    BY <1>0, <2>1 DEF TypeOK
  <2> QED
    BY <1>0, <2>1, <2>2, <2>3, EnterFacts, SameTicketInv
<1>2. ASSUME NEW t \in Task, Wake(t) PROVE Inv'
  <2>1. /\ pc[t] = "sleeping"
        /\ attempt' = [attempt EXCEPT ![t] = @ + 1]
        /\ Enter(t, method[t], file[t])
        /\ UNCHANGED <<clock, ticket, birth, closed, method, upload, applied>>
    BY <1>2 DEF Wake, authVars
  <2>2. attempt' \in [Task -> 1..MaxAttempts] /\ applied'[t] < attempt'[t]
    BY <1>0, <2>1 DEF TypeOK, Inv, AttemptInv
  <2>3. method[t] \in {"GET", "POST"} /\ file[t] \in BOOLEAN
    BY <1>0 DEF TypeOK
  <2>4. /\ method' \in [Task -> {"GET", "POST"}] /\ method'[t] = method[t]
        /\ upload' \in [Task -> BOOLEAN] /\ applied' \in [Task -> Nat]
        /\ \A u \in Task : u # t => /\ attempt'[u] = attempt[u] /\ method'[u] = method[u]
                                    /\ applied'[u] = applied[u]
    BY <1>0, <2>1 DEF TypeOK
  <2> QED
    BY <1>0, <2>1, <2>2, <2>3, <2>4, EnterFacts, SameTicketInv
<1>3. ASSUME NEW t \in Task, Granted(t) PROVE Inv'
  <2>1. /\ pc[t] = "waiting" /\ HasLock(t)
        /\ Authenticate(t, method[t], file[t])
        /\ UNCHANGED <<clock, ticket, birth, closed, attempt, method, upload, applied>>
    BY <1>3 DEF Granted, authVars
  <2>2. applied'[t] < attempt'[t]
    BY <1>0, <2>1 DEF Inv, AttemptInv
  <2>3. method[t] \in {"GET", "POST"} /\ file[t] \in BOOLEAN
    BY <1>0 DEF TypeOK
  <2>4. /\ attempt' \in [Task -> 1..MaxAttempts]
        /\ method' \in [Task -> {"GET", "POST"}] /\ method'[t] = method[t]
        /\ upload' \in [Task -> BOOLEAN] /\ applied' \in [Task -> Nat]
        /\ \A u \in Task : u # t => /\ attempt'[u] = attempt[u] /\ method'[u] = method[u]
                                    /\ applied'[u] = applied[u]
    BY <1>0, <2>1 DEF TypeOK
  <2> QED
    BY <1>0, <2>1, <2>2, <2>3, <2>4, AuthenticateFacts, SameTicketInv
<1>4. ASSUME NEW t \in Task, LoginOk(t) PROVE Inv'
  <2>1. /\ pc[t] = "login" /\ birth' = clock
        /\ ticket' \in since[t]..clock
        /\ Leave(t)
        /\ Send(t, ticket', method[t], file[t])
        /\ UNCHANGED <<clock, closed, attempt, method, upload, applied>>
    BY <1>4 DEF LoginOk
  <2>2. /\ since[t] \in Nat /\ clock \in Nat /\ since[t] <= clock /\ clock <= since[t] + Timeout
        /\ method[t] \in {"GET", "POST"} /\ file[t] \in BOOLEAN
    BY <1>0, <2>1 DEF TypeOK, Inv, TimeInv
  <2>3. /\ ticket' \in Nat /\ birth' \in Nat /\ ticket' <= birth' /\ birth' <= clock
        /\ birth' <= ticket' + Timeout
    BY <2>1, <2>2
  <2>4. Attempted(t, ticket', method[t]) /\ pc'[t] \in {"sent", "sleeping", "idle"}
    BY <1>0, <2>1, <2>2, <2>3, SendFacts
  <2>5. \A u \in Task : u # t => pc[u] # "login"
    BY <2>1 DEF Inv, LockInv, HasLock
  <2>6. applied'[t] < attempt'[t]
    BY <2>1 DEF Inv, AttemptInv
  <2>7. clock - birth' < RenewAge
    BY <2>1, <2>2
  <2>8. /\ queue' \in Seq(Task)
        /\ \A u \in Task : u # t /\ HasLock(u) => HasLock(u)'
    BY <1>0, <2>1, LeaveFacts DEF TypeOK
  <2>9. /\ attempt' \in [Task -> 1..MaxAttempts] /\ method' \in [Task -> {"GET", "POST"}]
        /\ upload' \in [Task -> BOOLEAN] /\ applied' \in [Task -> Nat]
    BY <1>0, <2>1 DEF TypeOK
  <2> QED
    BY <2>1, <2>2, <2>3, <2>4, <2>5, <2>6, <2>7, <2>8, <2>9, AttemptedInv
<1>5. ASSUME NEW t \in Task, LoginRefused(t) \/ LoginLost(t) PROVE Inv'
  <2>1. /\ pc[t] = "login"
        /\ Leave(t)
        /\ Failed(t, "refused") \/ Failed(t, "raised")
        /\ UNCHANGED <<clock, authVars, header, closed, attempt, method, file, upload, applied>>
    BY <1>5 DEF LoginRefused, LoginLost
  <2>2. applied'[t] <= attempt[t] /\ applied' \in [Task -> Nat]
    BY <1>0, <2>1 DEF Inv, AttemptInv, TypeOK
  <2> QED
    BY <1>0, <2>1, <2>2, FailedFacts, LeaveFacts, EndedInv DEF TypeOK
<1>6. ASSUME NEW t \in Task, Answer(t) PROVE Inv'
  <2>1. PICK i \in since[t]..clock :
          IF Accepted(method[t], sent[t], i)
          THEN EndWith(t, "answered") /\ applied' = [applied EXCEPT ![t] = @ + 1]
          ELSE EndWith(t, "unauthorized") /\ UNCHANGED applied
    BY <1>6 DEF Answer
  <2>2. /\ pc[t] = "sent"
        /\ EndWith(t, "answered") /\ applied' = [applied EXCEPT ![t] = @ + 1]
    BY <1>6, <2>1, AnswerAccepted DEF Answer
  <2>3. /\ since' = [since EXCEPT ![t] = 0]
        /\ sent' = [sent EXCEPT ![t] = NoMessage]
        /\ UNCHANGED <<clock, authVars, queue, header, closed, attempt, method, file, upload>>
    BY <1>6 DEF Answer
  <2>4. Moves(t) /\ pc'[t] = "idle" /\ result'[t] = "answered"
    BY <1>0, <2>2, <2>3 DEF Moves, EndWith, TypeOK, NoMessage, Stage
  <2>5. /\ applied' \in [Task -> Nat] /\ applied'[t] <= attempt[t] /\ applied'[t] >= 1
        /\ \A u \in Task : u # t => applied'[u] = applied[u]
    BY <1>0, <2>2 DEF Inv, AttemptInv, TypeOK
  <2>6. queue' \in Seq(Task) /\ \A u \in Task : HasLock(u) => HasLock(u)'
    BY <1>0, <2>3 DEF TypeOK, HasLock
  <2> QED
    BY <2>3, <2>4, <2>5, <2>6, EndedInv
<1>7. ASSUME NEW t \in Task, Lost(t) PROVE Inv'
  <2>1. /\ pc[t] = "sent"
        /\ applied' \in {applied, [applied EXCEPT ![t] = @ + 1]}
        /\ Failed(t, "raised")
        /\ UNCHANGED <<clock, authVars, queue, header, closed, attempt, method, file, upload>>
    BY <1>7 DEF Lost
  <2>2. /\ applied' \in [Task -> Nat] /\ applied'[t] <= attempt[t]
        /\ \A u \in Task : u # t => applied'[u] = applied[u]
    <3>1. applied \in [Task -> Nat] /\ attempt[t] \in Nat /\ applied[t] < attempt[t]
      BY <1>0, <2>1 DEF Inv, AttemptInv, TypeOK
    <3>2. CASE applied' = applied
      BY <3>1, <3>2
    <3>3. CASE applied' = [applied EXCEPT ![t] = @ + 1]
      BY <3>1, <3>3
    <3> QED
      BY <2>1, <3>2, <3>3
  <2>3. queue' \in Seq(Task) /\ \A u \in Task : HasLock(u) => HasLock(u)'
    BY <1>0, <2>1 DEF TypeOK, HasLock
  <2> QED
    BY <1>0, <2>1, <2>2, <2>3, FailedFacts, EndedInv
<1>8. ASSUME NEW t \in Task, Cancel(t) PROVE Inv'
  <2>1. /\ Leave(t) /\ EndWith(t, "cancelled")
        /\ since' = [since EXCEPT ![t] = 0]
        /\ sent' = [sent EXCEPT ![t] = NoMessage]
        /\ UNCHANGED <<clock, authVars, header, closed, attempt, method, file, upload, applied>>
    BY <1>8 DEF Cancel
  <2>2. Moves(t) /\ pc'[t] = "idle" /\ result'[t] = "cancelled"
    BY <1>0, <2>1 DEF Moves, EndWith, TypeOK, NoMessage, Stage
  <2>3. applied' = applied /\ applied \in [Task -> Nat] /\ applied[t] <= attempt[t]
    BY <1>0, <2>1 DEF Inv, AttemptInv, TypeOK
  <2>4. /\ queue' \in Seq(Task)
        /\ \A u \in Task : u # t /\ HasLock(u) => HasLock(u)'
    BY <1>0, <2>1, LeaveFacts DEF TypeOK
  <2> QED
    BY <2>1, <2>2, <2>3, <2>4, EndedInv
<1>9. CASE Close
  BY <1>9 DEF Close, Inv, TypeOK, TimeInv, MessageInv, LockInv, HasLock, Old, AttemptInv,
              NoExpiredTicketUsed, authVars, taskVars
<1>10. CASE Tick
  <2>1. TypeOK'
    BY <1>0, <1>10 DEF Tick, TypeOK, authVars, taskVars
  <2>2. TimeInv'
    BY <1>0, <1>10 DEF Tick, TypeOK, authVars, taskVars, Inv, TimeInv
  <2>3. LockInv'
    BY <1>0, <1>10 DEF Tick, TypeOK, authVars, taskVars, Inv, LockInv, HasLock, Old
  <2>4. MessageInv' /\ AttemptInv' /\ NoExpiredTicketUsed'
    BY <1>10 DEF Tick, taskVars, Inv, MessageInv, AttemptInv, NoExpiredTicketUsed
  <2> QED
    BY <2>1, <2>2, <2>3, <2>4 DEF Inv
<1>11. CASE UNCHANGED vars
  BY <1>11 DEF vars, Inv, TypeOK, TimeInv, MessageInv, LockInv, HasLock, Old, AttemptInv,
               NoExpiredTicketUsed, authVars, taskVars
<1> QED
  BY <1>1, <1>2, <1>3, <1>4, <1>5, <1>6, <1>7, <1>8, <1>9, <1>10, <1>11 DEF Next, Resume

-----------------------------------------------------------------------------
(* The theorems *)

\* The invariant holds in every reachable state.
THEOREM InvCorrect == Spec => []Inv
  BY InvInit, InvStep, PTL DEF Spec

\* The fields of the session and the locals of its requests keep their types.
THEOREM HTTPTypes == Spec => []TypeOK
<1>1. Inv => TypeOK
  BY DEF Inv
<1> QED
  BY <1>1, InvCorrect, PTL

\* No request is ever answered 401 for a ticket that expired on its way, whatever
\* the other requests do and however late the renewals are answered.
THEOREM TicketsOutlastRequests == Spec => []NoExpiredTicketUsed
<1>1. Inv => NoExpiredTicketUsed
  BY DEF Inv
<1> QED
  BY <1>1, InvCorrect, PTL

\* A request that needs the CSRF token carries that of its own ticket.
THEOREM TokensAgree == Spec => []TokensMatch
<1>1. Inv => TokensMatch
  BY DEF Inv, MessageInv, TokensMatch
<1> QED
  BY <1>1, InvCorrect, PTL

\* The server carries a request out at most once for each attempt, and an answered
\* request at least once.
THEOREM CarriedOutPerAttempt == Spec => []AppliedPerAttempt
<1>1. Inv => AppliedPerAttempt
  BY DEF Inv, AttemptInv, AppliedPerAttempt
<1> QED
  BY <1>1, InvCorrect, PTL

\* Two renewals are at least renew_age apart.
THEOREM RenewalsNeverDouble == Spec => RenewalsApart
<1>1. ASSUME Inv, [Next]_vars, birth' # birth PROVE birth' - birth >= RenewAge
  <2>1. PICK t \in Task : LoginOk(t)
    BY <1>1 DEF Next, Resume, Start, Wake, Granted, LoginRefused, LoginLost, Answer, Lost,
                Cancel, Close, Tick, vars, authVars
  <2> QED
    BY <1>1, <2>1 DEF LoginOk, Inv, LockInv, Old
<1>2. Inv /\ [Next]_vars => [birth' # birth => birth' - birth >= RenewAge]_vars
  BY <1>1
<1> QED
  BY <1>2, InvCorrect, PTL DEF Spec, RenewalsApart

-----------------------------------------------------------------------------
(* What becomes of a session whose ticket has expired *)

\* Tickets only get younger: what is sent has no younger ticket than the session, and
\* a login begins no earlier than the ticket it replaces.
NewestInv ==
    \A t \in Task : /\ pc[t] = "sent" => sent[t].ticket <= ticket
                    /\ pc[t] = "login" => ticket <= since[t]

\* A step of t that does not change the ticket and sends, if it does, what there is.
LEMMA NewestKept ==
    ASSUME Inv, NewestInv, NEW t \in Task, Moves(t), UNCHANGED <<clock, ticket>>,
           pc'[t] = "sent" => sent'[t].ticket = ticket,
           pc'[t] = "login" => since'[t] = clock
    PROVE  NewestInv'
<1>1. ASSUME NEW u \in Task, u # t
      PROVE  /\ pc'[u] = "sent" => sent'[u].ticket <= ticket'
             /\ pc'[u] = "login" => ticket' <= since'[u]
  BY <1>1 DEF NewestInv, Moves
<1>2. /\ pc'[t] = "sent" => sent'[t].ticket <= ticket'
      /\ pc'[t] = "login" => ticket' <= since'[t]
  BY DEF Inv, TypeOK, TimeInv
<1> QED
  BY <1>1, <1>2 DEF NewestInv

\* The steps of the requests, but for a renewal that is answered.
LEMMA RequestMoves ==
    ASSUME Inv, NEW t \in Task,
           \/ \E m \in {"GET", "POST"}, f \in BOOLEAN : Start(t, m, f)
           \/ Wake(t) \/ Granted(t) \/ LoginRefused(t) \/ LoginLost(t)
           \/ Answer(t) \/ Lost(t) \/ Cancel(t)
    PROVE  /\ Moves(t) /\ UNCHANGED <<clock, ticket>>
           /\ pc'[t] = "sent" => sent'[t].ticket = ticket
           /\ pc'[t] = "login" => since'[t] = clock
           /\ result'[t] = "answered" => pc[t] = "sent"
<1>0. TypeOK /\ method[t] \in {"GET", "POST"} /\ file[t] \in BOOLEAN
  BY DEF Inv, TypeOK
<1>1. ASSUME NEW m \in {"GET", "POST"}, NEW f \in BOOLEAN, UNCHANGED <<clock, ticket>>,
             Enter(t, m, f) \/ (HasLock(t) /\ Authenticate(t, m, f))
      PROVE  /\ Moves(t) /\ UNCHANGED <<clock, ticket>>
             /\ pc'[t] = "sent" => sent'[t].ticket = ticket
             /\ pc'[t] = "login" => since'[t] = clock
             /\ result'[t] = "answered" => pc[t] = "sent"
  <2>1. Attempted(t, ticket, m) /\ (pc'[t] = "login" => since'[t] = clock)
    BY <1>0, <1>1, EnterFacts, AuthenticateFacts
  <2> QED
    BY <1>1, <2>1 DEF Attempted
<1>2. CASE \E m \in {"GET", "POST"}, f \in BOOLEAN : Start(t, m, f)
  BY <1>1, <1>2 DEF Start, authVars
<1>3. CASE Wake(t) \/ Granted(t)
  BY <1>0, <1>1, <1>3 DEF Wake, Granted, authVars
<1>4. CASE LoginRefused(t) \/ LoginLost(t) \/ Lost(t)
  BY <1>0, <1>4, FailedFacts DEF LoginRefused, LoginLost, Lost, authVars
<1>5. CASE Answer(t) \/ Cancel(t)
  <2>1. /\ UNCHANGED <<clock, ticket>>
        /\ since' = [since EXCEPT ![t] = 0] /\ sent' = [sent EXCEPT ![t] = NoMessage]
        /\ \E r \in {"answered", "unauthorized", "cancelled"} :
              EndWith(t, r) /\ (r = "answered" => pc[t] = "sent")
    BY <1>5 DEF Answer, Cancel, authVars
  <2> QED
    BY <1>0, <2>1 DEF EndWith, Moves, TypeOK, NoMessage, Stage
<1> QED
  BY <1>2, <1>3, <1>4, <1>5

\* Every step keeps the order of the tickets.
LEMMA NewestStep == Inv /\ NewestInv /\ [Next]_vars => NewestInv'
<1> SUFFICES ASSUME Inv, NewestInv, [Next]_vars PROVE NewestInv'
  OBVIOUS
<1>1. ASSUME NEW t \in Task,
             \/ \E m \in {"GET", "POST"}, f \in BOOLEAN : Start(t, m, f)
             \/ Wake(t) \/ Granted(t) \/ LoginRefused(t) \/ LoginLost(t)
             \/ Answer(t) \/ Lost(t) \/ Cancel(t)
      PROVE  NewestInv'
  BY <1>1, RequestMoves, NewestKept
<1>2. ASSUME NEW t \in Task, LoginOk(t) PROVE NewestInv'
  <2>1. /\ pc[t] = "login" /\ ticket' \in since[t]..clock /\ since[t] \in Nat /\ clock \in Nat
        /\ ticket <= since[t] /\ ticket \in Nat
        /\ method[t] \in {"GET", "POST"} /\ file[t] \in BOOLEAN
        /\ Send(t, ticket', method[t], file[t])
    BY <1>2 DEF LoginOk, NewestInv, Inv, TypeOK
  <2>2. ticket' \in Nat /\ ticket <= ticket'
    BY <2>1
  <2>3. /\ Attempted(t, ticket', method[t]) /\ pc'[t] \in {"sent", "sleeping", "idle"}
    BY <2>1, <2>2, SendFacts DEF Inv
  <2>4. \A u \in Task : u # t => pc[u] # "login"
    BY <2>1 DEF Inv, LockInv, HasLock
  <2>5. ASSUME NEW u \in Task, u # t
        PROVE  /\ pc'[u] = "sent" => sent'[u].ticket <= ticket'
               /\ pc'[u] # "login"
    <3>1. pc'[u] = pc[u] /\ sent'[u] = sent[u]
      BY <2>3, <2>5 DEF Attempted, Moves
    <3>2. pc[u] = "sent" => sent[u].ticket \in Nat /\ sent[u].ticket <= ticket
      BY DEF Inv, MessageInv, NewestInv
    <3> QED
      BY <2>1, <2>2, <2>4, <2>5, <3>1, <3>2
  <2>6. pc'[t] = "sent" => sent'[t].ticket <= ticket'
    BY <2>2, <2>3 DEF Attempted
  <2> QED
    BY <2>3, <2>5, <2>6 DEF NewestInv
<1>3. CASE Close \/ Tick \/ UNCHANGED vars
  BY <1>3 DEF Close, Tick, vars, taskVars, authVars, NewestInv
<1> QED
  BY <1>1, <1>2, <1>3 DEF Next, Resume

\* Nothing is under way any more with a ticket that has expired.
LEMMA NothingOut ==
    ASSUME Inv, NewestInv, Expired, NEW t \in Task
    PROVE  pc[t] # "sent"
<1> SUFFICES ASSUME pc[t] = "sent" PROVE FALSE
  OBVIOUS
<1>1. /\ clock <= since[t] + Timeout /\ since[t] < sent[t].ticket + RenewAge + Timeout
      /\ sent[t].ticket <= ticket /\ clock >= ticket + Lifetime
      /\ clock \in Nat /\ ticket \in Nat /\ since[t] \in Nat /\ sent[t].ticket \in Nat
  BY DEF Inv, TypeOK, TimeInv, MessageInv, NewestInv, Expired
<1> QED
  BY <1>1, HTTPAssumption

\* Once the ticket has expired, and no renewal that was asked for in time is under way,
\* no renewal succeeds and no request is answered any more, whatever the requests do
\* and however long the session lives: it has to be created anew.
THEOREM ExpiredStaysExpired == Spec => ExpiredForGood
<1>1. Init => NewestInv
  BY DEF Init, NewestInv
<1>2. ASSUME Inv, NewestInv, [Next]_vars, Expired
      PROVE  /\ Expired'
             /\ \A t \in Task : result'[t] = "answered" => result[t] = "answered"
  <2>0. clock \in Nat /\ ticket \in Nat /\ clock >= ticket + Lifetime /\ Lifetime \in Nat
    BY <1>2, HTTPAssumption DEF Inv, TypeOK, Expired
  <2>1. ASSUME NEW t \in Task,
               \/ \E m \in {"GET", "POST"}, f \in BOOLEAN : Start(t, m, f)
               \/ Wake(t) \/ Granted(t) \/ LoginRefused(t) \/ LoginLost(t)
               \/ Answer(t) \/ Lost(t) \/ Cancel(t)
        PROVE  /\ Expired'
               /\ \A u \in Task : result'[u] = "answered" => result[u] = "answered"
    <3>1. /\ Moves(t) /\ clock' = clock /\ ticket' = ticket
          /\ pc'[t] = "login" => since'[t] = clock
          /\ result'[t] # "answered"
      BY <1>2, <2>1, RequestMoves, NothingOut
    <3>2. \A u \in Task : pc'[u] = "login" => since'[u] >= ticket + Lifetime
      BY <1>2, <2>0, <3>1 DEF Moves, Expired
    <3> QED
      BY <2>0, <3>1, <3>2 DEF Moves, Expired
  <2>2. ASSUME NEW t \in Task, LoginOk(t) PROVE FALSE
    <3>1. PICK i \in since[t]..clock : i < ticket + Lifetime
      BY <2>2 DEF LoginOk, Renewable
    <3>2. since[t] >= ticket + Lifetime /\ since[t] \in Nat
      BY <1>2, <2>2 DEF LoginOk, Expired, Inv, TypeOK
    <3> QED
      BY <2>0, <3>1, <3>2
  <2>3. CASE Close \/ Tick \/ UNCHANGED vars
    BY <1>2, <2>0, <2>3 DEF Close, Tick, vars, taskVars, authVars, Expired
  <2> QED
    BY <1>2, <2>1, <2>2, <2>3 DEF Next, Resume
<1>3. Inv /\ NewestInv /\ [Next]_vars =>
        [Expired => /\ Expired'
                    /\ \A t \in Task : result'[t] = "answered" => result[t] = "answered"]_vars
  BY <1>2
<1> QED
  BY <1>1, <1>3, NewestStep, InvCorrect, PTL DEF Spec, ExpiredForGood

=============================================================================
