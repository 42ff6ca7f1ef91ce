-------------------------- MODULE BoundedAttempts --------------------------
(***************************************************************************)
(* What a retry promises its caller: the operation is tried one time after *)
(* another, never twice at once and never more than Max times; the first   *)
(* success is the result, and a result is final.                           *)
(***************************************************************************)
EXTENDS Naturals

CONSTANT Max

VARIABLES
    tries,    \* times the operation was started
    running,  \* whether it is running
    result    \* "none" while there is none

Init == tries = 0 /\ running = FALSE /\ result = "none"

Try ==
    /\ result = "none" /\ ~running /\ tries < Max
    /\ tries' = tries + 1
    /\ running' = TRUE
    /\ UNCHANGED result

Succeed ==
    /\ running
    /\ running' = FALSE /\ result' = "ok"
    /\ UNCHANGED tries

FailAndGoOn ==
    /\ running
    /\ running' = FALSE
    /\ UNCHANGED <<tries, result>>

GiveUp ==
    /\ result = "none"
    /\ running' = FALSE /\ result' = "error"
    /\ UNCHANGED tries

Next == Try \/ Succeed \/ FailAndGoOn \/ GiveUp

Spec == Init /\ [][Next]_<<tries, running, result>>

=============================================================================
