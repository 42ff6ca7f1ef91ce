-------------------------- MODULE ConnectionLeases --------------------------
(***************************************************************************)
(* What a connection pool promises of each connection, whatever its locks, *)
(* permits and background task do: it is created for one client, and then  *)
(* moves between one client at a time and the idle list of one key until   *)
(* it is closed, once and for good, or the client gives it up.  A pool     *)
(* that has been swept lists nothing again.                                *)
(***************************************************************************)
EXTENDS Naturals, FiniteSets

CONSTANTS Conn, Task, Key, MaxKeepalive

VARIABLES
    owner,   \* who has each connection
    swept    \* close() is through

Nobody == {<<"none">>, <<"closed">>, <<"given_up">>}
Held   == {"held"} \X Task
Listed == {"listed"} \X Key

ListOf(k) == {c \in Conn : owner[c] = <<"listed", k>>}

Init ==
    /\ owner = [c \in Conn |-> <<"none">>]
    /\ swept = FALSE

Create(c, t) ==
    /\ owner[c] = <<"none">>
    /\ owner' = [owner EXCEPT ![c] = <<"held", t>>]
    /\ UNCHANGED swept

HandOut(c, t) ==
    /\ owner[c] \in Listed
    /\ ~swept
    /\ owner' = [owner EXCEPT ![c] = <<"held", t>>]
    /\ UNCHANGED swept

PutBack(c, k) ==
    /\ owner[c] \in Held
    /\ ~swept
    /\ Cardinality(ListOf(k)) < MaxKeepalive
    /\ owner' = [owner EXCEPT ![c] = <<"listed", k>>]
    /\ UNCHANGED swept

CloseOne(c) ==
    /\ owner[c] \in Held \union Listed
    /\ owner' = [owner EXCEPT ![c] = <<"closed">>]
    /\ UNCHANGED swept

GiveUp(c) ==
    /\ owner[c] \in Held
    /\ owner' = [owner EXCEPT ![c] = <<"given_up">>]
    /\ UNCHANGED swept

Sweep ==
    /\ \A k \in Key : ListOf(k) = {}
    /\ swept' = TRUE
    /\ UNCHANGED owner

Next ==
    \/ \E c \in Conn :
          \/ \E t \in Task : Create(c, t) \/ HandOut(c, t)
          \/ \E k \in Key : PutBack(c, k)
          \/ CloseOne(c)
          \/ GiveUp(c)
    \/ Sweep

Spec == Init /\ [][Next]_<<owner, swept>>

=============================================================================
