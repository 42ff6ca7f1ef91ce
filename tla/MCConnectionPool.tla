-------------------------- MODULE MCConnectionPool --------------------------
(***************************************************************************)
(* Small instances of ConnectionPool for TLC.                              *)
(***************************************************************************)
EXTENDS ConnectionPool

\* Tasks are interchangeable: nothing but their identity tells them apart.
TaskSymmetry == Permutations(Task)

=============================================================================
