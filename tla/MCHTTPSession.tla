--------------------------- MODULE MCHTTPSession ---------------------------
(***************************************************************************)
(* A small instance of HTTPSession for TLC.  The tasks are alike, so any   *)
(* permutation of them is a symmetry of its safety properties.             *)
(***************************************************************************)
EXTENDS HTTPSession, TLC

CONSTANTS t1, t2

MCTask == {t1, t2}
TaskSymmetry == Permutations(MCTask)

=============================================================================
