---------------------------- MODULE MCRetryAsync ----------------------------
(***************************************************************************)
(* A small instance of RetryAsync for TLC: three attempts, delays of 4 and *)
(* 8 ticks before jitter, and an overall timeout that falls between them.  *)
(***************************************************************************)
EXTENDS RetryAsync

MCError == {"transient", "fatal"}
MCRetryable == {"transient", "timeout"}

=============================================================================
