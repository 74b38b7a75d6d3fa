------------------------ MODULE MCConcurrencyLimiter ------------------------
(* The instance of ConcurrencyLimiter for TLC. *)
EXTENDS ConcurrencyLimiter
=============================================================================
