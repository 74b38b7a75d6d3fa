----------------------------- MODULE MCJobRetry -----------------------------
(* The instance of JobRetry for TLC. *)
EXTENDS JobRetry, TLC

CONSTANTS primary, fallback

Timeouts == primary :> 2 @@ fallback :> 1
NoFailure == primary :> 0 @@ fallback :> 0
=============================================================================
