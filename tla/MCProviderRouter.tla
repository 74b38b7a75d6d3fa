-------------------------- MODULE MCProviderRouter --------------------------
(* The instance of ProviderRouter for TLC. *)
EXTENDS ProviderRouter

(* The next failure of either circuit opens it; a success makes it two. *)
OneFailure == [t \in Circuits |-> 1]
=============================================================================
