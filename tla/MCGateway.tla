------------------------------ MODULE MCGateway ------------------------------
(* The instance of Gateway for TLC. *)
EXTENDS Gateway
=============================================================================
