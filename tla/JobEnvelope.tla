---------------------------- MODULE JobEnvelope ----------------------------
(***************************************************************************)
(* What the job table and the broker share: the job ids, the attempt       *)
(* budget, and the message that carries an id and an attempt number.       *)
(***************************************************************************)
EXTENDS Naturals

CONSTANTS Jobs,        \* the job ids
          MaxAttempts, \* max_attempts of every row
          None         \* no value

ASSUME MaxAttemptsAssumption == MaxAttempts \in Nat \ {0}

Attempts  == 1..MaxAttempts
Envelopes == [job : Jobs, attempt : Attempts]

Env(j, n) == [job |-> j, attempt |-> n]

ASSUME NoneAssumption == None \notin Jobs /\ None \notin Envelopes
=============================================================================
