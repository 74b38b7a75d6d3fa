--------------------------- MODULE CircuitBreaker ---------------------------
(***************************************************************************)
(* The circuits of the provider targets: the fields of CircuitBreaker, one *)
(* of each per circuit, and the two pieces of execute between which the    *)
(* provider call is awaited: admission, and the recording of its outcome.  *)
(***************************************************************************)
EXTENDS Integers

CONSTANTS Circuits,         \* the circuits, one for each provider target
          FailureThreshold,
          ResetTimeout,     \* resetTimeoutMs, in ticks of the clock
          PastFailures      \* the failures a circuit has behind it at first

ASSUME OptionsAssumption == /\ FailureThreshold \in Nat \ {0}
                            /\ ResetTimeout \in Nat \ {0}

ASSUME PastAssumption == PastFailures \in [Circuits -> 0..FailureThreshold - 1]

VARIABLES state, consecutiveFailures, openedAt, generation,
          now \* the monotonic clock

circuitVars == <<state, consecutiveFailures, openedAt, generation>>

CircuitTypeOK ==
    /\ state \in [Circuits -> {"closed", "open", "half-open"}]
    /\ consecutiveFailures \in [Circuits -> Nat]
    /\ openedAt \in [Circuits -> Int]
    /\ generation \in [Circuits -> Nat]
    /\ now \in Nat

(* A circuit starts closed.  Its process may have lived for a while: each  *)
(* circuit has some failures behind it, too few to have opened it.         *)
CircuitInit ==
    /\ state = [t \in Circuits |-> "closed"]
    /\ consecutiveFailures = PastFailures
    /\ openedAt = [t \in Circuits |-> 0]
    /\ generation = [t \in Circuits |-> 0]
    /\ now = 0

(* retryAfterMs of snapshot(). *)
RetryAfter(t) ==
    CASE state[t] = "open" -> IF ResetTimeout - (now - openedAt[t]) > 0
                              THEN ResetTimeout - (now - openedAt[t]) ELSE 0
      [] state[t] = "half-open" -> ResetTimeout
      [] OTHER -> 0

Admissible(t) == state[t] # "half-open" /\ RetryAfter(t) = 0

(* An admitted call reserves the probe of an open circuit. *)
Admit(t) == /\ Admissible(t)
            /\ state' = [state EXCEPT ![t] = IF @ = "open" THEN "half-open" ELSE @]
            /\ UNCHANGED <<consecutiveFailures, openedAt, generation>>

recordHealthy(t) ==
    /\ generation' = [generation EXCEPT ![t] = IF state[t] = "half-open" THEN @ + 1 ELSE @]
    /\ state' = [state EXCEPT ![t] = "closed"]
    /\ consecutiveFailures' = [consecutiveFailures EXCEPT ![t] = 0]
    /\ UNCHANGED openedAt

OpenSameGeneration(t, since) == \* mutant
    /\ state' = [state EXCEPT ![t] = "open"]
    /\ openedAt' = [openedAt EXCEPT ![t] = since]
    /\ UNCHANGED generation
Open(t, since) ==
    /\ state' = [state EXCEPT ![t] = "open"]
    /\ openedAt' = [openedAt EXCEPT ![t] = since]
    /\ generation' = [generation EXCEPT ![t] = @ + 1]

recordFailure(t) ==
    /\ consecutiveFailures' = [consecutiveFailures EXCEPT ![t] = @ + 1]
    /\ \/ /\ state[t] = "half-open" \/ consecutiveFailures[t] + 1 >= FailureThreshold
          /\ Open(t, now)
       \/ /\ state[t] # "half-open" /\ consecutiveFailures[t] + 1 < FailureThreshold
          /\ UNCHANGED <<state, openedAt, generation>>

(* An ignored outcome gives the probe back, with the cooldown over. *)
ReleaseNothing(t) == UNCHANGED circuitVars \* mutant: the probe is not given back
Release(t) ==
    \/ /\ state[t] = "half-open"
       /\ Open(t, now - ResetTimeout)
       /\ UNCHANGED consecutiveFailures
    \/ state[t] # "half-open" /\ UNCHANGED circuitVars

(* The rest of execute, for a call admitted in generation g. *)
Ignored == {"aborted", "consumer"}
RecordLate(t, g, outcome) == \* mutant: calls from before the circuit opened count
    \/ outcome \in Ignored /\ Release(t)
    \/ outcome = "transient" /\ recordFailure(t)
    \/ outcome \in {"ok", "permanent"} /\ recordHealthy(t)
Record(t, g, outcome) ==
    \/ g # generation[t] /\ UNCHANGED circuitVars
    \/ /\ g = generation[t]
       /\ \/ outcome \in Ignored /\ Release(t)
          \/ outcome = "transient" /\ recordFailure(t)
          \/ outcome \in {"ok", "permanent"} /\ recordHealthy(t)
=============================================================================
