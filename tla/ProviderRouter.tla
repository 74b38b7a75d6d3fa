--------------------------- MODULE ProviderRouter ---------------------------
(***************************************************************************)
(* ProviderRouter.route and call: requests that try the primary target and *)
(* then, at most once, the fallback, each through its circuit breaker.     *)
(* Requests interleave at every await; a step is the code between two.     *)
(*                                                                         *)
(* The providers are external: a call ends as ok, with a transient error   *)
(* (isRetryableProviderError), with a permanent one or, when a stream's    *)
(* consumer throws, with StreamConsumerError.                              *)
(***************************************************************************)
EXTENDS CircuitBreaker

CONSTANTS Requests,
          Primary, Fallback, \* the two targets
          Mapped,            \* the requests whose model the fallback maps
          Streams,           \* the streaming requests
          Abortable,         \* bound: the requests whose signal may be aborted
          MaxTime            \* bound on the clock

ASSUME TargetsAssumption == /\ Primary # Fallback
                            /\ Circuits = {Primary, Fallback}

VARIABLES stage,     \* start, calling, returned, caught, done
          target,    \* the target of the current call
          admitted,  \* the generation execute read when it admitted the call
          outcome,   \* how the call, and in the end the request, came out
          cancelled, \* the requests whose signal is aborted
          emitted    \* the targets whose output a request has passed on

requestVars == <<stage, target, admitted, outcome, cancelled, emitted>>
vars == <<circuitVars, now, requestVars>>

Outcomes == {"none", "ok", "transient", "permanent", "consumer", "aborted", "circuit_open"}

(* isRetryableProviderError: a circuit that rejects counts as transient. *)
Retryable == {"transient", "circuit_open"}

Set(r, s, o) == /\ stage' = [stage EXCEPT ![r] = s]
                /\ outcome' = [outcome EXCEPT ![r] = o]

(* call(t): through the circuit to the provider, or rejected by it, which  *)
(* leads to the stage rejected.                                            *)
Call(r, t, rejected) ==
    /\ target' = [target EXCEPT ![r] = t]
    /\ \/ /\ Admit(t)
          /\ admitted' = [admitted EXCEPT ![r] = generation[t]]
          /\ Set(r, "calling", "none")
       \/ /\ ~Admissible(t)
          /\ Set(r, rejected, "circuit_open")
          /\ UNCHANGED <<circuitVars, admitted>>

Begin(r) ==
    /\ stage[r] = "start"
    /\ \/ /\ r \in cancelled
          /\ Set(r, "done", "aborted")
          /\ UNCHANGED <<circuitVars, target, admitted>>
       \/ r \notin cancelled /\ Call(r, Primary, "caught")
    /\ UNCHANGED <<now, cancelled, emitted>>

(* A delta reaches consume, which attempts the write. *)
Emit(r) ==
    /\ stage[r] = "calling" /\ r \in Streams /\ r \notin cancelled
    /\ emitted' = [emitted EXCEPT ![r] = @ \cup {target[r]}]
    /\ UNCHANGED <<circuitVars, now, stage, target, admitted, outcome, cancelled>>

(* The provider call ends; an aborted signal overrides what it came to. *)
ReturnsUncancelled(r) == \* mutant: call does not look at the signal again
    /\ stage[r] = "calling"
    /\ \E o \in {"ok", "transient", "permanent", "consumer"} :
          /\ o = "consumer" => emitted[r] # {}
          /\ Set(r, "returned", o)
    /\ UNCHANGED <<circuitVars, now, target, admitted, cancelled, emitted>>
Returns(r) ==
    /\ stage[r] = "calling"
    /\ \E o \in {"ok", "transient", "permanent", "consumer"} :
          /\ o = "consumer" => emitted[r] # {}
          /\ Set(r, "returned", IF r \in cancelled THEN "aborted" ELSE o)
    /\ UNCHANGED <<circuitVars, now, target, admitted, cancelled, emitted>>

(* The circuit learns of the outcome; a success or the fallback's error is *)
(* the request's.                                                          *)
Settle(r) ==
    /\ stage[r] = "returned"
    /\ Record(target[r], admitted[r], outcome[r])
    /\ stage' = [stage EXCEPT ![r] =
                   IF outcome[r] = "ok" \/ target[r] = Fallback THEN "done" ELSE "caught"]
    /\ UNCHANGED <<now, target, admitted, outcome, cancelled, emitted>>

(* route's catch: give up, or call the fallback. *)
CanFallbackMidway(r) == outcome[r] \in Retryable /\ r \in Mapped \* mutant
CanFallback(r) == /\ emitted[r] = {}
                  /\ outcome[r] \in Retryable
                  /\ r \in Mapped

Catch(r) ==
    /\ stage[r] = "caught"
    /\ \/ /\ r \in cancelled
          /\ Set(r, "done", "aborted")
          /\ UNCHANGED <<circuitVars, target, admitted>>
       \/ /\ r \notin cancelled /\ ~CanFallback(r)
          /\ Set(r, "done", outcome[r])
          /\ UNCHANGED <<circuitVars, target, admitted>>
       \/ r \notin cancelled /\ CanFallback(r) /\ Call(r, Fallback, "done")
    /\ UNCHANGED <<now, cancelled, emitted>>

(* The client disconnects, or the gateway aborts the request.  Between the *)
(* look at the signal after the call and the circuit's catch there is no   *)
(* event, only promise jobs: a returned call is settled as it is.          *)
Cancel(r) ==
    /\ stage[r] \notin {"returned", "done"} /\ r \in Abortable \ cancelled
    /\ cancelled' = cancelled \cup {r}
    /\ UNCHANGED <<circuitVars, now, stage, target, admitted, outcome, emitted>>

Tick == now < MaxTime /\ now' = now + 1 /\ UNCHANGED <<circuitVars, requestVars>>

Init ==
    /\ CircuitInit
    /\ stage = [r \in Requests |-> "start"]
    /\ target = [r \in Requests |-> Primary]
    /\ admitted = [r \in Requests |-> 0]
    /\ outcome = [r \in Requests |-> "none"]
    /\ cancelled = {}
    /\ emitted = [r \in Requests |-> {}]

Route(r) == Begin(r) \/ Returns(r) \/ Settle(r) \/ Catch(r)

Next == Tick \/ \E r \in Requests : Route(r) \/ Emit(r) \/ Cancel(r)

Spec == Init /\ [][Next]_vars

(* Promises are settled and calls end by their deadlines. *)
FairSpec == Spec /\ \A r \in Requests : WF_vars(Route(r))

----------------------------------------------------------------------------
(* Properties. *)

(* Every variable has its type. *)
TypeOK ==
    /\ CircuitTypeOK
    /\ stage \in [Requests -> {"start", "calling", "returned", "caught", "done"}]
    /\ target \in [Requests -> Circuits]
    /\ admitted \in [Requests -> Nat]
    /\ outcome \in [Requests -> Outcomes]
    /\ cancelled \subseteq Requests
    /\ emitted \in [Requests -> SUBSET Circuits]

(* The calls whose outcome the circuit will take into account. *)
InFlight(r, t) == stage[r] \in {"calling", "returned"} /\ target[r] = t
Counted(r, t) == InFlight(r, t) /\ admitted[r] = generation[t]

(* Recovery uses one real request as a probe: a half-open circuit has      *)
(* exactly one call whose outcome counts, an open one has none, whatever   *)
(* slow calls from before are still out (the generation of execute).       *)
SingleProbe ==
    \A t \in Circuits :
        /\ state[t] = "open" => \A r \in Requests : ~Counted(r, t)
        /\ state[t] = "half-open" => \E r \in Requests :
                                        /\ Counted(r, t)
                                        /\ \A q \in Requests : Counted(q, t) => q = r

(* A closed circuit is below its failure threshold, and the cooldown hint  *)
(* of snapshot is never longer than the cooldown.                          *)
CircuitSound ==
    \A t \in Circuits :
        /\ state[t] = "closed" => consecutiveFailures[t] < FailureThreshold
        /\ RetryAfter(t) \in 0..ResetTimeout

(* An open circuit is left only as a probe and only after its cooldown;    *)
(* outcomes of older calls neither close it nor restart the cooldown.      *)
OpenUntilCooldown ==
    [][\A t \in Circuits : state[t] = "open" =>
          \/ state'[t] = "open" /\ openedAt'[t] = openedAt[t]
          \/ state'[t] = "half-open" /\ now - openedAt[t] >= ResetTimeout]_vars

(* The answer comes from one model: once a write has been attempted the    *)
(* router never switches to the other target.                              *)
OneModelPerAnswer == \A r \in Requests : \A s, t \in emitted[r] : s = t

(* Only calls that nobody abandoned say anything about a provider's        *)
(* health: a step that counts a failure, forgets the failures, or opens or *)
(* closes a circuit is the settling of a call whose request is not         *)
(* cancelled, whatever the call of a cancelled one came to and however the *)
(* cancellation raced its end (throwIfCancelled after the operation, and   *)
(* the ignored outcomes of execute).                                       *)
Judged(t) == \/ consecutiveFailures'[t] # consecutiveFailures[t]
             \/ (state[t] = "closed") # (state'[t] = "closed")
AbandonedCallsDoNotCount ==
    [][\A t \in Circuits : Judged(t) =>
          \E r \in Requests \ cancelled :
             /\ Counted(r, t) /\ outcome[r] # "consumer"
             /\ stage[r] = "returned" /\ stage'[r] # "returned"]_vars

(* The inductive invariant behind them: no call is of a generation to      *)
(* come, no circuit was opened in the future, what a request has passed on *)
(* came from its current target, and a call that returned to a cancelled   *)
(* request was aborted.                                                    *)
RouterInv ==
    /\ TypeOK /\ SingleProbe /\ CircuitSound
    /\ \A t \in Circuits : openedAt[t] <= now
    /\ \A r \in Requests : /\ InFlight(r, target[r]) => admitted[r] <= generation[target[r]]
                           /\ emitted[r] \subseteq {target[r]}
                           /\ stage[r] = "start" => emitted[r] = {}
                           /\ stage[r] = "returned" /\ r \in cancelled
                                 => outcome[r] = "aborted"

(* A probe never leaks: a half-open circuit does not stay so, even if the  *)
(* probe's client goes away (the ignored outcome of execute).              *)
ProbeEnds == \A t \in Circuits : (state[t] = "half-open") ~> (state[t] # "half-open")
=============================================================================
