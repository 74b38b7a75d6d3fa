------------------------ MODULE ProviderRouterProofs ------------------------
(***************************************************************************)
(* Machine-checked proofs about the circuit breakers and the router, for   *)
(* every number of concurrent requests and every threshold and cooldown;   *)
(* then, below the line, about the times of the inference jobs that use    *)
(* them, for every number of jobs and attempts and all timeouts, delays    *)
(* and cooldowns.                                                          *)
(***************************************************************************)
EXTENDS JobRetry, TLAPS

(* Most leaves are first-order; those with arithmetic or records name SMT. *)
USE Zenon

Calling == {"calling", "returned"}

(* What a step may do to the circuits: admit a call, record its outcome,   *)
(* or nothing.                                                             *)
Admits(r, t) == /\ Admit(t) /\ stage[r] \notin Calling /\ now' = now
                /\ stage' = [stage EXCEPT ![r] = "calling"]
                /\ target' = [target EXCEPT ![r] = t]
                /\ admitted' = [admitted EXCEPT ![r] = generation[t]]
Records(r) == /\ stage[r] = "returned" /\ now' = now
              /\ Record(target[r], admitted[r], outcome[r])
              /\ \E s \in {"done", "caught"} : stage' = [stage EXCEPT ![r] = s]
              /\ UNCHANGED <<target, admitted>>
Idles == /\ UNCHANGED circuitVars
         /\ now' = now \/ now' = now + 1
         /\ \A r \in Requests :
               /\ stage'[r] \in Calling <=> stage[r] \in Calling
               /\ stage[r] \in Calling => target'[r] = target[r] /\ admitted'[r] = admitted[r]

(* Every step is one of the three. *)
LEMMA StepKinds ==
    ASSUME RouterInv, [Next]_vars
    PROVE  \/ \E r \in Requests, t \in Circuits : Admits(r, t)
           \/ \E r \in Requests : Records(r)
           \/ Idles
<1>0. /\ stage \in [Requests -> {"start", "calling", "returned", "caught", "done"}]
      /\ Primary \in Circuits /\ Fallback \in Circuits
  BY TargetsAssumption DEF RouterInv, TypeOK
<1>1. CASE UNCHANGED vars \/ Tick
  BY <1>1 DEF vars, requestVars, Tick, Idles
<1>2. ASSUME NEW r \in Requests, NEW t \in Circuits, NEW s \in {"caught", "done"},
             Call(r, t, s), stage[r] \notin Calling, now' = now
      PROVE  Admits(r, t) \/ Idles
  <2>1. CASE Admit(t)
    BY <1>0, <1>2, <2>1 DEF Call, Set, Admits, Admit
  <2>2. CASE ~Admissible(t)
    BY SMTT(20), <1>0, <1>2, <2>2 DEF Call, Set, Admit, Idles, Calling
  <2> QED BY <1>2, <2>1, <2>2 DEF Call
<1>3. ASSUME NEW r \in Requests, Begin(r)
      PROVE  Admits(r, Primary) \/ Idles
  <2>1. CASE r \in cancelled
    BY <1>0, <1>3, <2>1 DEF Begin, Set, Idles, Calling
  <2>2. CASE r \notin cancelled
    BY <1>0, <1>2, <1>3, <2>2 DEF Begin, Calling
  <2> QED BY <2>1, <2>2
<1>4. ASSUME NEW r \in Requests, Catch(r)
      PROVE  Admits(r, Fallback) \/ Idles
  <2>1. CASE r \in cancelled \/ ~CanFallback(r)
    BY <1>0, <1>4, <2>1 DEF Catch, Set, Idles, Calling
  <2>2. CASE r \notin cancelled /\ CanFallback(r)
    BY <1>0, <1>2, <1>4, <2>2 DEF Catch, Calling
  <2> QED BY <2>1, <2>2
<1>5. ASSUME NEW r \in Requests, Returns(r)
      PROVE  Idles
  BY <1>0, <1>5 DEF Returns, Set, Idles, Calling
<1>6. ASSUME NEW r \in Requests, Settle(r)
      PROVE  Records(r)
  BY <1>6 DEF Settle, Records
<1>7. ASSUME NEW r \in Requests, Emit(r) \/ Cancel(r)
      PROVE  Idles
  BY <1>7 DEF Emit, Cancel, Idles
<1> QED BY <1>0, <1>1, <1>3, <1>4, <1>5, <1>6, <1>7 DEF Next, Route

(* What recording an outcome may do to a circuit. *)
LEMMA RecordStep ==
    ASSUME CircuitTypeOK, NEW t \in Circuits, NEW g, NEW o, Record(t, g, o)
    PROVE  /\ CircuitTypeOK' \/ now' # now
           /\ \A u \in Circuits \ {t} :
                 /\ state'[u] = state[u] /\ consecutiveFailures'[u] = consecutiveFailures[u]
                 /\ openedAt'[u] = openedAt[u] /\ generation'[u] = generation[u]
           /\ \/ UNCHANGED circuitVars /\ (g = generation[t] => state[t] # "half-open")
              \/ /\ g = generation[t] /\ state'[t] = "open" /\ generation'[t] = generation[t] + 1
                 /\ openedAt'[t] \in {now, now - ResetTimeout}
              \/ /\ g = generation[t] /\ state'[t] = "closed" /\ consecutiveFailures'[t] = 0
              \/ /\ g = generation[t] /\ state'[t] = state[t] /\ state[t] # "half-open"
                 /\ generation'[t] = generation[t] /\ openedAt'[t] = openedAt[t]
                 /\ consecutiveFailures'[t] < FailureThreshold
<1> USE OptionsAssumption DEF CircuitTypeOK
<1>1. CASE g # generation[t]
  BY <1>1 DEF Record, circuitVars
<1>2. CASE g = generation[t] /\ Release(t)
  BY SMTT(20), <1>2 DEF Release, Open, circuitVars
<1>3. CASE g = generation[t] /\ recordFailure(t)
  <2>1. CASE Open(t, now)
    BY SMTT(20), <1>3, <2>1 DEF recordFailure, Open
  <2>2. CASE ~Open(t, now)
    BY SMTT(20), <1>3, <2>2 DEF recordFailure
  <2> QED BY <2>1, <2>2
<1>4. CASE g = generation[t] /\ recordHealthy(t)
  BY SMTT(20), <1>4 DEF recordHealthy
<1> QED BY <1>1, <1>2, <1>3, <1>4 DEF Record

(* The type invariant. *)
LEMMA TypeStep ==
    ASSUME RouterInv, [Next]_vars
    PROVE  TypeOK'
<1> USE OptionsAssumption, TargetsAssumption
<1>0. TypeOK
  BY DEF RouterInv
<1>1. CircuitTypeOK'
  <2>1. ASSUME NEW r \in Requests, NEW t \in Circuits, Admits(r, t)
        PROVE  CircuitTypeOK'
    BY <1>0, <2>1 DEF Admits, Admit, TypeOK, CircuitTypeOK
  <2>2. ASSUME NEW r \in Requests, Records(r)
        PROVE  CircuitTypeOK'
    <3>1. target[r] \in Circuits /\ CircuitTypeOK
      BY <1>0 DEF TypeOK
    <3> QED BY <2>2, <3>1, RecordStep DEF Records
  <2>3. CASE Idles
    BY SMTT(20), <1>0, <2>3 DEF Idles, TypeOK, CircuitTypeOK, circuitVars
  <2> QED BY <2>1, <2>2, <2>3, StepKinds
<1>2. /\ stage' \in [Requests -> {"start", "calling", "returned", "caught", "done"}]
      /\ target' \in [Requests -> Circuits]
      /\ admitted' \in [Requests -> Nat]
      /\ outcome' \in [Requests -> Outcomes]
      /\ cancelled' \subseteq Requests
      /\ emitted' \in [Requests -> SUBSET Circuits]
  <2> DEFINE G == /\ stage' \in [Requests -> {"start", "calling", "returned", "caught", "done"}]
                  /\ target' \in [Requests -> Circuits]
                  /\ admitted' \in [Requests -> Nat]
                  /\ outcome' \in [Requests -> Outcomes]
                  /\ cancelled' \subseteq Requests
                  /\ emitted' \in [Requests -> SUBSET Circuits]
  <2> USE DEF TypeOK, CircuitTypeOK, Outcomes
  <2>1. CASE UNCHANGED vars \/ Tick
    BY <1>0, <2>1 DEF vars, requestVars, Tick
  <2>2. ASSUME NEW r \in Requests, Begin(r) \/ Catch(r)
        PROVE  G
    BY ZenonT(30), <1>0, <2>2 DEF Begin, Catch, Call, Set
  <2>3. ASSUME NEW r \in Requests, Returns(r) \/ Settle(r)
        PROVE  G
    BY SMTT(20), <1>0, <2>3 DEF Returns, Settle, Set
  <2>4. ASSUME NEW r \in Requests, Emit(r) \/ Cancel(r)
        PROVE  G
    BY SMTT(20), <1>0, <2>4 DEF Emit, Cancel
  <2> QED BY <2>1, <2>2, <2>3, <2>4 DEF Next, Route
<1> QED BY <1>1, <1>2 DEF TypeOK

(* No circuit was opened in the future, no call is of a generation to come. *)
LEMMA BoundsStep ==
    ASSUME RouterInv, [Next]_vars
    PROVE  /\ \A t \in Circuits : openedAt'[t] <= now'
           /\ \A r \in Requests : stage'[r] \in Calling
                 => admitted'[r] <= generation'[target'[r]]
<1> DEFINE G == /\ \A t \in Circuits : openedAt'[t] <= now'
                /\ \A r \in Requests : stage'[r] \in Calling
                     => admitted'[r] <= generation'[target'[r]]
<1> USE OptionsAssumption
<1>0. /\ CircuitTypeOK
      /\ stage \in [Requests -> {"start", "calling", "returned", "caught", "done"}]
      /\ target \in [Requests -> Circuits] /\ admitted \in [Requests -> Nat]
      /\ \A t \in Circuits : openedAt[t] <= now
      /\ \A r \in Requests : stage[r] \in Calling => admitted[r] <= generation[target[r]]
  BY DEF RouterInv, TypeOK, InFlight, Calling
<1>1. ASSUME NEW r \in Requests, NEW t \in Circuits, Admits(r, t)
      PROVE  G
  BY SMTT(20), <1>0, <1>1 DEF Admits, Admit, CircuitTypeOK
<1>2. ASSUME NEW r \in Requests, Records(r)
      PROVE  G
  <2>1. target[r] \in Circuits /\ Record(target[r], admitted[r], outcome[r])
    BY <1>0, <1>2 DEF Records
  <2>2. \A t \in Circuits : openedAt'[t] \in {openedAt[t], now, now - ResetTimeout}
    <3>1. target[r] \in Circuits => openedAt'[target[r]] \in
             {openedAt[target[r]], now, now - ResetTimeout}
      BY <1>0, <2>1 DEF Record, Release, recordFailure, recordHealthy, Open, circuitVars,
            CircuitTypeOK
    <3> QED BY <1>0, <2>1, <3>1, RecordStep
  <2>3. \A t \in Circuits : generation'[t] \in {generation[t], generation[t] + 1}
    <3>1. generation'[target[r]] \in {generation[target[r]], generation[target[r]] + 1}
      BY <1>0, <2>1 DEF Record, Release, recordFailure, recordHealthy, Open, circuitVars,
            CircuitTypeOK
    <3> QED BY <1>0, <2>1, <3>1, RecordStep
  <2>4. \A q \in Requests : stage'[q] \in Calling => stage[q] \in Calling
    BY <1>0, <1>2 DEF Records, Calling
  <2>5. now' = now /\ target' = target /\ admitted' = admitted
    BY <1>2 DEF Records
  <2>6. \A t \in Circuits : openedAt'[t] <= now'
    BY SMTT(20), <1>0, <2>2, <2>5 DEF CircuitTypeOK
  <2>7. \A q \in Requests : stage'[q] \in Calling => admitted'[q] <= generation'[target'[q]]
    BY SMTT(20), <1>0, <2>3, <2>4, <2>5 DEF CircuitTypeOK
  <2> QED BY <2>6, <2>7
<1>3. CASE Idles
  BY SMTT(20), <1>0, <1>3 DEF Idles, circuitVars, CircuitTypeOK
<1> QED BY <1>1, <1>2, <1>3, StepKinds

(* A call that is recorded or admitted leaves at most one probe. *)
LEMMA SingleProbeStep ==
    ASSUME RouterInv, [Next]_vars
    PROVE  SingleProbe'
<1>0. /\ CircuitTypeOK
      /\ stage \in [Requests -> {"start", "calling", "returned", "caught", "done"}]
      /\ target \in [Requests -> Circuits] /\ admitted \in [Requests -> Nat]
      /\ \A r \in Requests : stage[r] \in Calling => admitted[r] <= generation[target[r]]
      /\ SingleProbe
  BY DEF RouterInv, TypeOK, InFlight, Calling
<1> USE DEF Counted, InFlight, Calling
<1>1. ASSUME NEW r \in Requests, NEW t \in Circuits, Admits(r, t)
      PROVE  SingleProbe'
  <2>1. \A q \in Requests \ {r}, u \in Circuits : Counted(q, u)' <=> Counted(q, u)
    BY <1>0, <1>1 DEF Admits, Admit
  <2>2. \A u \in Circuits \ {t} : ~Counted(r, u)' /\ ~Counted(r, u)
    BY <1>0, <1>1 DEF Admits, Admit
  <2>3. /\ \A u \in Circuits \ {t} : state'[u] = state[u]
        /\ state'[t] = "closed" \/ (state[t] = "open" /\ state'[t] = "half-open")
    BY <1>0, <1>1 DEF Admits, Admit, Admissible, CircuitTypeOK
  <2>4. Counted(r, t)'
    BY <1>0, <1>1 DEF Admits, Admit
  <2> HIDE DEF Counted
  <2> QED BY SMTT(20), <1>0, <2>1, <2>2, <2>3, <2>4 DEF SingleProbe
<1>2. ASSUME NEW r \in Requests, Records(r)
      PROVE  SingleProbe'
  <2>0. PICK t \in Circuits : t = target[r]
    BY <1>0
  <2>1. Record(t, admitted[r], outcome[r])
    BY <1>2, <2>0 DEF Records
  <2>2. \A u \in Circuits : ~Counted(r, u)'
    BY <1>0, <1>2 DEF Records
  <2>3. \A q \in Requests \ {r}, u \in Circuits \ {t} : Counted(q, u)' <=> Counted(q, u)
    BY SMTT(20), <1>0, <1>2, <2>0, <2>1, RecordStep DEF Records
  <2>4. \A u \in Circuits \ {t} : state'[u] = state[u] /\ ~Counted(r, u)
    BY <1>0, <2>0, <2>1, RecordStep
  <2>5. Counted(r, t) <=> admitted[r] = generation[t]
    BY <1>0, <1>2, <2>0 DEF Records
  <2>a. ASSUME NEW u \in Circuits, u # t
        PROVE  /\ state'[u] = "open" => \A q \in Requests : ~Counted(q, u)'
               /\ state'[u] = "half-open" =>
                     \E q \in Requests : /\ Counted(q, u)'
                                         /\ \A p \in Requests : Counted(p, u)' => p = q
    <3>1. state'[u] = state[u] /\ \A q \in Requests : Counted(q, u)' <=> Counted(q, u)
      BY SMTT(20), <2>2, <2>3, <2>4, <2>a
    <3> HIDE DEF Counted
    <3> QED BY <1>0, <3>1 DEF SingleProbe
  <2>6. CASE UNCHANGED circuitVars /\ (admitted[r] = generation[t] => state[t] # "half-open")
    <3>1. \A q \in Requests \ {r} : Counted(q, t)' <=> Counted(q, t)
      BY <1>0, <1>2, <2>6 DEF Records, circuitVars
    <3>2. state' = state
      BY <2>6 DEF circuitVars
    <3> HIDE DEF Counted
    <3> QED BY SMTT(20), <1>0, <2>2, <2>3, <2>4, <2>5, <2>6, <3>1, <3>2 DEF SingleProbe
  <2>b. ASSUME \/ state'[t] = "open" /\ \A q \in Requests : ~Counted(q, t)'
               \/ state'[t] = "closed"
        PROVE  SingleProbe'
    <3> SUFFICES ASSUME NEW u \in Circuits
                 PROVE  /\ state'[u] = "open" => \A q \in Requests : ~Counted(q, u)'
                        /\ state'[u] = "half-open" =>
                              \E q \in Requests : /\ Counted(q, u)'
                                                  /\ \A p \in Requests : Counted(p, u)' => p = q
      BY DEF SingleProbe
    <3>1. CASE u = t
      BY <2>b, <3>1
    <3>2. CASE u # t
      BY <2>a, <3>2
    <3> QED BY <3>1, <3>2
  <2>7. CASE state'[t] = "open" /\ generation'[t] = generation[t] + 1
    <3>1. \A q \in Requests : ~Counted(q, t)'
      BY SMTT(20), <1>0, <1>2, <2>0, <2>7 DEF Records, CircuitTypeOK
    <3> QED BY <2>b, <2>7, <3>1
  <2>8. CASE state'[t] = "closed"
    BY <2>b, <2>8
  <2>9. CASE /\ admitted[r] = generation[t] /\ state'[t] = state[t]
             /\ state[t] # "half-open"
    <3>1. state[t] = "closed"
      BY <1>0, <2>1, <2>5, <2>9 DEF SingleProbe, CircuitTypeOK
    <3> QED BY <2>8, <2>9, <3>1
  <2> QED BY <1>0, <2>1, <2>6, <2>7, <2>8, <2>9, RecordStep
<1>3. CASE Idles
  <2>1. \A q \in Requests, u \in Circuits : Counted(q, u)' <=> Counted(q, u)
    BY <1>0, <1>3 DEF Idles, circuitVars
  <2>2. state' = state
    BY <1>3 DEF Idles, circuitVars
  <2> HIDE DEF Counted
  <2> QED BY <1>0, <2>1, <2>2 DEF SingleProbe
<1> QED BY <1>1, <1>2, <1>3, StepKinds

(* Closed circuits stay below the threshold and hints within the cooldown. *)
LEMMA CircuitSoundStep ==
    ASSUME RouterInv, [Next]_vars
    PROVE  CircuitSound'
<1> USE OptionsAssumption
<1>0. CircuitTypeOK /\ CircuitTypeOK' /\ SingleProbe
  BY TypeStep DEF RouterInv, TypeOK
<1>1. \A t \in Circuits : RetryAfter(t)' \in 0..ResetTimeout
  BY SMTT(20), <1>0, BoundsStep DEF RetryAfter, CircuitTypeOK
<1>2. \A t \in Circuits : state[t] = "closed" => consecutiveFailures[t] < FailureThreshold
  BY DEF RouterInv, CircuitSound
<1>3. \A t \in Circuits : state'[t] = "closed" => consecutiveFailures'[t] < FailureThreshold
  <2>1. ASSUME NEW r \in Requests, NEW t \in Circuits, Admits(r, t)
        PROVE  \A u \in Circuits : state'[u] = "closed" => consecutiveFailures'[u] < FailureThreshold
    BY <1>0, <1>2, <2>1 DEF Admits, Admit, CircuitTypeOK
  <2>2. ASSUME NEW r \in Requests, Records(r)
        PROVE  \A u \in Circuits : state'[u] = "closed" => consecutiveFailures'[u] < FailureThreshold
    <3>1. target[r] \in Circuits
      BY DEF RouterInv, TypeOK
    <3>2. state'[target[r]] = "closed" => consecutiveFailures'[target[r]] < FailureThreshold
      BY SMTT(20), <1>0, <1>2, <2>2, <3>1, RecordStep DEF Records, circuitVars
    <3> QED BY SMTT(20), <1>0, <1>2, <2>2, <3>1, <3>2, RecordStep DEF Records
  <2>3. CASE Idles
    BY <1>2, <2>3 DEF Idles, circuitVars
  <2> QED BY <2>1, <2>2, <2>3, StepKinds
<1> QED BY <1>1, <1>3 DEF CircuitSound

(* What a request has passed on came from its current target. *)
LEMMA EmittedStep ==
    ASSUME RouterInv, [Next]_vars
    PROVE  \A r \in Requests : emitted'[r] \subseteq {target'[r]}
<1>0. /\ TypeOK
      /\ \A r \in Requests : emitted[r] \subseteq {target[r]}
      /\ \A r \in Requests : stage[r] = "start" => emitted[r] = {}
  BY DEF RouterInv
<1> USE DEF TypeOK
<1>1. CASE UNCHANGED vars \/ Tick
  BY <1>0, <1>1 DEF vars, requestVars, Tick
<1>2. ASSUME NEW q \in Requests, Begin(q)
      PROVE  \A r \in Requests : emitted'[r] \subseteq {target'[r]}
  BY <1>0, <1>2 DEF Begin, Call
<1>3. ASSUME NEW q \in Requests, Catch(q)
      PROVE  \A r \in Requests : emitted'[r] \subseteq {target'[r]}
  BY <1>0, <1>3 DEF Catch, Call, CanFallback
<1>4. ASSUME NEW q \in Requests, Returns(q) \/ Settle(q) \/ Cancel(q)
      PROVE  \A r \in Requests : emitted'[r] \subseteq {target'[r]}
  BY <1>0, <1>4 DEF Returns, Settle, Cancel
<1>5. ASSUME NEW q \in Requests, Emit(q)
      PROVE  \A r \in Requests : emitted'[r] \subseteq {target'[r]}
  BY <1>0, <1>5 DEF Emit
<1> QED BY <1>1, <1>2, <1>3, <1>4, <1>5 DEF Next, Route

(* A request that has not begun has passed nothing on. *)
LEMMA StartStep ==
    ASSUME RouterInv, [Next]_vars
    PROVE  \A r \in Requests : stage'[r] = "start" => emitted'[r] = {}
<1>0. TypeOK /\ \A r \in Requests : stage[r] = "start" => emitted[r] = {}
  BY DEF RouterInv
<1> USE DEF TypeOK
<1>1. CASE UNCHANGED vars \/ Tick
  BY <1>0, <1>1 DEF vars, requestVars, Tick
<1>2. ASSUME NEW q \in Requests, Begin(q) \/ Catch(q)
      PROVE  \A r \in Requests : stage'[r] = "start" => emitted'[r] = {}
  BY <1>0, <1>2 DEF Begin, Catch, Call, Set
<1>3. ASSUME NEW q \in Requests, Returns(q) \/ Settle(q) \/ Cancel(q) \/ Emit(q)
      PROVE  \A r \in Requests : stage'[r] = "start" => emitted'[r] = {}
  BY <1>0, <1>3 DEF Returns, Settle, Cancel, Emit, Set
<1> QED BY <1>1, <1>2, <1>3 DEF Next, Route

(* A call that returned to a cancelled request was aborted. *)
LEMMA AbortedStep ==
    ASSUME RouterInv, [Next]_vars
    PROVE  \A r \in Requests : stage'[r] = "returned" /\ r \in cancelled' => outcome'[r] = "aborted"
<1>0. TypeOK /\ \A r \in Requests : stage[r] = "returned" /\ r \in cancelled => outcome[r] = "aborted"
  BY DEF RouterInv
<1> USE DEF TypeOK
<1> DEFINE Goal == \A r \in Requests :
                      stage'[r] = "returned" /\ r \in cancelled' => outcome'[r] = "aborted"
<1>1. CASE UNCHANGED vars \/ Tick
  BY <1>0, <1>1 DEF vars, requestVars, Tick
<1>2. ASSUME NEW q \in Requests, Begin(q) \/ Catch(q)
      PROVE  Goal
  BY <1>0, <1>2 DEF Begin, Catch, Call, Set
<1>3. ASSUME NEW q \in Requests, Returns(q)
      PROVE  Goal
  BY <1>0, <1>3 DEF Returns, Set
<1>4. ASSUME NEW q \in Requests, Settle(q) \/ Cancel(q) \/ Emit(q)
      PROVE  Goal
  BY <1>0, <1>4 DEF Settle, Cancel, Emit
<1> QED BY <1>1, <1>2, <1>3, <1>4 DEF Next, Route

(* The inductive invariant of the router. *)
THEOREM RouterInductive == Spec => []RouterInv
<1>1. Init => RouterInv
  <2> SUFFICES ASSUME Init PROVE RouterInv
    OBVIOUS
  <2> USE OptionsAssumption, PastAssumption, TargetsAssumption DEF Init, CircuitInit
  <2>1. TypeOK
    BY SMTT(20) DEF TypeOK, CircuitTypeOK, Outcomes
  <2>2. SingleProbe
    BY DEF SingleProbe
  <2>3. CircuitSound
    BY SMTT(20) DEF CircuitSound, RetryAfter
  <2> QED BY SMTT(20), <2>1, <2>2, <2>3 DEF RouterInv, InFlight
<1>2. RouterInv /\ [Next]_vars => RouterInv'
  BY TypeStep, BoundsStep, SingleProbeStep, CircuitSoundStep, EmittedStep, StartStep,
     AbortedStep
     DEF RouterInv, InFlight, Calling
<1> QED BY <1>1, <1>2, PTL DEF Spec

(* Recovery uses one real request as a probe, for any number of requests   *)
(* in flight from before the circuit opened (execute's generation).        *)
THEOREM OneProbe == Spec => []SingleProbe
<1>1. RouterInv => SingleProbe
  BY DEF RouterInv
<1> QED BY <1>1, RouterInductive, PTL

(* Closed circuits are below the threshold, hints within the cooldown. *)
THEOREM SoundCircuits == Spec => []CircuitSound
<1>1. RouterInv => CircuitSound
  BY DEF RouterInv
<1> QED BY <1>1, RouterInductive, PTL

(* An open circuit is left only as a probe and only after its cooldown. *)
THEOREM CooldownHolds == Spec => OpenUntilCooldown
<1> DEFINE Stays(t) == \/ state'[t] = "open" /\ openedAt'[t] = openedAt[t]
                       \/ state'[t] = "half-open" /\ now - openedAt[t] >= ResetTimeout
<1>1. RouterInv /\ [Next]_vars => [\A t \in Circuits : state[t] = "open" => Stays(t)]_vars
  <2> SUFFICES ASSUME RouterInv, [Next]_vars, NEW t \in Circuits, state[t] = "open"
               PROVE  Stays(t)
    OBVIOUS
  <2> USE OptionsAssumption
  <2>0. CircuitTypeOK /\ SingleProbe
    BY DEF RouterInv, TypeOK
  <2>1. ASSUME NEW r \in Requests, NEW u \in Circuits, Admits(r, u)
        PROVE  Stays(t)
    BY SMTT(20), <2>0, <2>1 DEF Admits, Admit, Admissible, RetryAfter, CircuitTypeOK
  <2>2. ASSUME NEW r \in Requests, Records(r)
        PROVE  Stays(t)
    <3>1. target[r] \in Circuits /\ Record(target[r], admitted[r], outcome[r])
      BY <2>2 DEF RouterInv, TypeOK, Records
    <3>2. target[r] = t => admitted[r] # generation[t]
      BY <2>0, <2>2 DEF SingleProbe, Counted, InFlight, Records
    <3> QED BY SMTT(20), <2>0, <3>1, <3>2, RecordStep DEF circuitVars
  <2>3. CASE Idles
    BY <2>3 DEF Idles, circuitVars
  <2> QED BY <2>1, <2>2, <2>3, StepKinds
<1>2. Spec => [][\A t \in Circuits : state[t] = "open" => Stays(t)]_vars
  BY <1>1, RouterInductive, PTL DEF Spec
<1> QED BY <1>2 DEF OpenUntilCooldown

(* A circuit learns nothing from a cancelled request: failures are counted *)
(* or forgotten, and circuits opened or closed, only by the call of a      *)
(* request that is not cancelled and whose consumer did not fail.          *)
THEOREM AbandonedIgnored == Spec => AbandonedCallsDoNotCount
<1> DEFINE Judge(r, t) == /\ Counted(r, t) /\ outcome[r] # "consumer"
                          /\ stage[r] = "returned" /\ stage'[r] # "returned"
<1>1. RouterInv /\ [Next]_vars
         => [\A t \in Circuits : Judged(t) => \E r \in Requests \ cancelled : Judge(r, t)]_vars
  <2> SUFFICES ASSUME RouterInv, [Next]_vars, NEW t \in Circuits, Judged(t)
               PROVE  \E r \in Requests \ cancelled : Judge(r, t)
    OBVIOUS
  <2>0. CircuitTypeOK /\ target \in [Requests -> Circuits]
        /\ stage \in [Requests -> {"start", "calling", "returned", "caught", "done"}]
        /\ \A r \in Requests : stage[r] = "returned" /\ r \in cancelled => outcome[r] = "aborted"
    BY DEF RouterInv, TypeOK
  <2>1. ASSUME NEW r \in Requests, NEW u \in Circuits, Admits(r, u)
        PROVE  FALSE
    BY SMTT(20), <2>0, <2>1 DEF Admits, Admit, CircuitTypeOK, Judged
  <2>2. ASSUME NEW r \in Requests, Records(r)
        PROVE  Judge(r, t) /\ r \notin cancelled
    <3>1. target[r] \in Circuits /\ Record(target[r], admitted[r], outcome[r])
      BY <2>0, <2>2 DEF Records
    <3>2. t = target[r]
      BY SMTT(20), <2>0, <3>1, RecordStep DEF CircuitTypeOK, Judged
    <3>3. admitted[r] = generation[t] /\ outcome[r] \notin Ignored
      BY SMTT(20), <2>0, <3>1, <3>2
      DEF Record, Release, Open, circuitVars, CircuitTypeOK, Judged, Ignored
    <3> QED BY <2>0, <2>2, <3>2, <3>3 DEF Records, Counted, InFlight, Ignored
  <2>3. CASE Idles
    BY SMTT(20), <2>0, <2>3 DEF Idles, circuitVars, CircuitTypeOK, Judged
  <2> QED BY <2>1, <2>2, <2>3, StepKinds
<1>2. Spec => [][\A t \in Circuits :
                   Judged(t) => \E r \in Requests \ cancelled : Judge(r, t)]_vars
  BY <1>1, RouterInductive, PTL DEF Spec
<1> QED BY <1>2 DEF AbandonedCallsDoNotCount

(* An answer comes from one model: no fallback after a write attempt. *)
THEOREM OneModel == Spec => []OneModelPerAnswer
<1>1. RouterInv => OneModelPerAnswer
  BY DEF RouterInv, OneModelPerAnswer
<1> QED BY <1>1, RouterInductive, PTL
----------------------------------------------------------------------------
LEMMA Constants == /\ RequestTimeout[Primary] \in Nat /\ RequestTimeout[Fallback] \in Nat
                   /\ Delay \in Nat /\ Margin \in Nat /\ 2 * Delay <= Margin
                   /\ leaseMs \in Nat /\ Primary \in Circuits /\ Fallback \in Circuits
                   /\ leaseMs >= RequestTimeout[Primary] + RequestTimeout[Fallback] + 2 * Delay
  BY SMTT(20), TimesAssumption, TargetsAssumption DEF leaseMs

(* A job of which a step changes nothing keeps to its lease. *)
LEMMA Untouched ==
    ASSUME NEW k \in Jobs, phase'[k] = phase[k], due'[k] = due[k], target'[k] = target[k],
           job'[k] = job[k], now' = now, k \in Live => Fits(k)
    PROVE  k \in Live' => Fits(k)'
  BY DEF Live, Fits, Remaining

(* What the steps of the router do to the request of an attempt. *)
LEMMA RouterStep ==
    ASSUME AttemptTypeOK, NEW j \in Jobs, Begin(j) \/ Settle(j) \/ Catch(j)
    PROVE  /\ now' = now
           /\ stage' \in [Jobs -> {"start", "calling", "returned", "caught", "done"}]
           /\ target' \in [Jobs -> Circuits]
           /\ stage'[j] = "caught" => target'[j] = Primary
           /\ \A k \in Jobs \ {j} : stage'[k] = stage[k] /\ target'[k] = target[k]
           /\ stage'[j] = "calling" =>
                 \/ Begin(j) /\ target'[j] = Primary
                 \/ Catch(j) /\ target'[j] = Fallback
<1> USE Constants, TargetsAssumption DEF AttemptTypeOK, Jobs
<1>1. CASE Begin(j)
  BY <1>1 DEF Begin, Call, Set
<1>2. CASE Settle(j)
  BY <1>2 DEF Settle
<1>3. CASE Catch(j)
  BY <1>3 DEF Catch, Call, Set
<1> QED BY <1>1, <1>2, <1>3

LEMMA AttemptTypeStep ==
    ASSUME LeaseInv, [JobNext]_jobRetryVars
    PROVE  AttemptTypeOK'
<1>0. AttemptTypeOK
  BY DEF LeaseInv
<1> USE Constants DEF AttemptTypeOK
<1>1. CASE UNCHANGED jobRetryVars
  BY <1>0, <1>1 DEF jobRetryVars, jobVars, vars, requestVars
<1>2. ASSUME NEW j \in Jobs, claim(j) \/ maintain(j)
      PROVE  AttemptTypeOK'
  BY SMTT(20), <1>0, <1>2 DEF claim, maintain, Enter, vars, requestVars
<1>3. ASSUME NEW j \in Jobs, Process(j)
      PROVE  AttemptTypeOK'
  <2>1. /\ now' = now
        /\ stage' \in [Jobs -> {"start", "calling", "returned", "caught", "done"}]
        /\ target' \in [Jobs -> Circuits]
        /\ \A k \in Jobs : stage'[k] = "caught" => target'[k] = Primary
    BY <1>0, <1>3, RouterStep DEF Process
  <2>2. phase' \in [Jobs -> {"idle", "claimed", "routing", "persisting"}]
        /\ due' \in [Jobs -> Nat]
    <3>1. RequestTimeout[target'[j]] \in Nat
      BY <2>1, TimesAssumption
    <3> QED BY SMTT(20), <1>0, <1>3, <3>1 DEF Process, Enter
  <2> QED BY <1>0, <1>3, <2>1, <2>2 DEF Process
<1>4. ASSUME NEW j \in Jobs, ProviderReturns(j)
      PROVE  AttemptTypeOK'
  BY <1>0, <1>4 DEF ProviderReturns, Returns, Set, jobVars, Jobs
<1>5. ASSUME NEW j \in Jobs, Persist(j)
      PROVE  AttemptTypeOK'
  <2>1. DOMAIN job' = Jobs
        /\ \A k \in Jobs : DOMAIN job'[k] = {"status", "attempts", "availableAt", "leaseUntil"}
    BY <1>0, <1>5 DEF Persist, Failed
  <2> QED BY <1>0, <1>5, <2>1 DEF Persist, Renew
<1>6. CASE Crash
  BY <1>0, <1>6 DEF Crash, Renew
<1>7. CASE JobTick
  BY SMTT(20), <1>0, <1>7 DEF JobTick, Tick, jobVars, requestVars
<1> QED BY <1>1, <1>2, <1>3, <1>4, <1>5, <1>6, <1>7 DEF JobNext, Attempt

(* An attempt's waits, one after the other, keep to its lease. *)
LEMMA ProcessFits ==
    ASSUME LeaseInv, NEW j \in Jobs, Process(j)
    PROVE  Fits(j)'
<1>0. AttemptTypeOK /\ Fits(j) /\ j \in Live
  BY DEF LeaseInv, Process, Live
<1> USE Constants, TargetsAssumption
<1>1. job' = job /\ now' = now /\ (Begin(j) \/ Settle(j) \/ Catch(j))
  BY <1>0, RouterStep DEF Process
<1>2. CASE stage'[j] = "calling"
  <2>1. phase'[j] = "routing" /\ due'[j] = now + RequestTimeout[target'[j]]
    BY <1>0, <1>2 DEF Process, Enter, AttemptTypeOK
  <2>2. \/ phase[j] = "claimed" /\ target'[j] = Primary
        \/ phase[j] = "routing" /\ target[j] = Primary /\ target'[j] = Fallback
    <3>1. stage[j] = "caught" => target[j] = Primary
      BY <1>0 DEF AttemptTypeOK
    <3>2. Begin(j) => stage[j] = "start"
      BY DEF Begin
    <3>3. Catch(j) => stage[j] = "caught"
      BY DEF Catch
    <3>4. \/ phase[j] = "claimed" /\ Begin(j)
          \/ phase[j] = "routing" /\ (Settle(j) \/ Catch(j))
      BY DEF Process
    <3>5. Settle(j) => stage[j] = "returned"
      BY DEF Settle
    <3> QED BY <1>0, <1>1, <1>2, <3>1, <3>2, <3>3, <3>4, <3>5, RouterStep
  <2> QED BY SMTT(20), <1>0, <1>1, <2>1, <2>2 DEF Fits, Remaining, AttemptTypeOK
<1>3. CASE stage'[j] = "caught"
  <2>1. phase'[j] = "routing" /\ due'[j] = now + 0
    BY <1>0, <1>3 DEF Process, Enter, AttemptTypeOK
  <2>2. target'[j] = Primary
    BY <1>0, <1>1, <1>3, RouterStep
  <2>3. phase[j] = "claimed" \/ (phase[j] = "routing" /\ target[j] = Primary)
    <3>1. CASE Settle(j)
      BY <1>0, <2>2, <3>1 DEF Settle, Process
    <3>2. CASE Catch(j)
      BY <1>0, <3>2 DEF Catch, Process, AttemptTypeOK
    <3>3. CASE Begin(j)
      <4>1. stage[j] = "start"
        BY <3>3 DEF Begin
      <4> QED BY <4>1 DEF Process, Settle, Catch
    <3> QED BY <1>1, <3>1, <3>2, <3>3
  <2> QED BY SMTT(20), <1>0, <1>1, <2>1, <2>2, <2>3 DEF Fits, Remaining, AttemptTypeOK
<1>4. CASE stage'[j] = "done"
  <2>1. phase'[j] = "persisting" /\ due'[j] = now + Delay
    BY <1>0, <1>4 DEF Process, Enter, AttemptTypeOK
  <2>2. phase[j] \in {"claimed", "routing"}
    BY DEF Process
  <2> QED BY SMTT(20), <1>0, <1>1, <2>1, <2>2 DEF Fits, Remaining, AttemptTypeOK
<1> QED BY <1>2, <1>3, <1>4 DEF Process

LEMMA FitsStep ==
    ASSUME LeaseInv, [JobNext]_jobRetryVars
    PROVE  \A k \in Live' : Fits(k)'
<1>0. AttemptTypeOK /\ \A k \in Live : Fits(k)
  BY DEF LeaseInv
<1> SUFFICES ASSUME NEW k \in Jobs
             PROVE  k \in Live' => Fits(k)'
  BY DEF Live
<1> USE Constants
<1>1. CASE UNCHANGED jobRetryVars
  BY <1>0, <1>1, Untouched DEF jobRetryVars, jobVars, vars, requestVars
<1>2. ASSUME NEW j \in Jobs, claim(j)
      PROVE  k \in Live' => Fits(k)'
  <2>1. CASE k # j
    BY <1>0, <1>2, <2>1, Untouched DEF claim, Enter, vars, requestVars, AttemptTypeOK
  <2>2. CASE k = j
    <3>1. /\ phase'[j] = "claimed" /\ due'[j] = now + Delay /\ now' = now
          /\ job'[j].status = "active" /\ job'[j].leaseUntil = now + leaseMs
      BY <1>0, <1>2 DEF claim, Enter, vars, AttemptTypeOK
    <3> QED BY SMTT(20), <1>0, <2>2, <3>1 DEF Fits, Remaining, AttemptTypeOK
  <2> QED BY <2>1, <2>2
<1>3. ASSUME NEW j \in Jobs, maintain(j)
      PROVE  k \in Live' => Fits(k)'
  <2>1. CASE k # j
    BY <1>0, <1>3, <2>1, Untouched DEF maintain, vars, requestVars, AttemptTypeOK
  <2>2. j \notin Live
    <3>1. SUFFICES ASSUME j \in Live PROVE FALSE
      OBVIOUS
    <3>2. now <= due[j] /\ due[j] + Remaining(j) <= job[j].leaseUntil
          /\ job[j].leaseUntil \in Nat /\ Remaining(j) \in Nat
      BY SMTT(20), <1>0, <3>1 DEF Fits, Remaining
    <3> QED BY SMTT(20), <1>0, <1>3, <3>2 DEF maintain, AttemptTypeOK
  <2>3. Live' = Live
    BY <1>3 DEF maintain, Live
  <2> QED BY <2>1, <2>2, <2>3
<1>4. ASSUME NEW j \in Jobs, Process(j)
      PROVE  k \in Live' => Fits(k)'
  <2>1. CASE k # j
    <3>1. target'[k] = target[k] /\ now' = now
      BY <1>0, <1>4, <2>1, RouterStep DEF Process
    <3> QED BY <1>0, <1>4, <2>1, <3>1, Untouched DEF Process, Enter, AttemptTypeOK
  <2> QED BY <1>4, <2>1, ProcessFits
<1>5. ASSUME NEW j \in Jobs, ProviderReturns(j)
      PROVE  k \in Live' => Fits(k)'
  BY <1>0, <1>5, Untouched DEF ProviderReturns, Returns, jobVars
<1>6. ASSUME NEW j \in Jobs, Persist(j)
      PROVE  k \in Live' => Fits(k)'
  <2>1. CASE k # j
    BY <1>0, <1>6, <2>1, Untouched DEF Persist, Renew, AttemptTypeOK
  <2>2. CASE k = j
    BY <1>6, <2>2 DEF Persist, Renew, Live
  <2> QED BY <2>1, <2>2
<1>7. CASE Crash
  BY <1>7 DEF Crash, Renew, Live
<1>8. CASE JobTick
  BY SMTT(20), <1>0, <1>8
  DEF JobTick, Tick, jobVars, requestVars, Live, Fits, Remaining, AttemptTypeOK
<1> QED BY <1>1, <1>2, <1>3, <1>4, <1>5, <1>6, <1>7, <1>8 DEF JobNext, Attempt

(* The inductive invariant of the leases. *)
THEOREM LeaseInductive == JobSpec => []LeaseInv
<1>1. JobInit => LeaseInv
  BY SMTT(20), TargetsAssumption DEF JobInit, Init, CircuitInit, LeaseInv, AttemptTypeOK, Live, Jobs
<1>2. LeaseInv /\ [JobNext]_jobRetryVars => LeaseInv'
  <2> SUFFICES ASSUME LeaseInv, [JobNext]_jobRetryVars PROVE LeaseInv'
    OBVIOUS
  <2>1. AttemptTypeOK' /\ \A k \in Live' : Fits(k)'
    BY AttemptTypeStep, FitsStep
  <2> QED BY <2>1 DEF LeaseInv
<1> QED BY <1>1, <1>2, PTL DEF JobSpec

(* A lease of both timeouts and a margin of two round trips outlasts every *)
(* attempt: maintain never gives away a job that is being worked on        *)
(* (leaseMs, maintain).                                                    *)
THEOREM LeasesOutlastAttempts == JobSpec => []LeaseOutlastsAttempt
<1>1. LeaseInv => LeaseOutlastsAttempt
  BY DEF LeaseInv, Fits, LeaseOutlastsAttempt
<1> QED BY <1>1, LeaseInductive, PTL

----------------------------------------------------------------------------
(* What a step may do to the circuits: an opening is never seen again, and *)
(* as long as it lasts its cooldown does not start over.                   *)
Ages == \A t \in Circuits :
           /\ generation'[t] \in Nat /\ generation[t] <= generation'[t]
           /\ state'[t] = "open" =>
                 \/ generation[t] < generation'[t]
                 \/ state[t] = "open" /\ openedAt'[t] = openedAt[t]

LEMMA AdmitAges ==
    ASSUME CircuitTypeOK, NEW t \in Circuits, Admit(t), now' = now
    PROVE  CircuitTypeOK' /\ Ages
  BY SMTT(20) DEF Admit, CircuitTypeOK, Ages

LEMMA RecordAges ==
    ASSUME CircuitTypeOK, NEW t \in Circuits, NEW g, NEW o, Record(t, g, o), now' = now
    PROVE  CircuitTypeOK' /\ Ages
<1>1. CircuitTypeOK'
  BY RecordStep
<1>2. \A u \in Circuits \ {t} : /\ state'[u] = state[u] /\ openedAt'[u] = openedAt[u]
                              /\ generation'[u] = generation[u]
  BY RecordStep
<1>3. /\ generation[t] <= generation'[t]
      /\ state'[t] = "open" => \/ generation[t] < generation'[t]
                               \/ state[t] = "open" /\ openedAt'[t] = openedAt[t]
  <2> USE DEF CircuitTypeOK, Open
  <2>1. CASE UNCHANGED circuitVars
    BY SMTT(20), <2>1 DEF circuitVars
  <2>2. CASE recordHealthy(t)
    BY SMTT(20), <2>2 DEF recordHealthy
  <2>3. CASE recordFailure(t)
    <3>1. CASE Open(t, now)
      BY SMTT(20), <3>1
    <3>2. CASE UNCHANGED <<state, openedAt, generation>>
      BY SMTT(20), <3>2
    <3> QED BY <2>3, <3>1, <3>2 DEF recordFailure
  <2>4. CASE Release(t)
    <3>1. CASE Open(t, now - ResetTimeout)
      BY SMTT(20), <3>1
    <3> QED BY <2>1, <2>4, <3>1 DEF Release
  <2> QED BY <2>1, <2>2, <2>3, <2>4 DEF Record
<1> QED BY SMTT(20), <1>1, <1>2, <1>3 DEF Ages, CircuitTypeOK

LEMMA IdleAges ==
    ASSUME CircuitTypeOK, UNCHANGED circuitVars, now' \in Nat
    PROVE  CircuitTypeOK' /\ Ages
  BY SMTT(20) DEF circuitVars, CircuitTypeOK, Ages

LEMMA CircuitsAge ==
    ASSUME CircuitTypeOK, AttemptTypeOK, [JobNext]_jobRetryVars, ~Crash
    PROVE  CircuitTypeOK' /\ Ages /\ now <= now' /\ now' \in Nat
<1>0. now \in Nat
  BY DEF AttemptTypeOK
<1>1. CASE UNCHANGED jobRetryVars
  BY SMTT(20), <1>0, <1>1, IdleAges DEF jobRetryVars, vars
<1>2. CASE JobTick
  BY SMTT(20), <1>0, <1>2, IdleAges DEF JobTick, Tick
<1>3. ASSUME NEW j \in Jobs, claim(j) \/ maintain(j)
      PROVE  CircuitTypeOK' /\ Ages /\ now' = now
  BY <1>0, <1>3, IdleAges DEF claim, maintain, vars
<1>4. ASSUME NEW j \in Jobs, ProviderReturns(j) \/ Persist(j)
      PROVE  CircuitTypeOK' /\ Ages /\ now' = now
  BY <1>0, <1>4, IdleAges DEF ProviderReturns, Returns, Persist
<1>5. ASSUME NEW j \in Jobs, Process(j)
      PROVE  CircuitTypeOK' /\ Ages /\ now' = now
  <2>0. now' = now /\ (Begin(j) \/ Settle(j) \/ Catch(j))
    BY <1>5, RouterStep DEF Process
  <2>1. \/ UNCHANGED circuitVars
        \/ Admit(Primary) \/ Admit(Fallback)
        \/ Record(target[j], admitted[j], outcome[j])
    BY <2>0 DEF Begin, Settle, Catch, Call
  <2>2. target[j] \in Circuits /\ Primary \in Circuits /\ Fallback \in Circuits
    BY Constants DEF AttemptTypeOK
  <2> QED BY <1>0, <2>0, <2>1, <2>2, AdmitAges, RecordAges, IdleAges
<1> QED BY SMTT(20), <1>0, <1>1, <1>2, <1>3, <1>4, <1>5 DEF JobNext, Attempt

(* Past and Over after a step, of an opening recorded before it. *)
PastNext(o) == o # <<>> => o[2] <= generation'[o[1]]
OverNext(o, x) == \A t \in Circuits : state'[t] = "open" /\ o = <<t, generation'[t]>>
                                          => openedAt'[t] + ResetTimeout <= x
Openings == {<<>>} \cup (Circuits \X Nat)
Rejections == [opening : Openings, retryAfter : Nat]

LEMMA PastStays ==
    ASSUME CircuitTypeOK, Ages, NEW o \in Openings, Past(o)
    PROVE  PastNext(o)
  BY SMTT(20) DEF Past, PastNext, Ages, CircuitTypeOK, Openings

(* Once over, an opening stays over. *)
LEMMA OverStays ==
    ASSUME CircuitTypeOK, Ages, NEW o \in Openings, Past(o),
           NEW x \in Nat, NEW y \in Nat, x <= y, Over(o, x)
    PROVE  OverNext(o, y)
<1>1. ASSUME NEW t \in Circuits, state'[t] = "open", o = <<t, generation'[t]>>
      PROVE  openedAt'[t] + ResetTimeout <= y
  <2>1. generation'[t] <= generation[t]
    BY <1>1 DEF Past
  <2>2. generation'[t] = generation[t] /\ state[t] = "open" /\ openedAt'[t] = openedAt[t]
    BY SMTT(20), <1>1, <2>1 DEF Ages, CircuitTypeOK
  <2> QED BY SMTT(20), <1>1, <2>2, OptionsAssumption DEF Over, CircuitTypeOK
<1> QED BY <1>1 DEF OverNext

LEMMA OverLater ==
    ASSUME CircuitTypeOK, NEW o, NEW x \in Nat, NEW y \in Nat, x <= y, Over(o, x)
    PROVE  Over(o, y)
<1>1. ASSUME NEW t \in Circuits, state[t] = "open", o = <<t, generation[t]>>
      PROVE  openedAt[t] + ResetTimeout <= y
  BY SMTT(20), <1>1, OptionsAssumption DEF Over, CircuitTypeOK
<1> QED BY <1>1 DEF Over

LEMMA Sums ==
    ASSUME NEW x \in Nat, NEW y \in Nat, NEW z \in Nat, y <= z
    PROVE  x + y \in Nat /\ x + z \in Nat /\ x + y <= x + z
  BY SMTT(20)

LEMMA SameTime == \A x \in Nat : x <= x
  BY SMTT(20)

LEMMA Nowhere == /\ NotRejected \in Rejections /\ NotRejected.opening = <<>>
                 /\ \A t, g : <<>> # <<t, g>>
  BY SMTT(20) DEF NotRejected, Rejections, Openings

(* The delay of a retry is that of the circuit or longer. *)
LEMMA RetryDelayBounds ==
    ASSUME NEW j \in Jobs, job[j].attempts \in Nat \ {0}, rejection[j].retryAfter \in Nat
    PROVE  RetryDelay(j) \in Nat /\ RetryDelay(j) >= rejection[j].retryAfter
<1> DEFINE n == job[j].attempts
           k == IF n - 1 <= 30 THEN n - 1 ELSE 30
<1>1. 2^k \in Nat
  <2>1. k \in 0..30
    BY SMTT(20)
  <2> QED BY <2>1, PowersAssumption
<1> HIDE DEF k
<1>2. Doubled(n) = Backoff * 2^k
  BY DEF Doubled, k
<1>3. Doubled(n) \in Nat
  BY SMTT(20), <1>1, <1>2, TimesAssumption
<1>4. Capped(n) \in Nat
  BY <1>3, TimesAssumption DEF Capped
<1> QED BY SMTT(20), <1>4 DEF RetryDelay

(* A job that a step leaves alone. *)
LEMMA LeftAlone ==
    ASSUME CooldownInv, CircuitTypeOK', Ages, now <= now', now' \in Nat, NEW k \in Jobs,
           job'[k] = job[k], rejection'[k] = rejection[k], skipped'[k] = skipped[k],
           k \in Live' <=> k \in Live
    PROVE  WaitsOut(k)'
<1>0. /\ WaitsOut(k) /\ CircuitTypeOK /\ now \in Nat
      /\ rejection[k].opening \in Openings /\ rejection[k].retryAfter \in Nat
      /\ skipped[k] \in Openings
  BY DEF CooldownInv, LeaseInv, AttemptTypeOK, Openings
<1>1. PastNext(rejection[k].opening) /\ PastNext(skipped[k])
  BY <1>0, PastStays DEF WaitsOut
<1>2. OverNext(rejection[k].opening, now' + rejection[k].retryAfter)
  <2>1. /\ now + rejection[k].retryAfter \in Nat /\ now' + rejection[k].retryAfter \in Nat
        /\ now + rejection[k].retryAfter <= now' + rejection[k].retryAfter
    BY SMTT(20), <1>0
  <2> QED BY <1>0, <2>1, OverStays DEF WaitsOut
<1>3. k \in Live => OverNext(skipped[k], now')
  BY <1>0, OverStays DEF WaitsOut
<1>4. job[k].status \in {"queued", "retrying"} => OverNext(skipped[k], job[k].availableAt)
  <2>1. job[k].availableAt \in Nat /\ job[k].availableAt <= job[k].availableAt
    BY SMTT(20), <1>0 DEF WaitsOut
  <2> QED BY <1>0, <2>1, OverStays DEF WaitsOut
<1>5. /\ Past(rejection[k].opening)' /\ Past(skipped[k])'
      /\ Over(rejection[k].opening, now + rejection[k].retryAfter)'
      /\ k \in Live => Over(skipped[k], now)'
      /\ job[k].status \in {"queued", "retrying"} => Over(skipped[k], job[k].availableAt)'
  BY <1>1, <1>2, <1>3, <1>4 DEF Past, Over, PastNext, OverNext
<1> QED BY <1>0, <1>5 DEF WaitsOut

(* What a step of the router tells an attempt: when it is rejected anew,   *)
(* the circuit that rejects it is as it was and not admissible.            *)
LEMMA RejectionStep ==
    ASSUME CooldownInv, NEW j \in Jobs, Process(j)
    PROVE  \/ rejection'[j] = NotRejected
           \/ rejection'[j] = rejection[j]
           \/ /\ rejection'[j] = RejectedBy(target'[j]) /\ target'[j] \in Circuits
              /\ ~Admissible(target'[j]) /\ UNCHANGED circuitVars /\ now' = now
<1>0. /\ AttemptTypeOK /\ outcome \in [Jobs -> Outcomes]
      /\ DOMAIN rejection = Jobs
  BY DEF CooldownInv, LeaseInv
<1>1. Begin(j) \/ Settle(j) \/ Catch(j)
  BY DEF Process
<1>2. SUFFICES ASSUME outcome'[j] = "circuit_open", <<outcome, target>>' # <<outcome, target>>
               PROVE  /\ target'[j] \in Circuits /\ ~Admissible(target'[j])
                      /\ UNCHANGED circuitVars /\ now' = now
  BY SMTT(20), <1>0 DEF Process
<1> USE Constants DEF AttemptTypeOK, Jobs
<1>3. CASE Begin(j)
  BY <1>0, <1>2, <1>3 DEF Begin, Call, Set
<1>4. CASE Settle(j)
  BY <1>2, <1>4 DEF Settle
<1>5. CASE Catch(j)
  <2>1. CASE Set(j, "done", outcome[j]) /\ UNCHANGED target
    BY <1>0, <1>2, <2>1 DEF Set
  <2>2. CASE Set(j, "done", "aborted")
    BY <1>0, <1>2, <2>2 DEF Set
  <2>3. CASE Call(j, Fallback, "done")
    BY <1>0, <1>2, <1>5, <2>3 DEF Catch, Call, Set
  <2> QED BY <1>5, <2>1, <2>2, <2>3 DEF Catch
<1> QED BY <1>1, <1>3, <1>4, <1>5

(* A circuit that rejects a call while open says how long it stays so. *)
LEMMA RejectedByStep ==
    ASSUME CircuitTypeOK, NEW t \in Circuits, ~Admissible(t)
    PROVE  /\ RejectedBy(t) \in Rejections
           /\ Past(RejectedBy(t).opening)
           /\ Over(RejectedBy(t).opening, now + RejectedBy(t).retryAfter)
           /\ RejectedBy(t).opening # <<>> => ~Over(RejectedBy(t).opening, now)
<1> USE OptionsAssumption DEF CircuitTypeOK
<1>1. RetryAfter(t) \in Nat
  BY SMTT(20) DEF RetryAfter
<1>2. CASE state[t] = "open"
  <2>1. RetryAfter(t) = ResetTimeout - (now - openedAt[t]) /\ RetryAfter(t) > 0
    BY <1>1, <1>2 DEF RetryAfter, Admissible
  <2>2. RejectedBy(t) = [opening |-> <<t, generation[t]>>, retryAfter |-> RetryAfter(t)]
    BY <1>2 DEF RejectedBy
  <2>3. generation[t] \in Nat
    OBVIOUS
  <2> QED BY SMTT(20), <1>1, <1>2, <2>1, <2>2, <2>3 DEF Rejections, Openings, Past, Over
<1>3. CASE state[t] # "open"
  <2>1. RejectedBy(t) = [opening |-> <<>>, retryAfter |-> RetryAfter(t)]
    BY <1>3 DEF RejectedBy
  <2> QED BY SMTT(20), <1>1, <2>1 DEF Rejections, Openings, Past, Over
<1> QED BY <1>2, <1>3

(* The steps that touch the job itself. *)
LEMMA ClaimWaits ==
    ASSUME CooldownInv, NEW j \in Jobs, claim(j)
    PROVE  WaitsOut(j)'
<1>0. LeaseInv /\ AttemptTypeOK /\ WaitsOut(j)
  BY DEF CooldownInv, LeaseInv
<1>1. /\ job'[j].status = "active" /\ job'[j].attempts = job[j].attempts + 1
      /\ job'[j].availableAt = job[j].availableAt /\ j \in Live'
      /\ UNCHANGED <<state, generation, openedAt, now, rejection, skipped>>
  BY <1>0 DEF claim, Enter, AttemptTypeOK, Live, vars, circuitVars
<1>2. Over(skipped[j], job[j].availableAt) /\ job[j].availableAt <= now
  BY <1>0 DEF claim, WaitsOut
<1>3. Over(skipped[j], now)
  <2>1. job[j].availableAt \in Nat /\ now \in Nat /\ CircuitTypeOK
    BY <1>0 DEF CooldownInv, WaitsOut, AttemptTypeOK
  <2> QED BY <1>2, <2>1, OverLater
<1>4. /\ Past(rejection[j].opening)' /\ Past(skipped[j])'
      /\ Over(rejection[j].opening, now + rejection[j].retryAfter)'
      /\ Over(skipped[j], now)'
  BY <1>0, <1>1, <1>3 DEF WaitsOut, Past, Over
<1>5. job'[j].attempts \in Nat /\ job'[j].attempts > 0
  <2>1. job[j].attempts \in Nat
    BY <1>0 DEF WaitsOut
  <2> QED BY SMTT(20), <1>1, <2>1
<1> QED BY <1>0, <1>1, <1>4, <1>5 DEF WaitsOut

LEMMA MaintainWaits ==
    ASSUME CooldownInv, NEW j \in Jobs, maintain(j)
    PROVE  WaitsOut(j)'
<1>0. LeaseInv /\ AttemptTypeOK /\ WaitsOut(j)
  BY DEF CooldownInv, LeaseInv
<1>1. j \notin Live
  <2> SUFFICES ASSUME j \in Live PROVE FALSE
    OBVIOUS
  <2>1. now <= due[j] /\ due[j] + Remaining(j) <= job[j].leaseUntil
        /\ job[j].leaseUntil \in Nat /\ Remaining(j) \in Nat
    BY SMTT(20), <1>0, Constants DEF LeaseInv, Fits, Remaining
  <2> QED BY SMTT(20), <1>0, <2>1 DEF maintain, AttemptTypeOK
<1>2. skipped[j] = <<>>
  BY <1>0, <1>1 DEF maintain, WaitsOut
<1>3. /\ job'[j].status \in {"queued", "failed"} /\ job'[j].attempts = job[j].attempts
      /\ job'[j].availableAt = now /\ j \notin Live'
      /\ UNCHANGED <<state, generation, openedAt, now, rejection, skipped>>
  BY <1>0, <1>1 DEF maintain, AttemptTypeOK, Live, vars, circuitVars
<1>4. /\ Past(rejection[j].opening)'
      /\ Over(rejection[j].opening, now + rejection[j].retryAfter)'
  BY <1>0, <1>3 DEF WaitsOut, Past, Over
<1>5. skipped'[j] = <<>>
  BY <1>2, <1>3
<1>6. Past(skipped[j])' /\ Over(skipped[j], job[j].availableAt)'
  BY <1>5, Nowhere DEF Past, Over
<1> QED BY <1>0, <1>3, <1>4, <1>5, <1>6 DEF WaitsOut, AttemptTypeOK

LEMMA ProcessWaits ==
    ASSUME CooldownInv, CircuitTypeOK', Ages, now' = now, NEW j \in Jobs, Process(j)
    PROVE  WaitsOut(j)' /\ rejection'[j] \in Rejections
<1>0. /\ LeaseInv /\ AttemptTypeOK /\ WaitsOut(j) /\ CircuitTypeOK
      /\ now \in Nat /\ skipped[j] \in Openings /\ rejection[j] \in Rejections
  BY DEF CooldownInv, LeaseInv, Openings, Rejections, AttemptTypeOK
<1>1. j \in Live /\ j \in Live' /\ job' = job /\ skipped' = skipped
  BY <1>0 DEF Process, Enter, Live, AttemptTypeOK
<1>2. CASE rejection'[j] = rejection[j]
  BY <1>0, <1>1, <1>2, LeftAlone, SameTime
<1>a. PastNext(skipped[j]) /\ OverNext(skipped[j], now)
  <2>1. Past(skipped[j]) /\ Over(skipped[j], now) /\ now <= now
    BY <1>0, <1>1, SameTime DEF WaitsOut
  <2> QED BY <1>0, <2>1, PastStays, OverStays
<1>b. Past(skipped[j])' /\ Over(skipped[j], now)'
  BY <1>1, <1>a DEF Past, Over, PastNext, OverNext
<1>c. job[j].status = "active"
  BY <1>0, <1>1 DEF LeaseInv, Fits
<1>3. CASE rejection'[j] = NotRejected
  <2>1. /\ rejection'[j] \in Rejections /\ rejection'[j].opening = <<>>
    BY <1>3, Nowhere
  <2>2. /\ Past(rejection[j].opening)'
        /\ Over(rejection[j].opening, now + rejection[j].retryAfter)'
    BY <2>1, Nowhere DEF Past, Over
  <2> QED BY <1>0, <1>1, <1>b, <1>c, <2>1, <2>2 DEF WaitsOut
<1>4. CASE /\ rejection'[j] = RejectedBy(target'[j]) /\ target'[j] \in Circuits
           /\ ~Admissible(target'[j]) /\ UNCHANGED circuitVars
  <2> DEFINE R == RejectedBy(target'[j])
  <2>1. /\ R \in Rejections /\ Past(R.opening)
        /\ Over(R.opening, now + R.retryAfter)
        /\ R.opening # <<>> => ~Over(R.opening, now)
    BY <1>0, <1>4, RejectedByStep
  <2>2. rejection'[j] = R
    BY <1>4
  <2> HIDE DEF R
  <2>3. R.opening # <<>> => R.opening # skipped[j]
    BY <1>0, <1>1, <2>1 DEF WaitsOut
  <2>4. /\ Past(rejection[j].opening)'
        /\ Over(rejection[j].opening, now + rejection[j].retryAfter)'
    BY <1>4, <2>1, <2>2 DEF Past, Over, circuitVars
  <2> QED BY <1>0, <1>1, <1>b, <1>c, <2>1, <2>2, <2>3, <2>4 DEF WaitsOut
<1> QED BY <1>0, <1>2, <1>3, <1>4, RejectionStep

LEMMA PersistWaits ==
    ASSUME CooldownInv, NEW j \in Jobs, Persist(j)
    PROVE  WaitsOut(j)' /\ skipped'[j] \in Openings
<1>0. /\ LeaseInv /\ AttemptTypeOK /\ WaitsOut(j) /\ CircuitTypeOK /\ now \in Nat
      /\ rejection[j].opening \in Openings /\ rejection[j].retryAfter \in Nat
      /\ DOMAIN skipped = Jobs
  BY DEF CooldownInv, LeaseInv, Openings, AttemptTypeOK
<1>1. j \in Live /\ job[j].status = "active" /\ job[j].attempts \in Nat \ {0}
  BY SMTT(20), <1>0 DEF Persist, Live, LeaseInv, Fits, WaitsOut
<1>2. /\ skipped'[j] = rejection[j].opening /\ rejection'[j] = NotRejected
      /\ j \notin Live' /\ UNCHANGED <<state, generation, openedAt, now>>
  BY <1>0 DEF Persist, Renew, Live, circuitVars
<1>3. RetryDelay(j) \in Nat /\ RetryDelay(j) >= rejection[j].retryAfter
  BY <1>0, <1>1, RetryDelayBounds
<1>4. /\ job'[j].attempts = job[j].attempts /\ job'[j].status # "active"
      /\ \/ job'[j].status = "completed" /\ job'[j].availableAt = job[j].availableAt
         \/ job'[j].availableAt = now + RetryDelay(j)
  <2>1. CASE outcome[j] = "ok"
    BY <1>0, <1>1, <2>1 DEF Persist, AttemptTypeOK
  <2>2. CASE outcome[j] # "ok"
    <3>1. job'[j] = Failed(j, job[j])
      BY <1>0, <1>1, <2>2 DEF Persist, AttemptTypeOK
    <3> QED BY <1>0, <3>1 DEF Failed, AttemptTypeOK
  <2> QED BY <2>1, <2>2
<1>a. rejection'[j].opening = <<>>
  BY <1>2, Nowhere
<1>5. Past(skipped[j])' /\ Past(rejection[j].opening)'
  BY <1>0, <1>2, <1>a DEF WaitsOut, Past
<1>6. Over(rejection[j].opening, now + rejection[j].retryAfter)'
  BY <1>a, Nowhere DEF Over
<1>b. /\ now + rejection[j].retryAfter \in Nat /\ now + RetryDelay(j) \in Nat
      /\ now + rejection[j].retryAfter <= now + RetryDelay(j)
  <2>1. rejection[j].retryAfter <= RetryDelay(j)
    BY SMTT(20), <1>3
  <2> QED BY <1>0, <1>3, <2>1, Sums
<1>7. Over(rejection[j].opening, now + RetryDelay(j))
  BY <1>0, <1>b, OverLater DEF WaitsOut
<1>8. job'[j].status # "completed" => Over(skipped[j], job[j].availableAt)'
  BY <1>2, <1>4, <1>7 DEF Over
<1>9. job'[j].availableAt \in Nat /\ job'[j].attempts \in Nat
  BY <1>0, <1>1, <1>4, <1>b DEF WaitsOut
<1> QED BY <1>0, <1>2, <1>4, <1>5, <1>6, <1>8, <1>9, <1>a DEF WaitsOut

LEMMA CooldownStep ==
    ASSUME CooldownInv, [JobNext]_jobRetryVars, ~Crash
    PROVE  CooldownInv'
<1>0. /\ LeaseInv /\ AttemptTypeOK /\ CircuitTypeOK
      /\ outcome \in [Jobs -> Outcomes]
      /\ rejection \in [Jobs -> Rejections] /\ skipped \in [Jobs -> Openings]
  BY DEF CooldownInv, LeaseInv, Rejections, Openings
<1>1. CircuitTypeOK' /\ Ages /\ now <= now' /\ now' \in Nat
  BY <1>0, CircuitsAge
<1>2. LeaseInv'
  BY <1>0, AttemptTypeStep, FitsStep DEF LeaseInv
<1> DEFINE Rest == /\ outcome' \in [Jobs -> Outcomes]
                   /\ rejection' \in [Jobs -> Rejections] /\ skipped' \in [Jobs -> Openings]
                   /\ \A k \in Jobs : WaitsOut(k)'
<1>3. ASSUME UNCHANGED jobRetryVars \/ JobTick
      PROVE  Rest
  <2>1. UNCHANGED <<job, rejection, skipped, outcome, phase>>
    BY <1>3 DEF jobRetryVars, jobVars, vars, requestVars, JobTick, Tick
  <2>2. \A k \in Jobs : k \in Live' <=> k \in Live
    BY <2>1 DEF Live
  <2>3. ASSUME NEW k \in Jobs PROVE WaitsOut(k)'
    BY <1>1, <2>1, <2>2, LeftAlone
  <2> QED BY <1>0, <2>1, <2>3
<1>4. ASSUME NEW j \in Jobs, claim(j) \/ maintain(j)
      PROVE  Rest
  <2>1. UNCHANGED <<rejection, skipped, outcome>>
    BY <1>4 DEF claim, maintain, vars, requestVars
  <2>2. ASSUME NEW k \in Jobs, k # j
        PROVE  job'[k] = job[k] /\ (k \in Live' <=> k \in Live)
    BY <1>0, <1>4, <2>2 DEF claim, maintain, Enter, Live, AttemptTypeOK
  <2>3. ASSUME NEW k \in Jobs PROVE WaitsOut(k)'
    BY <1>1, <1>4, <2>1, <2>2, LeftAlone, ClaimWaits, MaintainWaits
  <2> QED BY <1>0, <2>1, <2>3
<1>5. ASSUME NEW j \in Jobs, Process(j)
      PROVE  Rest
  <2>1. now' = now
    BY <1>0, <1>5, RouterStep DEF Process
  <2>2. ASSUME NEW k \in Jobs, k # j
        PROVE  /\ job'[k] = job[k] /\ rejection'[k] = rejection[k] /\ skipped'[k] = skipped[k]
               /\ k \in Live' <=> k \in Live
    BY <1>0, <1>5, <2>2 DEF Process, Enter, Live, AttemptTypeOK
  <2>3. ASSUME NEW k \in Jobs PROVE WaitsOut(k)'
    BY <1>1, <1>5, <2>1, <2>2, LeftAlone, ProcessWaits
  <2>4. outcome' \in [Jobs -> Outcomes]
    BY <1>0, <1>5 DEF Process, Begin, Settle, Catch, Call, Set, Outcomes, Jobs
  <2>5. rejection' \in [Jobs -> Rejections]
    <3>1. rejection'[j] \in Rejections
      BY <1>1, <1>5, <2>1, ProcessWaits
    <3>2. \E v : rejection' = [rejection EXCEPT ![j] = v]
      BY <1>5 DEF Process
    <3> QED BY <1>0, <3>1, <3>2
  <2> QED BY <1>0, <1>5, <2>3, <2>4, <2>5 DEF Process
<1>6. ASSUME NEW j \in Jobs, ProviderReturns(j)
      PROVE  Rest
  <2>1. UNCHANGED <<job, rejection, skipped, phase>>
    BY <1>6 DEF ProviderReturns, jobVars
  <2>2. \A k \in Jobs : k \in Live' <=> k \in Live
    BY <2>1 DEF Live
  <2>3. ASSUME NEW k \in Jobs PROVE WaitsOut(k)'
    BY <1>1, <2>1, <2>2, LeftAlone
  <2>4. outcome' \in [Jobs -> Outcomes]
    BY <1>0, <1>6 DEF ProviderReturns, Returns, Set, Outcomes, Jobs
  <2> QED BY <1>0, <2>1, <2>3, <2>4
<1>7. ASSUME NEW j \in Jobs, Persist(j)
      PROVE  Rest
  <2>1. ASSUME NEW k \in Jobs, k # j
        PROVE  /\ job'[k] = job[k] /\ rejection'[k] = rejection[k] /\ skipped'[k] = skipped[k]
               /\ k \in Live' <=> k \in Live
    BY <1>0, <1>7, <2>1 DEF Persist, Renew, Live, AttemptTypeOK
  <2>2. ASSUME NEW k \in Jobs PROVE WaitsOut(k)'
    BY <1>1, <1>7, <2>1, LeftAlone, PersistWaits
  <2>3. outcome' \in [Jobs -> Outcomes] /\ rejection' \in [Jobs -> Rejections]
    BY <1>0, <1>7 DEF Persist, Renew, NotRejected, Outcomes, Rejections, Openings
  <2>4. skipped' \in [Jobs -> Openings]
    BY <1>0, <1>7, PersistWaits DEF Persist
  <2> QED BY <2>2, <2>3, <2>4
<1>8. Rest
  BY <1>3, <1>4, <1>5, <1>6, <1>7 DEF JobNext, Attempt
<1> QED BY <1>1, <1>2, <1>8 DEF CooldownInv, Rejections, Openings

LEMMA CooldownCrash ==
    ASSUME CooldownInv, Crash
    PROVE  CooldownInv'
<1>0. LeaseInv /\ AttemptTypeOK /\ CircuitTypeOK /\ \A k \in Jobs : WaitsOut(k)
  BY DEF CooldownInv, LeaseInv
<1>1. LeaseInv'
  BY <1>0, AttemptTypeStep, FitsStep DEF LeaseInv, JobNext
<1>2. /\ CircuitTypeOK' /\ Live' = {}
      /\ outcome' \in [Jobs -> Outcomes]
      /\ rejection' = [j \in Jobs |-> NotRejected] /\ skipped' = [j \in Jobs |-> <<>>]
      /\ UNCHANGED <<job, now>>
  <2>1. outcome' \in [Jobs -> Outcomes]
    BY DEF CooldownInv, Crash, Renew, Outcomes
  <2>2. CircuitTypeOK'
    BY SMTT(20), <1>0 DEF Crash, CircuitTypeOK
  <2>3. rejection' = [j \in Jobs |-> NotRejected] /\ Live' = {}
    BY DEF Crash, Renew, Live
  <2> QED BY <2>1, <2>2, <2>3 DEF Crash
<1>3. ASSUME NEW k \in Jobs PROVE WaitsOut(k)'
  <2>1. rejection'[k].opening = <<>> /\ skipped'[k] = <<>>
    BY <1>2 DEF NotRejected
  <2>2. /\ Past(rejection[k].opening)' /\ Past(skipped[k])'
        /\ Over(rejection[k].opening, now + rejection[k].retryAfter)'
        /\ Over(skipped[k], job[k].availableAt)'
    BY <2>1, Nowhere DEF Past, Over
  <2> QED BY <1>0, <1>2, <2>1, <2>2 DEF WaitsOut
<1>4. /\ rejection' \in [Jobs -> Rejections] /\ skipped' \in [Jobs -> Openings]
  BY <1>2 DEF NotRejected, Rejections, Openings
<1> QED BY <1>1, <1>2, <1>3, <1>4 DEF CooldownInv, Rejections, Openings

(* A retry waits out the cooldown of the circuit that rejected it, for any *)
(* backoff, cap and cooldown: two attempts in a row are never rejected by  *)
(* the same opening (the GREATEST of fail).                                *)
THEOREM RetriesOutlastCooldowns == JobSpec => []RetryOutlastsCooldown
<1>1. JobInit => CooldownInv
  <2> SUFFICES ASSUME JobInit PROVE CooldownInv
    OBVIOUS
  <2>1. LeaseInv
    BY TargetsAssumption DEF JobInit, Init, CircuitInit, LeaseInv, AttemptTypeOK, Live, Jobs
  <2>2. CircuitTypeOK
    BY SMTT(20), OptionsAssumption, PastAssumption DEF JobInit, Init, CircuitInit, CircuitTypeOK
  <2>3. ASSUME NEW j \in Jobs PROVE WaitsOut(j)
    BY <2>3 DEF JobInit, Init, CircuitInit, WaitsOut, Past, Over, NotRejected, Live
  <2>4. /\ outcome \in [Jobs -> Outcomes]
        /\ rejection \in [Jobs -> Rejections] /\ skipped \in [Jobs -> Openings]
    BY DEF JobInit, Init, Outcomes, NotRejected, Rejections, Openings, Jobs
  <2> QED BY <2>1, <2>2, <2>3, <2>4 DEF CooldownInv, Rejections, Openings
<1>2. CooldownInv /\ [JobNext]_jobRetryVars => CooldownInv'
  BY CooldownStep, CooldownCrash
<1>3. CooldownInv => RetryOutlastsCooldown
  BY DEF CooldownInv, WaitsOut, RetryOutlastsCooldown
<1> QED BY <1>1, <1>2, <1>3, PTL DEF JobSpec
=============================================================================
