------------------------------ MODULE JobRetry ------------------------------
(***************************************************************************)
(* The times of inference jobs: the lease of an attempt, the deadlines of  *)
(* its provider calls and the delay before its retry, in a worker whose    *)
(* attempts share the router and its circuits.  The current attempt of a   *)
(* job is a request of ProviderRouter, neither streamed nor cancelled.     *)
(*                                                                         *)
(* One clock stands for that of Postgres and that of the worker.  How an   *)
(* attempt reaches the worker is left to JobSystem: an available one may   *)
(* be claimed at any time.                                                 *)
(***************************************************************************)
EXTENDS ProviderRouter

CONSTANTS MaxAttempts,
          RequestTimeout, \* of each target; 0 for a fallback that is not configured
          Margin,         \* what a lease adds to them: 30 s
          Delay,          \* bound on a round trip of the worker to Postgres
          Backoff, MaxBackoff, \* backoffMs, and the cap on its doubling: 1 h
          None,           \* no value
          MaxCrashes      \* bound

ASSUME AttemptsAssumption == MaxAttempts \in Nat \ {0}
ASSUME TimesAssumption ==
    /\ RequestTimeout \in [Circuits -> Nat]
    /\ {Margin, Delay, Backoff, MaxBackoff, MaxCrashes} \subseteq Nat
    /\ 2 * Delay <= Margin
(* Arithmetic, for the proofs: powers of two are natural numbers. *)
ASSUME PowersAssumption == \A k \in 0..30 : 2^k \in Nat

Jobs == Requests

VARIABLES job,        \* the row: status, attempts, availableAt, leaseUntil
          phase,      \* of the attempt: idle, claimed, routing, persisting
          due,        \* when its current wait ends at the latest
          rejection,  \* the circuit that last rejected it, and for how long
          skipped,    \* that of the attempt before, if it came to nothing else
          crashes

jobVars == <<job, phase, due, rejection, skipped, crashes>>
jobRetryVars == <<vars, jobVars>>

Live == {j \in Jobs : phase[j] # "idle"}

leaseMsOfPrimary == RequestTimeout[Primary] + Margin \* mutant
leaseMs == RequestTimeout[Primary] + RequestTimeout[Fallback] + Margin

Enter(j, p, wait) == /\ phase' = [phase EXCEPT ![j] = p]
                     /\ due' = [due EXCEPT ![j] = now + wait]

(* The row is claimed; the worker learns of it within a round trip. *)
claim(j) ==
    /\ job[j].status \in {"queued", "retrying"}
    /\ job[j].attempts < MaxAttempts
    /\ job[j].availableAt <= now
    /\ job' = [job EXCEPT ![j].status = "active", ![j].attempts = @ + 1,
                          ![j].leaseUntil = now + leaseMs]
    /\ Enter(j, "claimed", Delay)
    /\ UNCHANGED <<vars, rejection, skipped, crashes>>

(* A step of the router.  A call it starts has a deadline, a rejection the *)
(* time the circuit stays open; when it ends, complete or fail is sent.    *)
NotRejected == [opening |-> <<>>, retryAfter |-> 0]
RejectedBy(t) ==
    [opening |-> IF state[t] = "open" THEN <<t, generation[t]>> ELSE <<>>,
     retryAfter |-> RetryAfter(t)]
Process(j) ==
    /\ \/ phase[j] = "claimed" /\ Begin(j)
       \/ phase[j] = "routing" /\ (Settle(j) \/ Catch(j))
    /\ \/ stage'[j] = "calling" /\ Enter(j, "routing", RequestTimeout[target'[j]])
       \/ stage'[j] = "caught" /\ Enter(j, "routing", 0)
       \/ stage'[j] = "done" /\ Enter(j, "persisting", Delay)
    /\ rejection' = [rejection EXCEPT ![j] =
                        CASE outcome'[j] # "circuit_open" -> NotRejected
                          [] <<outcome, target>>' = <<outcome, target>> -> @
                          [] OTHER -> RejectedBy(target'[j])]
    /\ UNCHANGED <<job, skipped, crashes>>

(* The call is answered, or its deadline makes it a transient error, which *)
(* JobTick does not let it outlast.                                        *)
ProviderReturns(j) ==
    /\ phase[j] = "routing"
    /\ Returns(j)
    /\ UNCHANGED jobVars

(* The delay before a retry. *)
Doubled(n) == Backoff * 2^(IF n - 1 <= 30 THEN n - 1 ELSE 30)
Capped(n)  == IF Doubled(n) <= MaxBackoff THEN Doubled(n) ELSE MaxBackoff
BackoffOnly(j) == Capped(job[j].attempts) \* mutant
RetryDelay(j) == IF rejection[j].retryAfter >= Capped(job[j].attempts)
                 THEN rejection[j].retryAfter ELSE Capped(job[j].attempts)

Failed(j, row) ==
    [row EXCEPT !.status = IF outcome[j] \in Retryable /\ row.attempts < MaxAttempts
                           THEN "retrying" ELSE "failed",
                !.availableAt = now + RetryDelay(j), !.leaseUntil = None]

(* The requests of attempts that are over give way to those of the next. *)
Renew(js) ==
    /\ stage' = [j \in Jobs |-> IF j \in js THEN "start" ELSE stage[j]]
    /\ target' = [j \in Jobs |-> IF j \in js THEN Primary ELSE target[j]]
    /\ admitted' = [j \in Jobs |-> IF j \in js THEN 0 ELSE admitted[j]]
    /\ outcome' = [j \in Jobs |-> IF j \in js THEN "none" ELSE outcome[j]]
    /\ phase' = [j \in Jobs |-> IF j \in js THEN "idle" ELSE phase[j]]
    /\ due' = [j \in Jobs |-> IF j \in js THEN 0 ELSE due[j]]
    /\ rejection' = [j \in Jobs |-> IF j \in js THEN NotRejected ELSE rejection[j]]
    /\ UNCHANGED <<cancelled, emitted>>

(* complete or fail, which write the row only while it is the attempt's. *)
Persist(j) ==
    /\ phase[j] = "persisting"
    /\ job' = [job EXCEPT ![j] = CASE @.status # "active" -> @
                                   [] outcome[j] = "ok" -> [@ EXCEPT !.status = "completed",
                                                                        !.leaseUntil = None]
                                   [] OTHER -> Failed(j, @)]
    /\ skipped' = [skipped EXCEPT ![j] = rejection[j].opening]
    /\ Renew({j})
    /\ UNCHANGED <<circuitVars, now, crashes>>

(* maintain: an expired lease gives the job up to another attempt. *)
maintain(j) ==
    /\ job[j].status = "active" /\ job[j].leaseUntil < now
    /\ job' = [job EXCEPT ![j].status = IF job[j].attempts < MaxAttempts THEN "queued"
                                                                         ELSE "failed",
                          ![j].availableAt = now, ![j].leaseUntil = None]
    /\ UNCHANGED <<vars, phase, due, rejection, skipped, crashes>>

(* The worker dies with its attempts; the next one has new circuits. *)
Crash ==
    /\ crashes < MaxCrashes /\ Live # {}
    /\ crashes' = crashes + 1
    /\ Renew(Jobs)
    /\ skipped' = [j \in Jobs |-> <<>>]
    /\ state' = [t \in Circuits |-> "closed"]
    /\ consecutiveFailures' = [t \in Circuits |-> 0]
    /\ openedAt' = [t \in Circuits |-> 0]
    /\ generation' = [t \in Circuits |-> 0]
    /\ UNCHANGED <<now, job>>

(* Time passes only while every attempt awaits something not yet due. *)
JobTick ==
    /\ \A j \in Live : now < due[j]
    /\ Tick
    /\ UNCHANGED jobVars

JobInit ==
    /\ Init
    /\ job = [j \in Jobs |-> [status |-> "queued", attempts |-> 0, availableAt |-> 0,
                              leaseUntil |-> None]]
    /\ phase = [j \in Jobs |-> "idle"]
    /\ due = [j \in Jobs |-> 0]
    /\ rejection = [j \in Jobs |-> NotRejected]
    /\ skipped = [j \in Jobs |-> <<>>]
    /\ crashes = 0

Attempt(j) == Process(j) \/ ProviderReturns(j) \/ Persist(j)

JobNext == Crash \/ JobTick \/ \E j \in Jobs : claim(j) \/ maintain(j) \/ Attempt(j)

JobSpec == JobInit /\ [][JobNext]_jobRetryVars

----------------------------------------------------------------------------
(* Properties. *)

(* The lease outlasts the attempt: however long the two provider calls     *)
(* and the two round trips take, maintain gives no job to another attempt  *)
(* while a live worker is at it, so its result is written, not dropped     *)
(* (providerExecutionTimeoutMs sizes leaseMs).                             *)
LeaseOutlastsAttempt == \A j \in Live : job[j].status = "active"

(* A retry waits the cooldown out, also where that exceeds the cap on the  *)
(* backoff: no two attempts in a row of a job are spent on one opening of  *)
(* the circuit that decides its routing pass (GREATEST in fail).           *)
RetryOutlastsCooldown ==
    \A j \in Jobs : phase[j] = "persisting" /\ rejection[j].opening # <<>>
                        => rejection[j].opening # skipped[j]

(* The inductive invariant behind the first: what an attempt may still     *)
(* take after its current wait fits into its lease, and only the primary's *)
(* error leads to another call.                                            *)
Remaining(j) ==
    CASE phase[j] = "claimed" -> RequestTimeout[Primary] + RequestTimeout[Fallback] + Delay
      [] phase[j] = "routing" -> (IF target[j] = Primary THEN RequestTimeout[Fallback] ELSE 0) + Delay
      [] OTHER -> 0
Fits(j) == /\ job[j].status = "active" /\ job[j].leaseUntil \in Nat
           /\ now <= due[j] /\ due[j] + Remaining(j) <= job[j].leaseUntil
AttemptTypeOK ==
    /\ now \in Nat
    /\ phase \in [Jobs -> {"idle", "claimed", "routing", "persisting"}]
    /\ due \in [Jobs -> Nat]
    /\ target \in [Jobs -> Circuits]
    /\ stage \in [Jobs -> {"start", "calling", "returned", "caught", "done"}]
    /\ DOMAIN job = Jobs
    /\ \A j \in Jobs : DOMAIN job[j] = {"status", "attempts", "availableAt", "leaseUntil"}
    /\ \A j \in Jobs : stage[j] = "caught" => target[j] = Primary
LeaseInv == AttemptTypeOK /\ \A j \in Live : Fits(j)

(* And the one behind the second: at time x the opening o of a circuit is  *)
(* over, if it is the present one; the delay of a rejected attempt, the    *)
(* availability of a skipped job and the start of its next attempt are     *)
(* such times.                                                             *)
Over(o, x) == \A t \in Circuits : state[t] = "open" /\ o = <<t, generation[t]>>
                                      => openedAt[t] + ResetTimeout <= x
Past(o) == o # <<>> => o[2] <= generation[o[1]]
WaitsOut(j) ==
    /\ job[j].attempts \in Nat /\ job[j].availableAt \in Nat
    /\ j \in Live => job[j].attempts > 0
    /\ Past(rejection[j].opening) /\ Past(skipped[j])
    /\ Over(rejection[j].opening, now + rejection[j].retryAfter)
    /\ rejection[j].opening # <<>> => rejection[j].opening # skipped[j]
    /\ j \in Live => Over(skipped[j], now)
    /\ j \notin Live /\ job[j].status = "active" => skipped[j] = <<>>
    /\ job[j].status \in {"queued", "retrying"} => Over(skipped[j], job[j].availableAt)
CooldownInv ==
    /\ LeaseInv /\ CircuitTypeOK
    /\ outcome \in [Jobs -> Outcomes]
    /\ rejection \in [Jobs -> [opening : {<<>>} \cup (Circuits \X Nat), retryAfter : Nat]]
    /\ skipped \in [Jobs -> {<<>>} \cup (Circuits \X Nat)]
    /\ \A j \in Jobs : WaitsOut(j)
=============================================================================
