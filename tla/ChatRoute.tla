------------------------------ MODULE ChatRoute ------------------------------
(***************************************************************************)
(* POST /v1/chat: concurrent requests that look in the cache, wait for a   *)
(* permit of the concurrency limiter, call the provider and store the      *)
(* answer, each of which may be cancelled at any time, by its client or by *)
(* the shutdown.  A step is what the handler does between two awaits.      *)
(*                                                                         *)
(* The limiter is the module ConcurrencyLimiter, with the requests as its  *)
(* callers and their cancellation signals as its signals.  An answer is    *)
(* named after the request whose provider call produced it.                *)
(***************************************************************************)
EXTENDS Naturals, FiniteSets

CONSTANTS Requests,
          Owner, Body,   \* of each request: its API key, and what it asks
          Choices,       \* the sets of requests that may opt in to the cache
          MaxConcurrent, MaxQueueSize,
          None           \* no value

ASSUME LimiterOptions == MaxConcurrent \in Nat \ {0} /\ MaxQueueSize \in Nat
ASSUME RequestsAssumption == /\ IsFiniteSet(Requests)
                             /\ {None, "error", "destroyed"} \cap Requests = {}
                             /\ None \notin {"error", "destroyed"}

VARIABLES active, queue, counters, caller, signalled, \* of the limiter
          stage,    \* where the handler of each request is
          opted,    \* the requests whose headers opt in to the cache
          useCache, \* those that still use it
          reply,    \* what the client gets: an answer, an error, or a closed socket
          found,    \* what Redis has answered to a lookup
          entry,    \* the cached answer of each key
          sets      \* the SET commands on their way to Redis

Limiter == INSTANCE ConcurrencyLimiter WITH Callers <- Requests

limiterVars == <<active, queue, counters, caller, signalled>>
cacheVars == <<entry, sets>>
vars == <<limiterVars, stage, opted, useCache, reply, found, cacheVars>>

(* chatCacheKey: a hash of the owner and of the whole request. *)
KeyOfBody(r) == <<None, Body[r]>> \* mutant
Key(r) == <<Owner[r], Body[r]>>
CacheKeys == {Key(r) : r \in Requests}

At(r, s) == stage' = [stage EXCEPT ![r] = s]

(* The handler returns an answer, without another look at the signal. *)
Return(r, answer) == /\ At(r, "done")
                     /\ reply' = [reply EXCEPT ![r] = answer]

(* The handler's catch destroys the socket of a cancelled request. *)
Throw(r, error) ==
    /\ At(r, "done")
    /\ reply' = [reply EXCEPT ![r] = IF error = "aborted" \/ r \in signalled
                                     THEN "destroyed" ELSE "error"]

(* A request that uses the cache starts with a lookup, which looks at the  *)
(* signal before it sends its command; one that does not goes straight to  *)
(* the limiter.                                                            *)
Lookup(r) ==
    /\ stage[r] = "start" /\ r \in useCache
    /\ \/ r \in signalled /\ Throw(r, "aborted")
       \/ r \notin signalled /\ At(r, "reading") /\ UNCHANGED reply
    /\ UNCHANGED <<limiterVars, opted, useCache, found, cacheVars>>

Acquire(r) == Limiter!acquire(r) /\ At(r, "queued") /\ UNCHANGED reply

Bypass(r) ==
    /\ stage[r] = "start" /\ r \notin useCache
    /\ Acquire(r)
    /\ UNCHANGED <<opted, useCache, found, cacheVars>>

(* get resolves with an answer, or with null if there is none or its bytes *)
(* are refused; the signal is looked at first.                             *)
Resolved(r, cached) ==
    /\ UNCHANGED useCache
    /\ \/ r \in signalled /\ Throw(r, "aborted") /\ UNCHANGED limiterVars
       \/ r \notin signalled /\ cached # None /\ Return(r, cached) /\ UNCHANGED limiterVars
       \/ r \notin signalled /\ cached = None /\ Acquire(r)

(* get rejects: the command failed or timed out, and the cache is given    *)
(* up, or the request was cancelled.                                       *)
Rejected(r) ==
    \/ r \in signalled /\ Throw(r, "aborted") /\ UNCHANGED <<limiterVars, useCache>>
    \/ r \notin signalled /\ Acquire(r) /\ useCache' = useCache \ {r}

(* The lookup is over: Redis has answered, or is no longer waited for.     *)
LookupEnds(r) ==
    /\ \/ stage[r] = "read" /\ \E cached \in {found[r], None} : Resolved(r, cached)
       \/ stage[r] \in {"reading", "read"} /\ Rejected(r)
    /\ found' = [found EXCEPT ![r] = None]
    /\ UNCHANGED <<opted, cacheVars>>

(* acquire resolves: the call starts, or the permit is given back.         *)
AdmittedLeaky(r) == \* mutant: a permit that comes too late is not given back
    /\ stage[r] = "queued" /\ caller[r] = "admitted"
    /\ \/ r \in signalled /\ Throw(r, "aborted")
       \/ r \notin signalled /\ At(r, "calling") /\ UNCHANGED reply
    /\ UNCHANGED <<limiterVars, opted, useCache, found, cacheVars>>
Admitted(r) ==
    /\ stage[r] = "queued" /\ caller[r] = "admitted"
    /\ \/ r \in signalled /\ Throw(r, "aborted") /\ Limiter!release(r)
       \/ r \notin signalled /\ At(r, "calling") /\ UNCHANGED <<limiterVars, reply>>
    /\ UNCHANGED <<opted, useCache, found, cacheVars>>

(* acquire rejects: queue full, wait timed out, or cancelled. *)
RefusedInTime(r) == \* mutant: a wait that times out is not rejected
    /\ stage[r] = "queued" /\ caller[r] \in {"rejected", "aborted"}
    /\ Throw(r, caller[r])
    /\ UNCHANGED <<limiterVars, opted, useCache, found, cacheVars>>
Refused(r) ==
    /\ stage[r] = "queued" /\ caller[r] \in {"rejected", "timedOut", "aborted"}
    /\ Throw(r, caller[r])
    /\ UNCHANGED <<limiterVars, opted, useCache, found, cacheVars>>

(* The last look at the signal, and the answer. *)
ConcludeUnchecked(r) == Return(r, r) \* mutant
Conclude(r) == \/ r \in signalled /\ Throw(r, "aborted")
               \/ r \notin signalled /\ Return(r, r)

(* The answer of the provider is stored or, if it is too large or the      *)
(* cache is not used, returned.                                            *)
Store(r) == /\ r \in useCache
            /\ At(r, "writing")
            /\ sets' = sets \cup {r}
            /\ UNCHANGED reply
Answered(r) == \/ r \in signalled /\ Throw(r, "aborted") /\ UNCHANGED sets
               \/ r \notin signalled /\ Store(r)
               \/ r \notin signalled /\ Conclude(r) /\ UNCHANGED sets

(* The provider call ends, and the permit is released. *)
CallEndsHolding(r) == \* mutant: the cache is written before the release
    /\ stage[r] = "calling"
    /\ \/ r \notin signalled /\ Store(r) /\ UNCHANGED limiterVars
       \/ /\ Limiter!release(r)
          /\ Throw(r, "provider") \/ Conclude(r)
          /\ UNCHANGED sets
    /\ UNCHANGED <<opted, useCache, found, entry>>
CallEnds(r) ==
    /\ stage[r] = "calling"
    /\ Limiter!release(r)
    /\ \/ Throw(r, "provider") /\ UNCHANGED sets
       \/ Answered(r)
    /\ UNCHANGED <<opted, useCache, found, entry>>

(* put is over.  If it rejects, for a failure, a timeout or a cancellation *)
(* of its command, the signal is looked at once more.  The command may     *)
(* still be applied.                                                       *)
WriteEnds(r) ==
    /\ stage[r] = "writing"
    /\ \/ Conclude(r)
       \/ r \in signalled /\ Throw(r, "aborted")
    /\ UNCHANGED <<limiterVars, opted, useCache, found, cacheVars>>

(* The abort event of a request's signal: the client is gone, or preClose. *)
Cancel(r) ==
    /\ stage[r] # "done"
    /\ Limiter!onAbort(r)
    /\ UNCHANGED <<stage, opted, useCache, reply, found, cacheVars>>

WaitTimeout(r) ==
    /\ Limiter!onTimeout(r)
    /\ UNCHANGED <<stage, opted, useCache, reply, found, cacheVars>>

(* Redis: GETRANGE is answered; SET ... EX ... NX is applied or is lost,   *)
(* and entries expire.                                                     *)
Get(r) ==
    /\ stage[r] = "reading"
    /\ At(r, "read")
    /\ found' = [found EXCEPT ![r] = entry[Key(r)]]
    /\ UNCHANGED <<limiterVars, opted, useCache, reply, cacheVars>>

Apply(r) ==
    /\ r \in sets
    /\ sets' = sets \ {r}
    /\ entry' = [entry EXCEPT ![Key(r)] = IF @ = None THEN r ELSE @]
    /\ UNCHANGED <<limiterVars, stage, opted, useCache, reply, found>>

Drop(r) ==
    /\ r \in sets
    /\ sets' = sets \ {r}
    /\ UNCHANGED <<limiterVars, stage, opted, useCache, reply, found, entry>>

Expire(k) ==
    /\ entry[k] # None
    /\ entry' = [entry EXCEPT ![k] = None]
    /\ UNCHANGED <<limiterVars, stage, opted, useCache, reply, found, sets>>

Init == /\ Limiter!Init
        /\ stage = [r \in Requests |-> "start"]
        /\ opted \in Choices /\ useCache = opted
        /\ reply = [r \in Requests |-> None]
        /\ found = [r \in Requests |-> None]
        /\ entry = [k \in CacheKeys |-> None]
        /\ sets = {}

Handle(r) == \/ Lookup(r) \/ Bypass(r) \/ LookupEnds(r) \/ Admitted(r) \/ Refused(r)
             \/ CallEnds(r) \/ WriteEnds(r)

Redis(r) == Get(r) \/ Apply(r) \/ Drop(r)

Next == \/ \E r \in Requests : Handle(r) \/ Cancel(r) \/ WaitTimeout(r) \/ Redis(r)
        \/ \E k \in CacheKeys : Expire(k)

Spec == Init /\ [][Next]_vars

(* Promises settle: cache commands and provider calls have their timeouts. *)
(* The timer of a wait for a permit is not assumed to fire.               *)
FairSpec == Spec /\ \A r \in Requests : WF_vars(Handle(r))

----------------------------------------------------------------------------
(* Properties. *)

(* A permit covers the provider call and nothing else: every call runs     *)
(* under a permit, and none is held during cache I/O or left behind by a   *)
(* handler that ended, whatever was cancelled when.                        *)
PermitsCoverCalls ==
    \A r \in Requests : /\ stage[r] = "calling" => caller[r] = "admitted"
                        /\ caller[r] = "admitted" => stage[r] \in {"queued", "calling"}

(* Once its signal is aborted a request comes to nothing, wherever its     *)
(* handler is and whatever its awaits bring: no permit reaches it, it      *)
(* starts no lookup, no provider call and no SET, and its client gets no   *)
(* answer.  Who is not cancelled keeps the socket (the throwIfCancelled    *)
(* after each await, the abort listener of the limiter, the catch).        *)
CancelledComesToNothing ==
    [][\A r \in Requests :
          IF r \in signalled
          THEN /\ caller'[r] = "admitted" => caller[r] = "admitted"
               /\ stage'[r] \in {"reading", "calling", "writing"} => stage[r] = stage'[r]
               /\ r \in sets' => r \in sets
               /\ reply'[r] \in {reply[r], "destroyed"}
          ELSE reply'[r] # "destroyed"]_vars

(* An answer, fresh or from the cache, was produced for the same owner and *)
(* the same request; and what is cached comes from a request that opted    *)
(* in, even if its SET arrives after the request is over.                  *)
AnswersInScope ==
    \A a \in Requests :
        /\ \A r \in Requests : reply[r] = a => Owner[a] = Owner[r] /\ Body[a] = Body[r]
        /\ \A k \in CacheKeys : entry[k] = a => a \in opted /\ k = Key(a)

(* The handlers use the limiter as it expects to be used, and release      *)
(* every permit they get: its fairness assumption is met.                  *)
UsesLimiter == Limiter!FairSpec

(* The inductive invariant behind these: what an acquire has come to says  *)
(* where its handler is and whether it was cancelled, a lookup found an    *)
(* answer of its scope, and what is stored or about to be comes from a     *)
(* request that opted in.                                                  *)
Stages == {"start", "reading", "read", "queued", "calling", "writing", "done"}
ChatInv ==
    /\ stage \in [Requests -> Stages]
    /\ reply \in [Requests -> Requests \cup {None, "error", "destroyed"}]
    /\ entry \in [CacheKeys -> Requests \cup {None}]
    /\ useCache \subseteq opted /\ sets \subseteq opted
    /\ found \in [Requests -> Requests \cup {None}]
    /\ \A r \in Requests :
          /\ caller[r] = "waiting" => stage[r] = "queued" /\ r \notin signalled
          /\ caller[r] = "aborted" => r \in signalled
          /\ found[r] \in Requests => Key(found[r]) = Key(r)
          /\ reply[r] = "destroyed" => r \in signalled
          /\ reply[r] # None => stage[r] = "done"
    /\ PermitsCoverCalls /\ AnswersInScope

(* Every request that is under way ends. *)
RequestsEnd == \A r \in Requests : (stage[r] # "start") ~> (stage[r] = "done")
=============================================================================
