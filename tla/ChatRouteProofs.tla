--------------------------- MODULE ChatRouteProofs ---------------------------
(***************************************************************************)
(* The handlers of /v1/chat for any finite number of requests, any limit   *)
(* and any cache.  They drive the limiter only through its operations, so  *)
(* what is proved of the limiter holds of the one they use; and with it,   *)
(* the invariant of the handlers is inductive.                             *)
(***************************************************************************)
EXTENDS ChatRoute, Sequences, TLAPS

(* Most leaves are first-order; those with arithmetic or records name SMT. *)
USE Zenon

----------------------------------------------------------------------------
(* Every step of a request is a step of the limiter or leaves it alone. *)
LEMMA LimiterSteps ==
    ASSUME [Next]_vars
    PROVE  [Limiter!Next]_(Limiter!vars)
<1>1. CASE UNCHANGED vars
  BY <1>1 DEF vars, limiterVars, Limiter!vars
<1>2. ASSUME NEW r \in Requests, Handle(r) \/ Cancel(r) \/ WaitTimeout(r) \/ Redis(r)
      PROVE  \/ Limiter!acquire(r) \/ Limiter!onAbort(r) \/ Limiter!onTimeout(r)
             \/ Limiter!release(r) \/ UNCHANGED limiterVars
  BY <1>2 DEF Handle, Lookup, Bypass, LookupEnds, Resolved, Rejected, Admitted, Refused,
              CallEnds, WriteEnds, Acquire, Cancel, WaitTimeout, Redis, Get, Apply, Drop
<1>3. ASSUME NEW k \in CacheKeys, Expire(k)
      PROVE  UNCHANGED limiterVars
  BY <1>3 DEF Expire
<1> QED BY <1>1, <1>2, <1>3 DEF Next, limiterVars, Limiter!vars, Limiter!Next

(* The handlers use the limiter as it is meant to be used: a permit is     *)
(* released only by the request that holds it, and nobody acquires twice.  *)
THEOREM HandlersUseLimiter == Spec => Limiter!Spec
<1>1. Init => Limiter!Init
  BY DEF Init
<1> QED BY <1>1, LimiterSteps, PTL DEF Spec, Limiter!Spec

----------------------------------------------------------------------------
(* What the operations of a sound limiter do to its callers. *)
Sound == /\ Limiter!TypeOK
         /\ Limiter!Range(queue) = Limiter!In({"waiting"})

LEMMA AcquireMoves ==
    ASSUME Sound, NEW r \in Requests, Limiter!acquire(r)
    PROVE  /\ caller[r] = "new" /\ signalled' = signalled
           /\ caller'[r] \in {"aborted", "admitted", "rejected", "waiting"}
           /\ caller'[r] = "aborted" <=> r \in signalled
           /\ \A q \in Requests \ {r} : caller'[q] = caller[q]
  BY DEF Sound, Limiter!TypeOK, Limiter!acquire, Limiter!End

LEMMA ReleaseMoves ==
    ASSUME Sound, NEW r \in Requests, caller[r] = "admitted", Limiter!release(r)
    PROVE  /\ caller'[r] = "released" /\ signalled' = signalled
           /\ \A q \in Requests \ {r} : \/ caller'[q] = caller[q]
                                        \/ caller[q] = "waiting" /\ caller'[q] = "admitted"
<1>0. caller \in [Requests -> Limiter!States] /\ queue \in Seq(Requests)
  BY DEF Sound, Limiter!TypeOK
<1>a. Limiter!HandOver(r)
  BY DEF Limiter!release
<1>1. CASE queue = <<>>
  BY <1>0, <1>a, <1>1 DEF Limiter!HandOver
<1>2. CASE queue # <<>>
  <2>1. Head(queue) \in Requests /\ Head(queue) = queue[1] /\ 1 \in DOMAIN queue
    BY SMTT(20), <1>0, <1>2
  <2>2. caller[Head(queue)] = "waiting"
    BY <2>1 DEF Sound, Limiter!Range, Limiter!In
  <2>3. caller' = [caller EXCEPT ![r] = "released", ![Head(queue)] = "admitted"]
    BY <1>a, <1>2 DEF Limiter!HandOver
  <2> QED BY <1>0, <1>a, <2>1, <2>2, <2>3 DEF Limiter!HandOver
<1> QED BY <1>1, <1>2

LEMMA RemoveWaiting ==
    ASSUME Sound, NEW r \in Requests, Limiter!remove(r)
    PROVE  caller[r] = "waiting"
  BY DEF Sound, Limiter!Range, Limiter!In, Limiter!remove

LEMMA AbortMoves ==
    ASSUME Sound, NEW r \in Requests, Limiter!onAbort(r)
    PROVE  /\ signalled' = signalled \cup {r}
           /\ \/ caller'[r] = caller[r] /\ caller[r] # "waiting"
              \/ caller[r] = "waiting" /\ caller'[r] = "aborted"
           /\ \A q \in Requests \ {r} : caller'[q] = caller[q]
<1>1. caller[r] = "waiting" => r \in Limiter!Range(queue)
  BY DEF Sound, Limiter!In
<1> QED BY <1>1, RemoveWaiting DEF Sound, Limiter!TypeOK, Limiter!onAbort, Limiter!End

LEMMA TimeoutMoves ==
    ASSUME Sound, NEW r \in Requests, Limiter!onTimeout(r)
    PROVE  /\ signalled' = signalled
           /\ caller[r] = "waiting" /\ caller'[r] = "timedOut"
           /\ \A q \in Requests \ {r} : caller'[q] = caller[q]
  BY RemoveWaiting DEF Sound, Limiter!TypeOK, Limiter!onTimeout, Limiter!End

----------------------------------------------------------------------------
(* The invariant, as what it says of each request and of the cache. *)
Replies == Requests \cup {None, "error", "destroyed"}
Typed == /\ stage \in [Requests -> Stages]
         /\ reply \in [Requests -> Replies]
         /\ entry \in [CacheKeys -> Requests \cup {None}]
         /\ found \in [Requests -> Requests \cup {None}]
         /\ useCache \subseteq opted /\ sets \subseteq opted
PermitInv(r) == /\ caller[r] = "waiting" => stage[r] = "queued" /\ r \notin signalled
                /\ caller[r] = "aborted" => r \in signalled
                /\ stage[r] = "calling" => caller[r] = "admitted"
                /\ caller[r] = "admitted" => stage[r] \in {"queued", "calling"}
ReplyInv(r) == /\ reply[r] = "destroyed" => r \in signalled
               /\ reply[r] # None => stage[r] = "done"
               /\ reply[r] \in Requests => Key(reply[r]) = Key(r)
               /\ found[r] \in Requests => Key(found[r]) = Key(r)
CacheInv == \A k \in CacheKeys : entry[k] \in Requests => entry[k] \in opted /\ k = Key(entry[k])

LEMMA ChatInvParts ==
    ChatInv <=> Typed /\ CacheInv /\ \A r \in Requests : PermitInv(r) /\ ReplyInv(r)
<1>1. AnswersInScope <=> CacheInv /\ \A r \in Requests : reply[r] \in Requests
                                                           => Key(reply[r]) = Key(r)
  BY DEF AnswersInScope, CacheInv, Key
<1>2. PermitsCoverCalls <=>
         \A r \in Requests : /\ stage[r] = "calling" => caller[r] = "admitted"
                             /\ caller[r] = "admitted" => stage[r] \in {"queued", "calling"}
  BY DEF PermitsCoverCalls
<1> QED BY <1>1, <1>2 DEF ChatInv, Typed, Replies, PermitInv, ReplyInv

LEMMA ChatInvPartsNext ==
    (Typed /\ CacheInv /\ \A r \in Requests : PermitInv(r) /\ ReplyInv(r))' => ChatInv'
  BY ChatInvParts, PTL

(* What a step may do to a request, cancelled or not. *)
Obeys(r) == IF r \in signalled
            THEN /\ caller'[r] = "admitted" => caller[r] = "admitted"
                 /\ stage'[r] \in {"reading", "calling", "writing"} => stage[r] = stage'[r]
                 /\ r \in sets' => r \in sets
                 /\ reply'[r] \in {reply[r], "destroyed"}
            ELSE reply'[r] # "destroyed"
Obey == \A r \in Requests : Obeys(r)

(* A step of request r: the handlers of the others stay where they are. *)
Others(r) == /\ \A q \in Requests \ {r} :
                   /\ stage'[q] = stage[q] /\ reply'[q] = reply[q] /\ found'[q] = found[q]
                   /\ q \in signalled' <=> q \in signalled
                   /\ \/ caller'[q] = caller[q]
                      \/ caller[q] = "waiting" /\ caller'[q] = "admitted"
             /\ sets' \subseteq sets \cup {r}

LEMMA OthersKeep ==
    ASSUME ChatInv, NEW r \in Requests, Others(r), Typed', CacheInv', PermitInv(r)', ReplyInv(r)',
           Obeys(r)
    PROVE  ChatInv' /\ Obey
<1>1. ASSUME NEW q \in Requests \ {r}
      PROVE  PermitInv(q)' /\ ReplyInv(q)' /\ Obeys(q)
  <2>1. PermitInv(q) /\ ReplyInv(q)
    BY ChatInvParts
  <2>2. PermitInv(q)'
    BY SMTT(20), <2>1 DEF Others, PermitInv
  <2>3. ReplyInv(q)'
    BY <2>1 DEF Others, ReplyInv, Key
  <2>4. Obeys(q)
    BY SMTT(20), <2>1 DEF Others, PermitInv, ReplyInv, Obeys
  <2> QED BY <2>2, <2>3, <2>4
<1>2. \A q \in Requests : PermitInv(q)' /\ ReplyInv(q)' /\ Obeys(q)
  BY <1>1
<1> QED BY <1>2, ChatInvPartsNext DEF Obey

(* How a handler ends, with an answer of its scope or none. *)
Ended(r) == /\ stage' \in [Requests -> Stages] /\ reply' \in [Requests -> Replies]
            /\ stage'[r] = "done"
            /\ reply'[r] = "destroyed" <=> r \in signalled
            /\ reply'[r] \in Requests => Key(reply'[r]) = Key(r)
            /\ \A q \in Requests \ {r} : stage'[q] = stage[q] /\ reply'[q] = reply[q]

LEMMA ThrowStep ==
    ASSUME Typed, NEW r \in Requests, NEW e, Throw(r, e), e = "aborted" => r \in signalled
    PROVE  Ended(r)
<1>1. stage' = [stage EXCEPT ![r] = "done"]
  BY DEF Throw, At
<1>2. reply' = [reply EXCEPT ![r] = IF r \in signalled THEN "destroyed" ELSE "error"]
  BY DEF Throw
<1>3. /\ {"destroyed", "error"} \subseteq Replies /\ "destroyed" \notin Requests
      /\ "error" \notin Requests /\ "done" \in Stages
  BY RequestsAssumption DEF Replies, Stages
<1>4. reply'[r] = IF r \in signalled THEN "destroyed" ELSE "error"
  BY <1>2 DEF Typed
<1>5. stage' \in [Requests -> Stages] /\ reply' \in [Requests -> Replies]
  BY <1>1, <1>2, <1>3 DEF Typed
<1>6. /\ stage'[r] = "done"
      /\ \A q \in Requests \ {r} : stage'[q] = stage[q] /\ reply'[q] = reply[q]
  BY <1>1, <1>2 DEF Typed
<1> QED BY <1>3, <1>4, <1>5, <1>6 DEF Ended

LEMMA ReturnStep ==
    ASSUME Typed, NEW r \in Requests, NEW a \in Requests, Return(r, a), Key(a) = Key(r),
           r \notin signalled
    PROVE  Ended(r)
<1>1. stage' = [stage EXCEPT ![r] = "done"] /\ reply' = [reply EXCEPT ![r] = a]
  BY DEF Return, At
<1>2. a \in Replies /\ a # "destroyed" /\ "done" \in Stages
  BY RequestsAssumption DEF Replies, Stages
<1>3. reply'[r] = a
  BY <1>1 DEF Typed
<1>4. stage' \in [Requests -> Stages] /\ reply' \in [Requests -> Replies]
  BY <1>1, <1>2 DEF Typed
<1>5. /\ stage'[r] = "done"
      /\ \A q \in Requests \ {r} : stage'[q] = stage[q] /\ reply'[q] = reply[q]
  BY <1>1 DEF Typed
<1> QED BY <1>2, <1>3, <1>4, <1>5 DEF Ended

LEMMA ConcludeStep ==
    ASSUME Typed, NEW r \in Requests, Conclude(r)
    PROVE  Ended(r)
  BY ThrowStep, ReturnStep DEF Conclude

(* What is left alone by a handler that ends. *)
EndLeaves(r) == /\ UNCHANGED <<opted, cacheVars, signalled>> /\ useCache' \subseteq useCache
                /\ found' = found \/ found' = [found EXCEPT ![r] = None]

LEMMA EndKeeps ==
    ASSUME ChatInv, NEW r \in Requests, Ended(r), EndLeaves(r),
           caller'[r] \notin {"waiting", "admitted"}, caller'[r] = "aborted" => r \in signalled,
           \A q \in Requests \ {r} : \/ caller'[q] = caller[q]
                                     \/ caller[q] = "waiting" /\ caller'[q] = "admitted"
    PROVE  ChatInv' /\ Obey
<1>0. Typed /\ CacheInv /\ ReplyInv(r)
  BY ChatInvParts
<1>1. /\ found' \in [Requests -> Requests \cup {None}]
      /\ found'[r] \in {found[r], None} /\ \A q \in Requests \ {r} : found'[q] = found[q]
  BY <1>0 DEF EndLeaves, Typed
<1>2. Typed'
  BY <1>0, <1>1 DEF Typed, Ended, EndLeaves, cacheVars
<1>3. CacheInv'
  BY <1>0 DEF EndLeaves, CacheInv, CacheKeys, Key, cacheVars
<1>4. PermitInv(r)'
  BY DEF Ended, EndLeaves, PermitInv
<1>5. ReplyInv(r)'
  BY <1>0, <1>1, RequestsAssumption DEF Ended, EndLeaves, ReplyInv, Key
<1>6. Others(r)
  BY <1>1 DEF Others, Ended, EndLeaves, cacheVars
<1>7. Obeys(r)
  BY DEF Obeys, Ended, EndLeaves, cacheVars
<1> QED BY <1>2, <1>3, <1>4, <1>5, <1>6, <1>7, OthersKeep

(* How a handler goes on to the next await. *)
LEMMA AtStep ==
    ASSUME Typed, NEW r \in Requests, NEW s \in Stages \ {"done"}, At(r, s), UNCHANGED reply,
           ReplyInv(r), stage[r] # "done", signalled' = signalled,
           found' \in [Requests -> Requests \cup {None}],
           found'[r] \in Requests => Key(found'[r]) = Key(r)
    PROVE  /\ stage' \in [Requests -> Stages] /\ reply' \in [Requests -> Replies]
           /\ stage'[r] = s /\ ReplyInv(r)' /\ reply'[r] = None
           /\ \A q \in Requests \ {r} : stage'[q] = stage[q] /\ reply'[q] = reply[q]
<1>1. stage' = [stage EXCEPT ![r] = s]
  BY DEF At
<1>2. stage'[r] = s
  BY <1>1 DEF Typed
<1>3. reply[r] = None
  BY DEF ReplyInv
<1>4. ReplyInv(r)'
  BY <1>2, <1>3, RequestsAssumption DEF ReplyInv, Key
<1> QED BY <1>1, <1>2, <1>3, <1>4 DEF Typed

LEMMA Unpack ==
    ASSUME ChatInv, NEW r \in Requests
    PROVE  /\ Typed /\ CacheInv /\ PermitInv(r) /\ ReplyInv(r)
           /\ Key(r) \in CacheKeys /\ None # "destroyed"
  BY ChatInvParts, RequestsAssumption DEF CacheKeys, ReplyInv

LEMMA LookupKeeps ==
    ASSUME ChatInv, NEW r \in Requests, Lookup(r)
    PROVE  ChatInv' /\ Obey
<1>0. Typed /\ CacheInv /\ PermitInv(r) /\ ReplyInv(r) /\ None # "destroyed"
  BY Unpack
<1>1. stage[r] = "start" /\ UNCHANGED <<caller, signalled, useCache, opted, found, entry, sets>>
  BY DEF Lookup, limiterVars, cacheVars
<1>2. CASE r \in signalled /\ Throw(r, "aborted")
  <2>1. Ended(r)
    BY <1>0, <1>2, ThrowStep
  <2>2. caller'[r] \notin {"waiting", "admitted"} /\ (caller'[r] = "aborted" => r \in signalled)
    BY <1>0, <1>1 DEF PermitInv
  <2>3. EndLeaves(r)
    BY <1>1 DEF EndLeaves, cacheVars
  <2> QED BY <1>1, <2>1, <2>2, <2>3, EndKeeps
<1>3. CASE r \notin signalled /\ At(r, "reading") /\ UNCHANGED reply
  <2>1. /\ stage' \in [Requests -> Stages] /\ reply' \in [Requests -> Replies]
        /\ stage'[r] = "reading" /\ ReplyInv(r)' /\ reply'[r] = None
        /\ \A q \in Requests \ {r} : stage'[q] = stage[q] /\ reply'[q] = reply[q]
    BY <1>0, <1>1, <1>3, AtStep DEF Stages, Typed, ReplyInv
  <2>2. Typed' /\ CacheInv'
    BY <1>0, <1>1, <2>1 DEF Typed, CacheInv, CacheKeys, Key
  <2>3. PermitInv(r)' /\ Obeys(r) /\ Others(r)
    BY <1>0, <1>1, <1>3, <2>1 DEF PermitInv, Others, Obeys
  <2> QED BY <2>1, <2>2, <2>3, OthersKeep
<1> QED BY <1>2, <1>3 DEF Lookup

LEMMA AcquireKeeps ==
    ASSUME ChatInv, Sound, NEW r \in Requests, stage[r] # "done", Acquire(r),
           UNCHANGED <<opted, cacheVars>>, useCache' \subseteq useCache,
           found' = found \/ found' = [found EXCEPT ![r] = None]
    PROVE  ChatInv' /\ Obey
<1>0. Typed /\ CacheInv /\ PermitInv(r) /\ ReplyInv(r) /\ None # "destroyed"
  BY Unpack
<1>1. /\ signalled' = signalled /\ (caller'[r] = "aborted" <=> r \in signalled)
      /\ \A q \in Requests \ {r} : caller'[q] = caller[q]
  BY AcquireMoves DEF Acquire
<1>2. /\ found' \in [Requests -> Requests \cup {None}]
      /\ found'[r] \in {found[r], None} /\ \A q \in Requests \ {r} : found'[q] = found[q]
  BY <1>0 DEF Typed
<1>3. found'[r] \in Requests => Key(found'[r]) = Key(r)
  <2>1. None \notin Requests
    BY RequestsAssumption
  <2>2. CASE found'[r] = found[r]
    BY <1>0, <2>2 DEF ReplyInv, Key
  <2> QED BY <1>2, <2>1, <2>2
<1>4. /\ stage' \in [Requests -> Stages] /\ reply' \in [Requests -> Replies]
      /\ stage'[r] = "queued" /\ ReplyInv(r)' /\ reply'[r] = None
      /\ \A q \in Requests \ {r} : stage'[q] = stage[q] /\ reply'[q] = reply[q]
  BY <1>0, <1>1, <1>2, <1>3, AtStep DEF Acquire, Stages
<1>5. Typed' /\ CacheInv'
  BY <1>0, <1>2, <1>4 DEF Typed, CacheInv, CacheKeys, Key, cacheVars
<1>6. PermitInv(r)'
  BY <1>1, <1>4 DEF PermitInv
<1>7. reply[r] = None
  BY <1>0 DEF ReplyInv
<1>8. Obeys(r) /\ Others(r)
  BY <1>0, <1>1, <1>2, <1>4, <1>7 DEF Others, Obeys, cacheVars
<1> QED BY <1>4, <1>5, <1>6, <1>8, OthersKeep

LEMMA LookupEndsKeeps ==
    ASSUME ChatInv, Sound, NEW r \in Requests, LookupEnds(r)
    PROVE  ChatInv' /\ Obey
<1>0. Typed /\ CacheInv /\ PermitInv(r) /\ ReplyInv(r) /\ None # "destroyed"
  BY Unpack
<1>1. /\ stage[r] \in {"reading", "read"} /\ UNCHANGED <<opted, cacheVars>>
      /\ found' = [found EXCEPT ![r] = None]
  BY DEF LookupEnds
<1>2. CASE Acquire(r) /\ (UNCHANGED useCache \/ useCache' = useCache \ {r})
  BY <1>1, <1>2, AcquireKeeps
<1>3. ASSUME UNCHANGED <<limiterVars, useCache>>, Ended(r)
      PROVE  ChatInv' /\ Obey
  <2>1. UNCHANGED <<caller, signalled>>
    BY <1>3 DEF limiterVars
  <2>2. caller'[r] \notin {"waiting", "admitted"} /\ (caller'[r] = "aborted" => r \in signalled)
    BY <1>0, <1>1, <2>1 DEF PermitInv
  <2>3. EndLeaves(r)
    BY <1>1, <1>3, <2>1 DEF EndLeaves
  <2> QED BY <1>3, <2>1, <2>2, <2>3, EndKeeps
<1>4. ASSUME r \in signalled, Throw(r, "aborted") PROVE Ended(r)
  BY <1>0, <1>4, ThrowStep
<1>5. ASSUME NEW cached \in {found[r], None}, r \notin signalled, cached # None,
             Return(r, cached)
      PROVE  Ended(r)
  <2>1. cached \in Requests /\ Key(cached) = Key(r)
    BY <1>0, <1>5 DEF Typed, ReplyInv
  <2> QED BY <1>0, <1>5, <2>1, ReturnStep
<1>6. CASE Rejected(r)
  BY <1>2, <1>3, <1>4, <1>6 DEF Rejected
<1>7. ASSUME NEW cached \in {found[r], None}, Resolved(r, cached)
      PROVE  ChatInv' /\ Obey
  BY <1>2, <1>3, <1>4, <1>5, <1>7 DEF Resolved
<1> QED BY <1>6, <1>7 DEF LookupEnds

(* A handler that releases its permit and ends. *)
LEMMA ReleaseEndKeeps ==
    ASSUME ChatInv, Sound, NEW r \in Requests, caller[r] = "admitted", Limiter!release(r),
           Ended(r), UNCHANGED <<opted, useCache, found, cacheVars>>
    PROVE  ChatInv' /\ Obey
<1>1. /\ caller'[r] = "released" /\ signalled' = signalled
      /\ \A q \in Requests \ {r} : \/ caller'[q] = caller[q]
                                   \/ caller[q] = "waiting" /\ caller'[q] = "admitted"
  BY ReleaseMoves
<1>2. EndLeaves(r)
  BY <1>1 DEF EndLeaves
<1> QED BY <1>1, <1>2, EndKeeps

LEMMA AdmittedKeeps ==
    ASSUME ChatInv, Sound, NEW r \in Requests, Admitted(r)
    PROVE  ChatInv' /\ Obey
<1>0. Typed /\ CacheInv /\ PermitInv(r) /\ ReplyInv(r) /\ None # "destroyed"
  BY Unpack
<1>1. CASE r \in signalled /\ Throw(r, "aborted") /\ Limiter!release(r)
  BY <1>0, <1>1, ThrowStep, ReleaseEndKeeps DEF Admitted
<1>2. CASE r \notin signalled /\ At(r, "calling") /\ UNCHANGED <<limiterVars, reply>>
  <2>1. /\ caller[r] = "admitted" /\ stage[r] = "queued"
        /\ UNCHANGED <<caller, signalled, useCache, opted, found, entry, sets>>
    BY <1>2 DEF Admitted, limiterVars, cacheVars
  <2>2. /\ stage' \in [Requests -> Stages] /\ reply' \in [Requests -> Replies]
        /\ stage'[r] = "calling" /\ ReplyInv(r)' /\ reply'[r] = None
        /\ \A q \in Requests \ {r} : stage'[q] = stage[q] /\ reply'[q] = reply[q]
    BY <1>0, <1>2, <2>1, AtStep DEF Stages, Typed, ReplyInv
  <2>3. Typed' /\ CacheInv'
    BY <1>0, <2>1, <2>2 DEF Typed, CacheInv, CacheKeys, Key
  <2>4. PermitInv(r)' /\ Obeys(r) /\ Others(r)
    BY <1>0, <1>2, <2>1, <2>2 DEF PermitInv, Others, Obeys
  <2> QED BY <2>2, <2>3, <2>4, OthersKeep
<1> QED BY <1>1, <1>2 DEF Admitted

(* A handler that ends without a permit. *)
LEMMA EndsKeeps ==
    ASSUME ChatInv, NEW r \in Requests, Refused(r) \/ WriteEnds(r)
    PROVE  ChatInv' /\ Obey
<1>0. Typed /\ PermitInv(r)
  BY Unpack
<1>1. /\ caller[r] \notin {"admitted", "waiting"}
      /\ UNCHANGED <<caller, signalled, useCache, opted, found, entry, sets>>
  BY <1>0 DEF Refused, WriteEnds, limiterVars, cacheVars, PermitInv
<1>2. Ended(r)
  <2>1. CASE Refused(r)
    BY <1>0, <2>1, ThrowStep DEF Refused, PermitInv
  <2>2. CASE WriteEnds(r)
    BY <1>0, <2>2, ThrowStep, ConcludeStep DEF WriteEnds
  <2> QED BY <2>1, <2>2
<1>3. EndLeaves(r) /\ (caller'[r] = "aborted" => r \in signalled)
  BY <1>0, <1>1 DEF EndLeaves, PermitInv, cacheVars
<1> QED BY <1>1, <1>2, <1>3, EndKeeps

LEMMA CallEndsKeeps ==
    ASSUME ChatInv, Sound, NEW r \in Requests, CallEnds(r)
    PROVE  ChatInv' /\ Obey
<1>0. Typed /\ CacheInv /\ PermitInv(r) /\ ReplyInv(r) /\ None # "destroyed"
  BY Unpack
<1>1. /\ stage[r] = "calling" /\ caller[r] = "admitted" /\ Limiter!release(r)
      /\ UNCHANGED <<opted, useCache, found, entry>>
  BY <1>0 DEF CallEnds, PermitInv
<1>2. ASSUME UNCHANGED sets, Ended(r) PROVE ChatInv' /\ Obey
  BY <1>1, <1>2, ReleaseEndKeeps DEF cacheVars
<1>3. CASE Throw(r, "provider") /\ UNCHANGED sets
  BY <1>0, <1>2, <1>3, ThrowStep
<1>4. CASE r \in signalled /\ Throw(r, "aborted") /\ UNCHANGED sets
  BY <1>0, <1>2, <1>4, ThrowStep
<1>5. CASE Conclude(r) /\ UNCHANGED sets
  BY <1>0, <1>2, <1>5, ConcludeStep
<1>6. CASE r \notin signalled /\ Store(r)
  <2>1. /\ caller'[r] = "released" /\ signalled' = signalled
        /\ \A q \in Requests \ {r} : \/ caller'[q] = caller[q]
                                     \/ caller[q] = "waiting" /\ caller'[q] = "admitted"
    BY <1>1, ReleaseMoves
  <2>2. r \in useCache /\ sets' = sets \cup {r} /\ At(r, "writing") /\ UNCHANGED reply
    BY <1>6 DEF Store
  <2>3. /\ stage' \in [Requests -> Stages] /\ reply' \in [Requests -> Replies]
        /\ stage'[r] = "writing" /\ ReplyInv(r)' /\ reply'[r] = None
        /\ \A q \in Requests \ {r} : stage'[q] = stage[q] /\ reply'[q] = reply[q]
    BY <1>0, <1>1, <2>1, <2>2, AtStep DEF Stages, Typed, ReplyInv
  <2>4. Typed' /\ CacheInv'
    BY <1>0, <1>1, <2>2, <2>3 DEF Typed, CacheInv, CacheKeys, Key
  <2>5. PermitInv(r)' /\ Obeys(r) /\ Others(r)
    BY <1>0, <1>1, <1>6, <2>1, <2>2, <2>3 DEF PermitInv, Others, Obeys
  <2> QED BY <2>3, <2>4, <2>5, OthersKeep
<1> QED BY <1>3, <1>4, <1>5, <1>6 DEF CallEnds, Answered

(* The signal and the timer of a wait. *)
LEMMA CancelKeeps ==
    ASSUME ChatInv, Sound, NEW r \in Requests, Cancel(r) \/ WaitTimeout(r)
    PROVE  ChatInv' /\ Obey
<1>0. Typed /\ CacheInv /\ PermitInv(r) /\ ReplyInv(r)
  BY Unpack
<1>1. UNCHANGED <<stage, opted, useCache, reply, found, entry, sets>>
  BY DEF Cancel, WaitTimeout, cacheVars
<1>2. /\ \/ caller'[r] = caller[r] /\ caller[r] # "waiting"
         \/ caller[r] = "waiting" /\ caller'[r] = "aborted" /\ r \in signalled'
         \/ caller[r] = "waiting" /\ caller'[r] = "timedOut"
      /\ \A q \in Requests \ {r} : caller'[q] = caller[q] /\ (q \in signalled' <=> q \in signalled)
      /\ signalled \subseteq signalled'
  <2>1. CASE Cancel(r)
    BY <2>1, AbortMoves DEF Cancel
  <2>2. CASE WaitTimeout(r)
    BY <2>2, TimeoutMoves DEF WaitTimeout
  <2> QED BY <2>1, <2>2
<1>3. Typed' /\ CacheInv'
  BY <1>0, <1>1 DEF Typed, CacheInv, CacheKeys, Key
<1>4. PermitInv(r)'
  BY <1>0, <1>1, <1>2 DEF PermitInv
<1>5. ReplyInv(r)'
  BY <1>0, <1>1, <1>2 DEF ReplyInv, Key
<1>6. Others(r) /\ Obeys(r)
  BY <1>0, <1>1, <1>2 DEF Others, Obeys, ReplyInv
<1> QED BY <1>3, <1>4, <1>5, <1>6, OthersKeep

(* Redis answers a lookup. *)
LEMMA GetKeeps ==
    ASSUME ChatInv, NEW r \in Requests, Get(r)
    PROVE  ChatInv' /\ Obey
<1>0. /\ Typed /\ CacheInv /\ PermitInv(r) /\ ReplyInv(r) /\ Key(r) \in CacheKeys
      /\ None # "destroyed"
  BY Unpack
<1>1. /\ stage[r] = "reading" /\ At(r, "read") /\ found' = [found EXCEPT ![r] = entry[Key(r)]]
      /\ UNCHANGED <<caller, signalled, opted, useCache, reply, entry, sets>>
  BY DEF Get, limiterVars, cacheVars
<1>2. /\ entry[Key(r)] \in Requests \cup {None}
      /\ entry[Key(r)] \in Requests => Key(entry[Key(r)]) = Key(r)
  BY <1>0 DEF Typed, CacheInv
<1>3. /\ found' \in [Requests -> Requests \cup {None}]
      /\ found'[r] = entry[Key(r)] /\ \A q \in Requests \ {r} : found'[q] = found[q]
  BY <1>0, <1>1, <1>2 DEF Typed
<1>4. /\ stage' \in [Requests -> Stages] /\ reply' \in [Requests -> Replies]
      /\ stage'[r] = "read" /\ ReplyInv(r)' /\ reply'[r] = None
      /\ \A q \in Requests \ {r} : stage'[q] = stage[q] /\ reply'[q] = reply[q]
  BY <1>0, <1>1, <1>2, <1>3, AtStep DEF Stages
<1>5. Typed' /\ CacheInv'
  BY <1>0, <1>1, <1>3, <1>4 DEF Typed, CacheInv, CacheKeys, Key
<1>6. PermitInv(r)' /\ Obeys(r) /\ Others(r)
  BY <1>0, <1>1, <1>3, <1>4 DEF PermitInv, Others, Obeys
<1> QED BY <1>4, <1>5, <1>6, OthersKeep

(* Redis applies commands, and a step of something else. *)
LEMMA RedisKeeps ==
    ASSUME ChatInv, UNCHANGED <<caller, signalled, stage, opted, useCache, reply, found>>,
           sets' \subseteq sets, entry' \in [CacheKeys -> Requests \cup {None}], CacheInv'
    PROVE  ChatInv' /\ Obey
<1>1. Typed' /\ \A r \in Requests : PermitInv(r)' /\ ReplyInv(r)'
  BY ChatInvParts DEF Typed, PermitInv, ReplyInv, Key
<1>2. Obey
  BY ChatInvParts DEF Obey, Obeys, ReplyInv
<1> QED BY <1>1, <1>2, ChatInvPartsNext

LEMMA ApplyKeeps ==
    ASSUME ChatInv, NEW r \in Requests, Apply(r) \/ Drop(r)
    PROVE  ChatInv' /\ Obey
<1>0. Typed /\ CacheInv /\ Key(r) \in CacheKeys
  BY Unpack
<1>1. /\ UNCHANGED <<caller, signalled, stage, opted, useCache, reply, found>>
      /\ r \in sets /\ sets' = sets \ {r}
      /\ entry' = [entry EXCEPT ![Key(r)] = IF @ = None THEN r ELSE @] \/ entry' = entry
  BY DEF Apply, Drop, limiterVars
<1>2. entry' \in [CacheKeys -> Requests \cup {None}]
  BY <1>0, <1>1 DEF Typed
<1>3. \A k \in CacheKeys : entry'[k] = entry[k] \/ (k = Key(r) /\ entry'[k] = r)
  BY <1>0, <1>1 DEF Typed
<1>4. r \in opted
  BY <1>0, <1>1 DEF Typed
<1>5. CacheInv'
  BY <1>0, <1>1, <1>3, <1>4 DEF CacheInv, CacheKeys, Key
<1> QED BY <1>1, <1>2, <1>5, RedisKeeps

LEMMA ExpireKeeps ==
    ASSUME ChatInv, NEW k \in CacheKeys, Expire(k)
    PROVE  ChatInv' /\ Obey
<1>0. Typed /\ CacheInv
  BY ChatInvParts
<1>1. /\ UNCHANGED <<caller, signalled, stage, opted, useCache, reply, found, sets>>
      /\ entry' = [entry EXCEPT ![k] = None]
  BY DEF Expire, limiterVars
<1>2. /\ entry' \in [CacheKeys -> Requests \cup {None}]
      /\ \A l \in CacheKeys : entry'[l] = entry[l] \/ entry'[l] = None
  BY <1>0, <1>1 DEF Typed
<1>3. CacheInv'
  BY <1>0, <1>1, <1>2, RequestsAssumption DEF CacheInv, CacheKeys, Key
<1> QED BY <1>1, <1>2, <1>3, RedisKeeps

LEMMA ChatInvStep ==
    ASSUME ChatInv, Sound, [Next]_vars
    PROVE  ChatInv' /\ Obey
<1>1. CASE UNCHANGED vars
  <2>1. Typed /\ CacheInv /\ UNCHANGED <<caller, signalled, stage, opted, useCache, reply, found, entry, sets>>
    BY <1>1, ChatInvParts DEF vars, limiterVars, cacheVars
  <2>2. CacheInv'
    BY <2>1 DEF CacheInv, CacheKeys, Key
  <2> QED BY <2>1, <2>2, RedisKeeps DEF Typed
<1>2. ASSUME NEW r \in Requests, Handle(r)
      PROVE  ChatInv' /\ Obey
  <2>1. CASE Bypass(r)
    BY <2>1, AcquireKeeps DEF Bypass
  <2> QED BY <1>2, <2>1, LookupKeeps, LookupEndsKeeps, AdmittedKeeps, EndsKeeps, CallEndsKeeps
          DEF Handle
<1>3. ASSUME NEW r \in Requests, Cancel(r) \/ WaitTimeout(r) \/ Redis(r)
      PROVE  ChatInv' /\ Obey
  BY <1>3, CancelKeeps, GetKeeps, ApplyKeeps DEF Redis
<1> QED BY <1>1, <1>2, <1>3, ExpireKeeps DEF Next

LEMMA ChatInvInit == Init => ChatInv
<1> SUFFICES ASSUME Init PROVE ChatInv
  OBVIOUS
<1>1. Typed
  BY DEF Init, Typed, Stages, Replies
<1>2. CacheInv
  BY RequestsAssumption DEF Init, CacheInv
<1>3. ASSUME NEW r \in Requests PROVE PermitInv(r)
  BY DEF Init, Limiter!Init, PermitInv
<1>4. ASSUME NEW r \in Requests PROVE ReplyInv(r)
  <2>1. None \notin Requests /\ None # "destroyed" /\ reply[r] = None /\ found[r] = None
    BY RequestsAssumption DEF Init
  <2> QED BY <2>1 DEF ReplyInv
<1> QED BY <1>1, <1>2, <1>3, <1>4, ChatInvParts

----------------------------------------------------------------------------
LP == INSTANCE ConcurrencyLimiterProofs WITH Callers <- Requests

(* The limiter of the proofs and that of the handlers are the same. *)
LEMMA SameOperations ==
    ASSUME NEW r \in Requests
    PROVE  /\ Limiter!acquire(r) <=> LP!acquire(r)
           /\ Limiter!onAbort(r) <=> LP!onAbort(r)
           /\ Limiter!onTimeout(r) <=> LP!onTimeout(r)
           /\ Limiter!release(r) <=> LP!release(r)
<1> USE DEF Limiter!End, LP!End, Limiter!Count, LP!Count
<1>1. Limiter!acquire(r) <=> LP!acquire(r)
  BY DEF Limiter!acquire, LP!acquire, Limiter!HasSlot, LP!HasSlot, Limiter!QueueFull,
         LP!QueueFull, Limiter!push, LP!push
<1>2. Limiter!remove(r) <=> LP!remove(r)
  BY DEF Limiter!remove, LP!remove
<1>3. Limiter!onAbort(r) <=> LP!onAbort(r)
  BY <1>2 DEF Limiter!onAbort, LP!onAbort, Limiter!Range, LP!Range
<1>4. Limiter!onTimeout(r) <=> LP!onTimeout(r)
  BY <1>2 DEF Limiter!onTimeout, LP!onTimeout
<1>5. Limiter!release(r) <=> LP!release(r)
  BY DEF Limiter!release, LP!release, Limiter!HandOver, LP!HandOver, Limiter!vars, LP!vars
<1> QED BY <1>1, <1>3, <1>4, <1>5

LEMMA SameSpec == Limiter!Spec => LP!Spec
<1>1. Limiter!Init => LP!Init
  BY DEF Limiter!Init, LP!Init, Limiter!Kinds, LP!Kinds
<1>2. [Limiter!Next]_(Limiter!vars) => [LP!Next]_(LP!vars)
  BY SameOperations DEF Limiter!Next, LP!Next, Limiter!vars, LP!vars
<1> QED BY <1>1, <1>2, PTL DEF Limiter!Spec, LP!Spec

LEMMA SameSound == LP!LimiterSound => Sound
  BY DEF LP!LimiterSound, LP!TypeOK, LP!Range, LP!In, LP!Kinds, LP!States,
         Sound, Limiter!TypeOK, Limiter!Range, Limiter!In, Limiter!Kinds, Limiter!States

(* The limiter stays sound under the handlers: slots, queue and counters   *)
(* agree, whatever is cancelled, timed out or answered from the cache.     *)
THEOREM LimiterStaysSound == Spec => []LP!LimiterSound
<1>1. LP!IsFiniteSet(Requests)
  BY RequestsAssumption DEF IsFiniteSet, LP!IsFiniteSet
<1>2. MaxConcurrent \in Nat \ {0} /\ MaxQueueSize \in Nat
  BY LimiterOptions
<1> QED BY <1>1, <1>2, HandlersUseLimiter, SameSpec, LP!LimiterIsSound, PTL

LEMMA ChatInvariant == Spec => [](ChatInv /\ Sound)
<1>1. ChatInv /\ Sound /\ [Next]_vars => ChatInv'
  BY ChatInvStep
<1> QED BY <1>1, ChatInvInit, LimiterStaysSound, SameSound, PTL DEF Spec

(* A permit covers the provider call and nothing else, whatever is         *)
(* cancelled when: no call runs without one, none is held during cache I/O *)
(* and no handler ends without giving its permit back (the finally of the  *)
(* route).                                                                 *)
THEOREM PermitsCover == Spec => []PermitsCoverCalls
  BY ChatInvariant, PTL DEF ChatInv

(* A cancelled request comes to nothing: from the abort of its signal on   *)
(* it gets no permit, starts no lookup, call or SET and is not answered;   *)
(* and only cancelled requests lose their socket (throwIfCancelled).       *)
THEOREM NoAnswerAfterCancel == Spec => CancelledComesToNothing
<1>1. ChatInv /\ Sound /\ [Next]_vars => [Obey]_vars
  BY ChatInvStep
<1>2. Spec => [][Obey]_vars
  BY <1>1, ChatInvariant, PTL DEF Spec
<1> QED BY <1>2 DEF CancelledComesToNothing, Obey, Obeys

(* An answer, fresh or cached, goes only to the owner and the request it   *)
(* was made for, and only opted-in answers are cached, whatever becomes of *)
(* the SET commands (chatCacheKey, put).                                   *)
THEOREM AnswersStayInScope == Spec => []AnswersInScope
  BY ChatInvariant, PTL DEF ChatInv
=============================================================================
