----------------------------- MODULE TokenBucket -----------------------------
(***************************************************************************)
(* RedisTokenBucket: the bucket of one API key, and the script that every  *)
(* request of that key runs on it.  Redis runs a script atomically, on its *)
(* own clock, so one consume is one step.                                  *)
(*                                                                         *)
(* A token is Unit units, and PerTick units flow in for every tick         *)
(* (millisecond) of the clock.  The script calculates in doubles: what it  *)
(* adds up or divides comes out up to Rounding units beside its value.     *)
(* The clock moves forward and, when the server's time is corrected, back. *)
(***************************************************************************)
EXTENDS Integers

CONSTANTS Capacity,           \* of the bucket, in tokens
          Unit, PerTick,      \* units in a token, units refilled in a tick
          Second,             \* ticks in a second
          Rounding,           \* how far off a calculation may be, in units
          None,               \* no value
          MaxTime, MaxFaults, \* bounds: the clock, and corrections and losses
          MaxErrors           \* and the levels that come out inexact

(* validatePolicy *)
ASSUME PolicyAssumption == {Capacity, Unit, PerTick, Second} \subseteq Nat \ {0}
ASSUME RoundingAssumption == Rounding \in 0..Unit
ASSUME BoundsAssumption == {MaxTime, MaxFaults, MaxErrors} \subseteq Nat /\ None \notin Int

VARIABLES exists, tokens, updatedAt, expiresAt, \* the hash and its time to live
          now,      \* the clock of Redis
          forward,  \* how far the clock has moved forward in all
          allowed,  \* how many requests have been let through
          hint,     \* when one of the rejected requests was told to come back
          errors,   \* how many levels have come out inexact
          since,    \* how many of them before that hint
          faults, losses

bucketVars == <<exists, tokens, updatedAt, expiresAt>>
hintVars == <<hint, since>>
rateVars == <<bucketVars, now, forward, allowed, errors, hintVars, faults, losses>>

Lesser(a, b)  == IF a <= b THEN a ELSE b
Greater(a, b) == IF a >= b THEN a ELSE b
CeilDiv(a, b) == (a + b - 1) \div b

Full      == Capacity * Unit
PerSecond == PerTick * Second

Rounded(x) == (x - Rounding)..(x + Rounding)

(* EXPIRE: twice the time an empty bucket takes to fill, in whole seconds. *)
TtlsHalf == {Greater(1, CeilDiv(x, 2 * PerSecond)) * Second : x \in Rounded(Full)} \* mutant
Ttls == {Greater(1, CeilDiv(x, PerSecond)) * Second : x \in Rounded(2 * Full)}

Live == exists /\ now < expiresAt

Inflow == Greater(0, now - updatedAt) * PerTick

(* The tokens that are there: those stored and what has flowed in since.   *)
Refilled == IF Live THEN Lesser(Full, tokens + Inflow) ELSE Full

(* The tokens a request finds.  A sum is rounded, but to no less than what *)
(* was stored, and without an inflow it is exact.                          *)
Levels == IF Live /\ Inflow > 0
          THEN {Lesser(Full, x) : x \in {y \in Rounded(tokens + Inflow) : y >= tokens}}
          ELSE {Refilled}

RetryAftersFloor(level) == {Greater(1, x \div PerSecond) : x \in Rounded(Unit - level)} \* mutant
RetryAfters(level) == {Greater(1, CeilDiv(x, PerSecond)) : x \in Rounded(Unit - level)}

(* HSET, which writes every digit, and EXPIRE. *)
WriteTokens(level) == /\ exists'    = TRUE \* mutant: updated_at_ms is left as it is
                      /\ tokens'    = level
                      /\ updatedAt' = IF exists THEN updatedAt ELSE now
                      /\ \E ttl \in Ttls : expiresAt' = now + ttl
Write(level) == /\ exists'    = TRUE
                /\ tokens'    = level
                /\ updatedAt' = now
                /\ \E ttl \in Ttls : expiresAt' = now + ttl

(* The watched hint: of this rejection, or of an earlier one; forgotten    *)
(* when a request takes a token.                                           *)
Watch(level) == /\ \E after \in RetryAfters(level) : hint' = now + after * Second
                /\ since' = errors'
Forget == hint' = None /\ since' = 0

CountError(level) == \/ level = Refilled /\ errors' = errors
                     \/ level # Refilled /\ errors < MaxErrors /\ errors' = errors + 1

(* The script, which takes a token or only stores what it found. *)
Take(level) == /\ level >= Unit
               /\ Write(level - Unit)
               /\ Forget
Refuse(level) == level < Unit /\ Write(level)

(* consume: the decision reaches the caller. *)
consume ==
    /\ \E level \in Levels :
          /\ CountError(level)
          /\ \/ Take(level) /\ allowed' = allowed + 1
             \/ Refuse(level) /\ (Watch(level) \/ UNCHANGED hintVars) /\ UNCHANGED allowed
    /\ UNCHANGED <<now, forward, faults, losses>>

Fault == faults < MaxFaults /\ faults' = faults + 1

(* The script runs, but its reply is lost: RateLimiterUnavailableError. *)
consumeUnanswered ==
    /\ Fault
    /\ \E level \in Levels :
          /\ CountError(level)
          /\ Take(level) \/ (Refuse(level) /\ UNCHANGED hintVars)
    /\ UNCHANGED <<now, forward, allowed, losses>>

(* Redis deletes an expired key. *)
Delete == /\ exists /\ ~Live
          /\ exists' = FALSE
          /\ UNCHANGED <<tokens, updatedAt, expiresAt, now, forward, allowed, errors, hintVars,
                         faults, losses>>

(* Redis restarts without its data. *)
Lose == /\ exists /\ Fault
        /\ exists' = FALSE
        /\ losses' = losses + 1
        /\ Forget
        /\ UNCHANGED <<tokens, updatedAt, expiresAt, now, forward, allowed, errors>>

Tick == /\ now < MaxTime
        /\ now' = now + 1
        /\ forward' = forward + 1
        /\ UNCHANGED <<bucketVars, allowed, errors, hintVars, faults, losses>>

(* The clock is set back. *)
StepBack == /\ Fault
            /\ now' \in 0..now
            /\ Forget
            /\ UNCHANGED <<bucketVars, forward, allowed, errors, losses>>

BucketInit == /\ exists = FALSE /\ tokens = 0 /\ updatedAt = 0 /\ expiresAt = 0
              /\ now = 0 /\ forward = 0
              /\ allowed = 0
              /\ errors = 0 /\ hint = None /\ since = 0
              /\ faults = 0 /\ losses = 0

BucketNext == consume \/ consumeUnanswered \/ Delete \/ Lose \/ Tick \/ StepBack

BucketSpec == BucketInit /\ [][BucketNext]_rateVars

----------------------------------------------------------------------------
(* Properties. *)

(* The rate limit: what has been let through, and what could be let        *)
(* through at this moment, is at most one full bucket, what flowed in      *)
(* while the clock moved forward and what was rounded up.  The time to     *)
(* live does not refill a bucket early, a clock that is set back does not  *)
(* either, and only a loss of the data forgets what was spent.             *)
RateBounded == allowed * Unit + Refilled
                  <= (1 + losses) * Full + forward * PerTick + errors * Rounding

(* The rounding that has piled up since the hint, and that of the hint and *)
(* of the next request, is less than a tick's inflow and than a token.     *)
Tight == (2 + errors - since) * Rounding <= Lesser(PerTick, Unit)

(* Retry-After is right to the millisecond: a client that comes back after *)
(* the hinted moment finds a token, unless another request took it, and    *)
(* more than a second before then it would not have; other rejected        *)
(* requests, which store what they find rounded, do not postpone it        *)
(* (retry_after_seconds of the script).                                    *)
RetryAfterSound ==
    hint # None /\ Tight =>
        \A level \in Levels : /\ now > hint => level >= Unit
                              /\ hint - now > Second => level < Unit

(* A bucket that expires had filled up, so no client can tell (the EXPIRE  *)
(* of the script).                                                         *)
ExpiryUnnoticed ==
    exists /\ ~Live => tokens + (now - updatedAt) * PerTick >= Full

(* The inductive invariant behind them: a bucket expires a time to live    *)
(* after its last write, and the bound holds for what is there.            *)
BucketInv ==
    /\ exists \in BOOLEAN
    /\ tokens \in 0..Full
    /\ {updatedAt, expiresAt, now, forward, allowed, losses, errors} \subseteq Nat
    /\ exists => expiresAt - updatedAt \in Ttls
    /\ RateBounded

(* And the one behind Retry-After: the clock has only moved forward since  *)
(* the hint, which is, but for the rounding since then, the first whole    *)
(* second at which the bucket as it is stored holds a token; a bucket that *)
(* is gone was due by then.                                                *)
HintInv ==
    hint # None =>
        /\ hint \in Nat /\ since \in 0..errors
        /\ Tight =>
              IF Live
              THEN /\ updatedAt <= now
                   /\ (hint - updatedAt) * PerTick + tokens
                         >= Unit - (1 + errors - since) * Rounding
                   /\ \/ hint - Second <= updatedAt
                      \/ (hint - Second - updatedAt) * PerTick + tokens
                            < Unit + (1 + errors - since) * Rounding
              ELSE hint - Second <= now
=============================================================================
