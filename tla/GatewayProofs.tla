---------------------------- MODULE GatewayProofs ----------------------------
(***************************************************************************)
(* What the gateway does beside its routes: the rate limit of a key, and   *)
(* the shutdown and the metrics of the process.                            *)
(***************************************************************************)
EXTENDS Gateway, TokenBucket, FiniteSetTheorems, TLAPS

(* The rate limit, for every capacity, rate, clock resolution and rounding *)
(* error.  The arithmetic of the script comes first; after that a state is *)
(* described by three facts only: its types, a time to live that runs from *)
(* the last write, and what a request would find.                          *)

LEMMA ProductMonotone ==
    ASSUME NEW a \in Int, NEW b \in Int, NEW p \in Nat, a <= b
    PROVE  a * p <= b * p
OBVIOUS

LEMMA ProductNext ==
    ASSUME NEW a \in Int, NEW p \in Nat
    PROVE  (a + 1) * p = a * p + p
OBVIOUS

LEMMA ProductNatural ==
    ASSUME NEW a \in Nat, NEW b \in Nat
    PROVE  a * b \in Nat
OBVIOUS

LEMMA CeilBounds ==
    ASSUME NEW a \in Int, NEW b \in Nat \ {0}
    PROVE  /\ CeilDiv(a, b) \in Int
           /\ CeilDiv(a, b) * b >= a
           /\ CeilDiv(a, b) * b < a + b
<1> DEFINE q == (a + b - 1) \div b
<1>1. q \in Int /\ q * b <= a + b - 1 /\ a + b - 1 < q * b + b
  OBVIOUS
<1> QED BY <1>1 DEF CeilDiv

LEMMA Sizes ==
    /\ Unit \in Nat \ {0} /\ PerTick \in Nat \ {0} /\ Second \in Nat \ {0}
    /\ Full \in Nat /\ Unit <= Full
    /\ PerSecond \in Nat \ {0}
    /\ Rounding \in Nat /\ Rounding <= Unit
<1>1. /\ Unit \in Nat \ {0} /\ PerTick \in Nat \ {0} /\ Second \in Nat \ {0}
      /\ Capacity \in Nat \ {0}
  BY PolicyAssumption
<1>2. Full \in Nat /\ PerSecond \in Nat \ {0}
  BY <1>1 DEF Full, PerSecond
<1>3. 1 * Unit <= Capacity * Unit
  BY <1>1, ProductMonotone
<1> QED BY <1>1, <1>2, <1>3, RoundingAssumption DEF Full

(* An empty bucket has filled up before it expires. *)
LEMMA TtlFills ==
    ASSUME NEW ttl \in Ttls
    PROVE  ttl \in Nat \ {0} /\ ttl * PerTick >= 2 * Full - Rounding
<1>0. PICK x \in Rounded(2 * Full) : ttl = Greater(1, CeilDiv(x, PerSecond)) * Second
  BY DEF Ttls
<1>a. x \in Int /\ x >= 2 * Full - Rounding
  BY Sizes DEF Rounded
<1> DEFINE c == CeilDiv(x, PerSecond)
           g == Greater(1, c)
<1>1. c \in Int /\ c * PerSecond >= x
  BY <1>a, Sizes, CeilBounds
<1>2. g \in Nat \ {0} /\ c <= g
  BY <1>1 DEF Greater
<1>3. c * PerSecond <= g * PerSecond
  BY <1>1, <1>2, Sizes, ProductMonotone
<1>4. ttl = g * Second
  BY <1>0
<1> HIDE DEF g
<1>5. (g * Second) * PerTick = g * PerSecond /\ g * Second \in Nat \ {0}
  BY <1>2, Sizes DEF PerSecond
<1> HIDE DEF c
<1>6. c * PerSecond \in Int /\ g * PerSecond \in Int
  BY <1>1, <1>2, Sizes
<1> QED BY <1>a, <1>1, <1>3, <1>4, <1>5, <1>6, Sizes

----------------------------------------------------------------------------
(* What a request would find, in the two kinds of states. *)

Types == /\ exists \in BOOLEAN
         /\ tokens \in 0..Full
         /\ {updatedAt, expiresAt, now, forward, allowed, losses, errors} \subseteq Nat
         /\ exists => expiresAt - updatedAt \in Ttls

(* The level at n of a bucket written at u with t units. *)
Level(t, u, n) == Lesser(Full, t + Greater(0, n - u) * PerTick)

LEMMA LevelFacts ==
    ASSUME NEW t \in 0..Full, NEW u \in Nat, NEW n \in Nat
    PROVE  /\ Level(t, u, n) \in 0..Full
           /\ u <= n => Level(t, u, n) = Lesser(Full, t + (n - u) * PerTick)
           /\ n <= u => Level(t, u, n) = t
<1> DEFINE d == Greater(0, n - u)
<1>1. /\ d \in Nat
      /\ u <= n => d = n - u
      /\ n <= u => d = 0
  BY DEF Greater
<1> HIDE DEF d
<1>2. d * PerTick \in Nat /\ 0 * PerTick = 0
  BY <1>1, Sizes
<1>3. Level(t, u, n) = Lesser(Full, t + d * PerTick)
  BY DEF Level, d
<1>4. d = 0 => Level(t, u, n) = Lesser(Full, t)
  BY <1>2, <1>3
<1> QED BY <1>1, <1>2, <1>3, <1>4, Sizes DEF Lesser

LEMMA LevelGrows ==
    ASSUME NEW t \in 0..Full, NEW u \in Nat, NEW n \in Nat, NEW k \in 0..n
    PROVE  /\ Level(t, u, n + 1) <= Level(t, u, n) + PerTick
           /\ Level(t, u, k) <= Level(t, u, n)
<1> DEFINE Facts(x) == /\ Level(t, u, x) \in 0..Full
                       /\ u <= x => Level(t, u, x) = Lesser(Full, t + (x - u) * PerTick)
                       /\ x <= u => Level(t, u, x) = t
<1>a. ASSUME NEW x \in Nat PROVE Facts(x)
  BY LevelFacts
<1>b. n + 1 \in Nat /\ k \in Nat /\ k <= n
  OBVIOUS
<1>0. Facts(n) /\ Facts(k) /\ Facts(n + 1)
  <2> HIDE DEF Facts
  <2> QED BY <1>a, <1>b
<1>1. CASE n < u
  BY <1>0, <1>1, <1>b, Sizes
<1>2. CASE u <= n
  <2>1. (n + 1 - u) * PerTick = (n - u) * PerTick + PerTick
    <3>1. ((n - u) + 1) * PerTick = (n - u) * PerTick + PerTick
      BY ProductNext, Sizes
    <3> QED BY <3>1
  <2>2. (n - u) * PerTick \in Nat /\ (n + 1 - u) * PerTick \in Nat
    BY <1>2, Sizes
  <2>3. Level(t, u, n + 1) <= Level(t, u, n) + PerTick
    BY <1>0, <1>2, <2>1, <2>2, Sizes DEF Lesser
  <2>4. CASE u <= k
    <3>1. (k - u) * PerTick <= (n - u) * PerTick /\ (k - u) * PerTick \in Nat
      BY <2>4, ProductMonotone, Sizes
    <3> QED BY <1>2, <2>2, <2>3, <2>4, <3>1, <1>0, Sizes DEF Lesser
  <2>5. CASE k < u
    <3>1. Level(t, u, k) = t
      BY <1>0, <1>b, <2>5
    <3> QED BY <1>0, <1>2, <2>2, <2>3, <3>1, Sizes DEF Lesser
  <2> QED BY <2>4, <2>5
<1> QED BY <1>1, <1>2

(* A bucket that has reached its time to live is full. *)
LEMMA LevelAtTtl ==
    ASSUME NEW t \in 0..Full, NEW u \in Nat, NEW n \in Nat, NEW ttl \in Ttls,
           u + ttl <= n
    PROVE  t + (n - u) * PerTick >= Full /\ Level(t, u, n) = Full
<1>0. ttl \in Nat
  BY TtlFills
<1>1. ttl * PerTick <= (n - u) * PerTick /\ (n - u) * PerTick \in Nat
  BY <1>0, ProductMonotone, Sizes
<1>2. ttl * PerTick \in Nat
  BY <1>0, Sizes
<1>3. t + (n - u) * PerTick >= Full
  BY <1>1, <1>2, TtlFills, Sizes
<1> QED BY <1>0, <1>1, <1>3, LevelFacts, Sizes DEF Lesser

(* So a request finds that level whether or not the key has expired. *)
FindsLevel == /\ Refilled = IF exists THEN Level(tokens, updatedAt, now) ELSE Full
              /\ Refilled \in 0..Full

LEMMA Found == Types => FindsLevel
<1> SUFFICES ASSUME Types PROVE FindsLevel
  OBVIOUS
<1> USE DEF FindsLevel
<1>1. CASE Live
  BY <1>1, LevelFacts DEF Types, Refilled, Live, Level, Inflow
<1>2. CASE ~exists
  BY <1>2, Sizes DEF Refilled, Live
<1>3. CASE exists /\ ~Live
  <2>1. expiresAt - updatedAt \in Ttls /\ updatedAt + (expiresAt - updatedAt) <= now
    BY <1>3 DEF Types, Live
  <2> QED BY <1>3, <2>1, LevelAtTtl, Sizes DEF Types, Refilled
<1> QED BY <1>1, <1>2, <1>3 DEF Live

LEMMA InflowNatural ==
    ASSUME Types
    PROVE  Inflow \in Nat
<1>1. Greater(0, now - updatedAt) \in Nat
  BY DEF Types, Greater
<1> QED BY <1>1, Sizes DEF Inflow

(* What a script takes for the level, and what it is. *)
LEMMA LevelsNear ==
    ASSUME Types, NEW level \in Levels
    PROVE  /\ level \in 0..Full
           /\ Refilled - Rounding <= level /\ level <= Refilled + Rounding
           /\ level < Unit => /\ Live
                              /\ level \in Rounded(tokens + Inflow)
                              /\ level = Refilled => level = tokens + Inflow
<1>0. /\ Refilled \in 0..Full /\ tokens \in 0..Full
      /\ ~Live => Refilled = Full
      /\ Live => Refilled = Lesser(Full, tokens + Inflow)
  BY Found DEF FindsLevel, Types, Refilled
<1>1. Inflow \in Nat
  BY InflowNatural
<1>2. CASE Live /\ Inflow > 0
  <2>1. PICK x \in Rounded(tokens + Inflow) : x >= tokens /\ level = Lesser(Full, x)
    BY <1>2 DEF Levels
  <2> QED BY <1>0, <1>1, <1>2, <2>1, Sizes DEF Rounded, Lesser
<1>3. CASE ~(Live /\ Inflow > 0)
  BY <1>0, <1>1, <1>3, Sizes DEF Levels, Rounded, Lesser
<1> QED BY <1>2, <1>3

----------------------------------------------------------------------------
(* The steps. *)

LEMMA ScriptStep ==
    ASSUME Types, NEW level \in 0..Full, Write(level),
           now' = now, {forward', allowed', losses', errors'} \subseteq Nat
    PROVE  Types' /\ Refilled' = level
<1>0. PICK ttl \in Ttls : expiresAt' = now + ttl
  BY DEF Write
<1>1. Types' /\ exists' /\ tokens' = level /\ updatedAt' = now
  <2>1. ttl \in Nat /\ now \in Nat
    BY TtlFills DEF Types
  <2>2. expiresAt' - now = ttl /\ expiresAt' \in Nat
    BY <1>0, <2>1
  <2> QED BY <2>2 DEF Types, Write
<1>2. FindsLevel'
  BY <1>1, Found, PTL
<1>3. Level(level, now, now) = level
  BY LevelFacts DEF Types
<1> QED BY <1>1, <1>2, <1>3 DEF FindsLevel

LEMMA ClockStep ==
    ASSUME Types, UNCHANGED bucketVars, {forward', allowed', losses', errors'} \subseteq Nat,
           NEW by \in {0, 1}, now' \in 0..now + by
    PROVE  Types' /\ Refilled' <= Refilled + by * PerTick
<1>1. Types' /\ FindsLevel /\ FindsLevel' /\ UNCHANGED <<exists, tokens, updatedAt>>
  <2>1. Types'
    BY DEF Types, bucketVars
  <2>2. FindsLevel /\ FindsLevel'
    BY <2>1, Found, PTL
  <2> QED BY <2>1, <2>2 DEF bucketVars
<1>2. Level(tokens, updatedAt, now') <= Level(tokens, updatedAt, now) + by * PerTick
  <2>0. by * PerTick \in Nat /\ 1 * PerTick = PerTick /\ now \in Nat
    BY Sizes DEF Types
  <2>a. Level(tokens, updatedAt, now) \in 0..Full
    BY <2>0, LevelFacts DEF Types
  <2>1. CASE now' \in 0..now
    <3>1. Level(tokens, updatedAt, now') <= Level(tokens, updatedAt, now)
      BY <2>1, LevelGrows DEF Types
    <3>2. Level(tokens, updatedAt, now') \in 0..Full
      BY <2>1, LevelFacts DEF Types
    <3> QED BY <2>0, <2>a, <3>1, <3>2, Sizes
  <2>2. CASE by = 1 /\ now' = now + 1
    BY <2>0, <2>a, <2>2, LevelGrows, Sizes DEF Types
  <2> QED BY <2>1, <2>2 DEF Types
<1> QED BY <1>1, <1>2, Sizes DEF FindsLevel

LEMMA InvStep == BucketInv /\ [BucketNext]_rateVars => BucketInv'
<1> SUFFICES ASSUME BucketInv, [BucketNext]_rateVars PROVE Types' /\ RateBounded'
  BY DEF BucketInv, Types
<1>0. Types /\ FindsLevel /\ RateBounded /\ Refilled \in 0..Full
  BY Found DEF BucketInv, Types, FindsLevel
<1>1. CASE UNCHANGED rateVars
  BY <1>0, <1>1 DEF rateVars, bucketVars, Types, RateBounded, Refilled, Live, Inflow
<1>2. ASSUME consume \/ consumeUnanswered
      PROVE  Types' /\ RateBounded'
  <2>0. now' = now /\ UNCHANGED <<forward, losses>> /\ allowed' \in {allowed, allowed + 1}
    BY <1>2 DEF consume, consumeUnanswered
  <2>1. PICK level \in Levels : /\ CountError(level)
                                /\ Take(level) \/ Refuse(level)
                                /\ Refuse(level) => allowed' = allowed
    <3>1. ASSUME NEW level \in Levels PROVE Take(level) /\ Refuse(level) => FALSE
      BY <1>0, LevelsNear, Sizes DEF Take, Refuse
    <3> QED BY <1>2, <3>1 DEF consume, consumeUnanswered
  <2>2. /\ level \in 0..Full /\ level <= Refilled + Rounding
    BY <1>0, LevelsNear
  <2>3. /\ errors' \in Nat
        /\ level + errors * Rounding <= Refilled + errors' * Rounding
    <3>1. (errors + 1) * Rounding = errors * Rounding + Rounding /\ errors * Rounding \in Nat
      BY <1>0, ProductNext, Sizes DEF Types
    <3>2. CASE level = Refilled /\ errors' = errors
      BY <1>0, <3>1, <3>2, Sizes DEF Types
    <3>3. CASE errors' = errors + 1
      BY <1>0, <2>2, <3>1, <3>3, Sizes DEF Types
    <3>4. (level = Refilled /\ errors' = errors) \/ errors' = errors + 1
      BY <2>1 DEF CountError
    <3> QED BY <3>2, <3>3, <3>4
  <2>a. errors * Rounding \in Nat /\ errors' * Rounding \in Nat /\ allowed * Unit \in Nat
    <3>1. errors \in Nat /\ errors' \in Nat /\ allowed \in Nat
      BY <1>0, <2>3 DEF Types
    <3> QED BY <3>1, ProductNatural, Sizes
  <2>b. (1 + losses) * Full \in Nat /\ forward * PerTick \in Nat
    BY <1>0, Sizes DEF Types
  <2>4. CASE Take(level)
    <3>1. level >= Unit /\ Write(level - Unit)
      BY <2>4 DEF Take
    <3>2. Types' /\ Refilled' = level - Unit
      BY <1>0, <2>0, <2>2, <2>3, <3>1, ScriptStep, Sizes DEF Types
    <3>3. (allowed + 1) * Unit = allowed * Unit + Unit
      BY <1>0, ProductNext, Sizes DEF Types
    <3>4. allowed' * Unit <= allowed * Unit + Unit /\ allowed' * Unit \in Nat
      BY <1>0, <2>0, <3>3, Sizes DEF Types
    <3> QED BY <1>0, <2>0, <2>2, <2>3, <2>a, <2>b, <3>2, <3>4, Sizes DEF RateBounded
  <2>5. CASE Refuse(level)
    <3>1. Types' /\ Refilled' = level
      BY <1>0, <2>0, <2>2, <2>3, <2>5, ScriptStep DEF Types, Refuse
    <3>2. allowed' = allowed
      BY <2>1, <2>5
    <3> QED BY <1>0, <2>0, <2>2, <2>3, <2>a, <2>b, <3>1, <3>2 DEF RateBounded
  <2> QED BY <2>1, <2>4, <2>5
<1>3. ASSUME Delete \/ Lose
      PROVE  Types' /\ RateBounded'
  <2>1. exists' \in BOOLEAN /\ ~exists' /\ Refilled' = Full
    BY <1>3 DEF Delete, Lose, Refilled, Live
  <2>2. /\ UNCHANGED <<tokens, updatedAt, expiresAt, now, forward, allowed, errors>>
        /\ losses' \in {losses, losses + 1}
    BY <1>3 DEF Delete, Lose
  <2>a. Types'
    BY <1>0, <2>1, <2>2 DEF Types
  <2>3. CASE Delete
    <3>1. Refilled = Full /\ losses' = losses
      BY <2>3 DEF Delete, Refilled
    <3> QED BY <1>0, <2>1, <2>2, <2>a, <3>1 DEF RateBounded
  <2>4. CASE Lose
    <3>1. ((1 + losses) + 1) * Full = (1 + losses) * Full + Full
      BY <1>0, ProductNext, Sizes DEF Types
    <3>2. (1 + losses') * Full = (1 + losses) * Full + Full
      BY <1>0, <2>4, <3>1 DEF Lose, Types
    <3>3. (1 + losses) * Full \in Nat /\ forward * PerTick \in Nat
          /\ errors * Rounding \in Nat /\ allowed * Unit \in Nat
      BY <1>0, Sizes DEF Types
    <3> QED BY <1>0, <2>1, <2>2, <2>a, <3>2, <3>3, Sizes DEF RateBounded
  <2> QED BY <1>3, <2>3, <2>4
<1>4. CASE Tick
  <2>1. Types' /\ Refilled' <= Refilled + 1 * PerTick
    BY <1>0, <1>4, ClockStep DEF Tick, Types
  <2>2. (forward + 1) * PerTick = forward * PerTick + PerTick
    BY <1>0, ProductNext, Sizes DEF Types
  <2>3. FindsLevel'
    BY <2>1, Found, PTL
  <2>4. UNCHANGED <<allowed, losses, errors>> /\ forward' = forward + 1
    BY <1>4 DEF Tick
  <2>5. /\ allowed * Unit \in Nat /\ (1 + losses) * Full \in Nat
        /\ forward * PerTick \in Nat /\ errors * Rounding \in Nat
    BY <1>0, Sizes DEF Types
  <2> QED BY <1>0, <2>1, <2>2, <2>3, <2>4, <2>5, Sizes DEF RateBounded, FindsLevel
<1>5. CASE StepBack
  <2>1. Types' /\ Refilled' <= Refilled + 0 * PerTick
    BY <1>0, <1>5, ClockStep DEF StepBack, Types
  <2>2. 0 * PerTick = 0
    BY Sizes
  <2>3. FindsLevel'
    BY <2>1, Found, PTL
  <2>4. UNCHANGED <<allowed, losses, errors, forward>>
    BY <1>5 DEF StepBack
  <2>5. /\ allowed * Unit \in Nat /\ (1 + losses) * Full \in Nat
        /\ forward * PerTick \in Nat /\ errors * Rounding \in Nat
    BY <1>0, Sizes DEF Types
  <2> QED BY <1>0, <2>1, <2>2, <2>3, <2>4, <2>5, Sizes DEF RateBounded, FindsLevel
<1> QED BY <1>1, <1>2, <1>3, <1>4, <1>5 DEF BucketNext

LEMMA BucketInductive == BucketSpec => []BucketInv
<1>1. BucketInit => BucketInv
  <2> SUFFICES ASSUME BucketInit PROVE BucketInv
    OBVIOUS
  <2>0. exists \in BOOLEAN /\ ~exists /\ Refilled = Full
    BY DEF BucketInit, Refilled, Live
  <2>1. Types /\ Refilled = Full
    BY <2>0, Sizes DEF BucketInit, Types
  <2>2. 0 * Unit = 0 /\ 0 * PerTick = 0 /\ (1 + 0) * Full = Full /\ 0 * Rounding = 0
    BY Sizes
  <2> QED BY <2>1, <2>2, Sizes DEF BucketInit, BucketInv, Types, RateBounded
<1> QED BY <1>1, InvStep, PTL DEF BucketSpec

(* The rate limit holds for every policy: what was let through and what    *)
(* could be is at most a full bucket, one for every loss of the data,      *)
(* what flowed in and what was rounded up (TOKEN_BUCKET_SCRIPT).           *)
THEOREM RateLimited == BucketSpec => []RateBounded
<1>1. BucketInv => RateBounded
  BY DEF BucketInv
<1> QED BY <1>1, BucketInductive, PTL

(* Whatever the policy, a key that expires belongs to a full bucket (the   *)
(* EXPIRE of the script).                                                  *)
THEOREM ExpiredWereFull == BucketSpec => []ExpiryUnnoticed
<1>1. BucketInv => ExpiryUnnoticed
  <2> SUFFICES ASSUME BucketInv, exists, ~Live
               PROVE  tokens + (now - updatedAt) * PerTick >= Full
    BY DEF ExpiryUnnoticed
  <2>1. expiresAt - updatedAt \in Ttls /\ updatedAt + (expiresAt - updatedAt) <= now
    BY DEF BucketInv, Live
  <2> QED BY <2>1, LevelAtTtl DEF BucketInv
<1> QED BY <1>1, BucketInductive, PTL

----------------------------------------------------------------------------
(* Retry-After. *)

(* The hint of a rejection is the first whole second with a token, as far  *)
(* as the script can tell.                                                 *)
LEMMA HintRounds ==
    ASSUME NEW level \in 0..Full, NEW after \in RetryAfters(level)
    PROVE  /\ after \in Nat \ {0}
           /\ (after * Second) * PerTick + level >= Unit - Rounding
           /\ \/ after * Second = Second
              \/ (after * Second - Second) * PerTick + level < Unit + Rounding
<1>0. PICK x \in Rounded(Unit - level) : after = Greater(1, CeilDiv(x, PerSecond))
  BY DEF RetryAfters
<1>a. x \in Int /\ x >= Unit - level - Rounding /\ x <= Unit - level + Rounding
  BY Sizes DEF Rounded
<1> DEFINE c == CeilDiv(x, PerSecond)
<1>1. c \in Int /\ c * PerSecond >= x /\ c * PerSecond < x + PerSecond
  BY <1>a, Sizes, CeilBounds
<1>2. /\ after \in Nat \ {0} /\ c <= after
      /\ after = 1 \/ after = c
  BY <1>0, <1>1 DEF Greater
<1> HIDE DEF c
<1>3. /\ (after * Second) * PerTick = after * PerSecond
      /\ (after * Second - Second) * PerTick = after * PerSecond - PerSecond
  BY <1>2, Sizes DEF PerSecond
<1>4. c * PerSecond <= after * PerSecond
  BY <1>1, <1>2, Sizes, ProductMonotone
<1>5. after * PerSecond \in Int /\ c * PerSecond \in Int
  BY <1>1, <1>2, Sizes
<1>6. after * PerSecond + level >= Unit - Rounding
  BY <1>a, <1>1, <1>4, <1>5, Sizes
<1>7. CASE after = 1
  BY <1>2, <1>3, <1>6, <1>7, Sizes
<1>8. CASE after = c
  BY <1>a, <1>1, <1>2, <1>3, <1>5, <1>6, <1>8, Sizes
<1> QED BY <1>2, <1>7, <1>8

(* How far the level may be off, d inexact levels after the hint. *)
Off(d) == (1 + d) * Rounding

LEMMA OffFacts ==
    ASSUME NEW d \in Nat
    PROVE  /\ Off(d) \in Nat /\ (2 + d) * Rounding = Off(d) + Rounding
           /\ Off(0) = Rounding /\ Off(d + 1) = Off(d) + Rounding
<1>1. ((1 + d) + 1) * Rounding = (1 + d) * Rounding + Rounding /\ (1 + d) * Rounding \in Nat
  BY ProductNext, Sizes
<1>2. (2 + d) * Rounding = ((1 + d) + 1) * Rounding /\ (1 + (d + 1)) * Rounding = ((1 + d) + 1) * Rounding
  BY Sizes
<1>3. (1 + 0) * Rounding = Rounding
  BY Sizes
<1> QED BY <1>1, <1>2, <1>3 DEF Off

(* The invariant in these terms. *)
DueAt(h, off) ==
    IF Live
    THEN /\ updatedAt <= now
         /\ (h - updatedAt) * PerTick + tokens >= Unit - off
         /\ \/ h - Second <= updatedAt
            \/ (h - Second - updatedAt) * PerTick + tokens < Unit + off
    ELSE h - Second <= now
Slack(off) == off + Rounding <= PerTick /\ off + Rounding <= Unit

HintDue == \/ hint = None
           \/ /\ hint \in Nat /\ since \in 0..errors
              /\ Slack(Off(errors - since)) => DueAt(hint, Off(errors - since))

LEMMA TightSlack ==
    ASSUME errors \in Nat, since \in 0..errors
    PROVE  /\ Off(errors - since) \in Nat
           /\ Tight <=> Slack(Off(errors - since))
           /\ (1 + errors - since) * Rounding = Off(errors - since)
<1>0. errors - since \in Nat
  OBVIOUS
<1>1. /\ Off(errors - since) \in Nat
      /\ (2 + (errors - since)) * Rounding = Off(errors - since) + Rounding
  BY <1>0, OffFacts
<1>2. 2 + errors - since = 2 + (errors - since) /\ 1 + errors - since = 1 + (errors - since)
  OBVIOUS
<1>3. (2 + errors - since) * Rounding = Off(errors - since) + Rounding
  BY <1>1, <1>2
<1>4. (1 + errors - since) * Rounding = Off(errors - since)
  BY <1>2 DEF Off
<1> QED BY <1>1, <1>3, <1>4, Sizes DEF Tight, Slack, Lesser

LEMMA HintParts == errors \in Nat => (HintInv <=> HintDue)
  BY TightSlack DEF HintInv, HintDue, DueAt

(* A bucket that expires while a hint stands was due. *)
LEMMA TickDue ==
    ASSUME Types, Tick, hint \in Nat, NEW off \in Nat, Slack(off), DueAt(hint, off)
    PROVE  DueAt(hint, off)'
<1>0. /\ UNCHANGED <<exists, tokens, updatedAt, expiresAt, hint>> /\ now' = now + 1
  BY DEF Tick, bucketVars, hintVars
<1>1. CASE ~Live
  BY <1>0, <1>1, Sizes DEF DueAt, Live, Types
<1>2. CASE Live /\ Live'
  BY <1>0, <1>2 DEF DueAt, Types
<1>3. CASE Live /\ ~Live'
  <2> DEFINE ttl == expiresAt - updatedAt
             gap == hint - Second - updatedAt
  <2>0. ttl \in Ttls /\ expiresAt <= now' /\ ttl \in Nat /\ gap \in Int
    <3>1. ttl \in Ttls /\ expiresAt <= now' /\ gap \in Int
      BY <1>0, <1>3, Sizes DEF Live, Types
    <3> QED BY <3>1, TtlFills
  <2>1. ttl * PerTick >= 2 * Full - Rounding /\ ttl * PerTick \in Int /\ gap * PerTick \in Int
    BY <2>0, TtlFills, Sizes
  <2>2. gap < ttl \/ hint - Second <= updatedAt
    <3> SUFFICES ASSUME gap >= ttl, gap * PerTick + tokens < Unit + off
                 PROVE  FALSE
      BY <1>3, <2>0 DEF DueAt
    <3>1. ttl * PerTick <= gap * PerTick
      BY <2>0, ProductMonotone, Sizes
    <3> HIDE DEF ttl, gap
    <3> QED BY <2>1, <3>1, Sizes DEF Slack, Types
  <2>3. updatedAt <= now
    BY <1>3 DEF DueAt
  <2> QED BY <1>0, <1>3, <2>0, <2>2, <2>3, Sizes DEF DueAt, Types
<1> QED BY <1>1, <1>2, <1>3

(* A rejected request that rounds by e moves what is due by e. *)
LEMMA RefuseDue ==
    ASSUME Types, NEW level \in 0..Full, Live, Write(level), now' = now, hint \in Nat,
           hint' = hint, NEW e \in Nat, tokens + Inflow - e <= level, level <= tokens + Inflow + e,
           NEW off \in Nat, DueAt(hint, off)
    PROVE  DueAt(hint, off + e)'
<1>0. /\ tokens \in Nat /\ {updatedAt, now, expiresAt} \subseteq Nat /\ updatedAt <= now
      /\ updatedAt' = now /\ tokens' = level
  BY DEF Types, DueAt, Write
<1>1. Live'
  <2>1. PICK ttl \in Ttls : expiresAt' = now + ttl
    BY DEF Write
  <2> QED BY <1>0, <2>1, TtlFills DEF Write, Live
<1>2. Inflow = (now - updatedAt) * PerTick /\ Inflow \in Int
  BY <1>0, Sizes DEF Inflow, Greater
<1>3. ASSUME NEW x \in Int
      PROVE  /\ (x - now) * PerTick + Inflow = (x - updatedAt) * PerTick
             /\ (x - now) * PerTick \in Int
  BY <1>0, <1>2, Sizes
<1> DEFINE a == (hint - now) * PerTick
           b == (hint - Second - now) * PerTick
<1>4. /\ a \in Int /\ a + Inflow = (hint - updatedAt) * PerTick
      /\ b \in Int /\ b + Inflow = (hint - Second - updatedAt) * PerTick
  BY <1>3, Sizes
<1>5. /\ a + Inflow + tokens >= Unit - off
      /\ hint - Second <= updatedAt \/ b + Inflow + tokens < Unit + off
  BY <1>4 DEF DueAt
<1> HIDE DEF a, b
<1>6. /\ a + level >= Unit - (off + e)
      /\ hint - Second <= now \/ b + level < Unit + (off + e)
  BY <1>0, <1>2, <1>4, <1>5, Sizes
<1> QED BY <1>0, <1>1, <1>6 DEF DueAt, a, b

LEMMA WatchDue ==
    ASSUME Types, NEW level \in 0..Full, Write(level), now' = now,
           NEW after \in RetryAfters(level), hint' = now + after * Second
    PROVE  hint' \in Nat /\ DueAt(hint, Rounding)'
<1>0. now \in Nat /\ updatedAt' = now /\ tokens' = level /\ after * Second \in Nat
  BY HintRounds, Sizes DEF Types, Write
<1>1. Live'
  <2>1. PICK ttl \in Ttls : expiresAt' = now + ttl
    BY DEF Write
  <2> QED BY <1>0, <2>1, TtlFills DEF Write, Live
<1>2. /\ hint' - now = after * Second
      /\ hint' - Second - now = after * Second - Second
  BY <1>0, Sizes
<1> QED BY <1>0, <1>1, <1>2, HintRounds, Sizes DEF DueAt

LEMMA HintStep == BucketInv /\ HintInv /\ [BucketNext]_rateVars => HintInv'
<1> SUFFICES ASSUME BucketInv, HintInv, [BucketNext]_rateVars, hint' # None PROVE HintDue'
  <2>1. BucketInv /\ [BucketNext]_rateVars => errors' \in Nat
    BY InvStep DEF BucketInv
  <2>2. (errors \in Nat => (HintInv <=> HintDue))'
    BY HintParts, PTL
  <2>3. hint' = None => HintInv'
    BY DEF HintInv
  <2> QED BY <2>1, <2>2, <2>3
<1>0. Types /\ HintDue /\ errors \in Nat
  BY HintParts DEF BucketInv, Types
<1>1. CASE UNCHANGED rateVars
  BY <1>0, <1>1 DEF rateVars, bucketVars, hintVars, HintDue, DueAt, Live
<1>2. CASE Delete
  BY <1>0, <1>2 DEF Delete, HintDue, DueAt, Live, hintVars
<1>3. CASE Lose \/ StepBack
  BY <1>3 DEF Lose, StepBack, Forget
<1>4. CASE Tick
  <2>1. UNCHANGED <<hint, since, errors>>
    BY <1>4 DEF Tick, hintVars
  <2>2. hint \in Nat /\ since \in 0..errors /\ errors - since \in Nat
    BY <1>0, <2>1 DEF HintDue
  <2>3. PICK off \in Nat : off = Off(errors - since)
    BY <2>2, OffFacts
  <2>4. Slack(off) => DueAt(hint, off)
    BY <1>0, <2>1, <2>3 DEF HintDue
  <2>5. Slack(off) => DueAt(hint, off)'
    BY <1>0, <1>4, <2>2, <2>4, TickDue
  <2>6. off = Off(errors' - since')
    BY <2>1, <2>3
  <2> QED BY <2>1, <2>2, <2>5, <2>6 DEF HintDue, DueAt
<1>5. ASSUME consume \/ consumeUnanswered
      PROVE  HintDue'
  <2>1. PICK level \in Levels : /\ CountError(level) /\ Refuse(level) /\ now' = now
                                /\ Watch(level) \/ UNCHANGED hintVars
    BY <1>5 DEF consume, consumeUnanswered, Take, Forget
  <2>2. /\ level \in 0..Full /\ level < Unit /\ Write(level) /\ Live
        /\ level \in Rounded(tokens + Inflow)
        /\ level = Refilled => level = tokens + Inflow
    BY <1>0, <2>1, LevelsNear DEF Refuse
  <2>3. errors' = errors + 1 \/ (errors' = errors /\ level = Refilled)
    BY <2>1 DEF CountError
  <2>4. CASE Watch(level)
    <3>1. PICK after \in RetryAfters(level) : hint' = now + after * Second
      BY <2>4 DEF Watch
    <3>2. hint' \in Nat /\ DueAt(hint, Rounding)'
      BY <1>0, <2>1, <2>2, <3>1, WatchDue
    <3>3. since' = errors' /\ errors' \in Nat /\ Off(errors' - since') = Rounding
      <4>1. since' = errors' /\ errors' \in Nat
        BY <1>0, <2>3, <2>4 DEF Watch
      <4>2. \A n \in Nat : n - n = 0
        OBVIOUS
      <4>3. errors' - since' = 0
        BY <4>1, <4>2
      <4> QED BY <4>1, <4>3, OffFacts
    <3> QED BY <3>2, <3>3 DEF HintDue, DueAt
  <2>5. CASE UNCHANGED hintVars
    <3>0. UNCHANGED <<hint, since>>
      BY <2>5 DEF hintVars
    <3>1. hint \in Nat /\ since \in 0..errors /\ errors - since \in Nat
      BY <1>0, <3>0 DEF HintDue
    <3>2. PICK off \in Nat : off = Off(errors - since)
      BY <3>1, OffFacts
    <3>3. PICK e \in Nat : /\ e = 0 \/ e = Rounding
                           /\ tokens + Inflow - e <= level /\ level <= tokens + Inflow + e
                           /\ Off(errors' - since') = off + e
      <4>0. level \in Int /\ Rounding \in Nat /\ tokens \in Nat /\ Inflow \in Nat
        BY <1>0, <2>2, Sizes, InflowNatural DEF Types
      <4>1. CASE errors' = errors /\ level = Refilled
        <5>1. level = tokens + Inflow /\ Off(errors' - since') = off + 0
          BY <2>2, <3>0, <3>2, <4>1
        <5>2. tokens + Inflow - 0 <= level /\ level <= tokens + Inflow + 0
          BY <4>0, <5>1
        <5> QED BY <5>1, <5>2
      <4>2. CASE errors' = errors + 1
        <5>1. errors' - since' = (errors - since) + 1
          BY <1>0, <3>0, <3>1, <4>2
        <5>2. Off(errors' - since') = off + Rounding
          BY <3>1, <3>2, <5>1, OffFacts
        <5>3. tokens + Inflow - Rounding <= level /\ level <= tokens + Inflow + Rounding
          BY <2>2, <4>0 DEF Rounded
        <5> QED BY <4>0, <5>2, <5>3
      <4> QED BY <2>3, <4>1, <4>2
    <3>4. ASSUME Slack(off + e) PROVE DueAt(hint, off + e)'
      <4>1. Slack(off)
        BY <3>4, <3>3, Sizes DEF Slack
      <4>2. DueAt(hint, off)
        BY <1>0, <3>0, <3>2, <4>1 DEF HintDue
      <4> QED BY <1>0, <2>1, <2>2, <3>0, <3>1, <3>3, <4>2, RefuseDue
    <3>5. hint' \in Nat /\ since' \in 0..errors'
      BY <1>0, <2>3, <3>0, <3>1
    <3> QED BY <3>3, <3>4, <3>5 DEF HintDue, DueAt
  <2> QED BY <2>1, <2>4, <2>5
<1> QED BY <1>1, <1>2, <1>3, <1>4, <1>5 DEF BucketNext

(* Retry-After is right to the millisecond for every policy: a client that *)
(* obeys it finds a token unless another took it, a second before it would *)
(* not have, and the rounding of rejected requests in between makes no     *)
(* difference as long as it adds up to less than a millisecond's inflow.   *)
THEOREM RetryAfterExact == BucketSpec => []RetryAfterSound
<1>1. BucketInit => HintInv
  BY DEF BucketInit, HintInv
<1>2. BucketInv /\ HintInv => RetryAfterSound
  <2> SUFFICES ASSUME BucketInv, HintInv, hint # None, Tight, NEW level \in Levels
               PROVE  /\ now > hint => level >= Unit
                      /\ hint - now > Second => level < Unit
    BY DEF RetryAfterSound
  <2>0. Types /\ HintDue /\ hint \in Nat /\ since \in 0..errors /\ errors \in Nat
    BY HintParts DEF BucketInv, Types, HintInv
  <2> DEFINE off == Off(errors - since)
  <2>1. off \in Nat /\ Slack(off) /\ off + Rounding <= PerTick
    BY <2>0, TightSlack DEF Slack
  <2>2. DueAt(hint, off)
    BY <2>0, <2>1 DEF HintDue
  <2>3. /\ level \in 0..Full /\ level <= Refilled + Rounding
        /\ level < Unit => Live /\ level \in Rounded(tokens + Inflow)
        /\ Refilled \in 0..Full
    BY <2>0, LevelsNear, Found DEF FindsLevel
  <2> HIDE DEF off
  <2>4. CASE ~Live
    BY <2>0, <2>2, <2>3, <2>4, Sizes DEF DueAt, Types
  <2>5. CASE Live
    <3>0. tokens \in Nat /\ updatedAt \in Nat /\ now \in Nat /\ updatedAt <= now
      BY <2>0, <2>2, <2>5 DEF Types, DueAt
    <3>1. Inflow = (now - updatedAt) * PerTick /\ Inflow \in Nat
      BY <3>0, Sizes DEF Inflow, Greater
    <3>2. Refilled <= tokens + Inflow
      BY <2>5, <3>0, <3>1, Sizes DEF Refilled, Lesser
    <3>3. ASSUME now > hint PROVE level >= Unit
      <4>1. ((hint - updatedAt) + 1) * PerTick <= (now - updatedAt) * PerTick
        BY <2>0, <3>0, <3>3, ProductMonotone, Sizes
      <4>2. /\ ((hint - updatedAt) + 1) * PerTick = (hint - updatedAt) * PerTick + PerTick
            /\ (hint - updatedAt) * PerTick \in Int
        BY <2>0, <3>0, ProductNext, Sizes
      <4>3. (hint - updatedAt) * PerTick + tokens >= Unit - off
        BY <2>2, <2>5 DEF DueAt
      <4>4. tokens + Inflow >= Unit + Rounding
        BY <2>1, <3>0, <3>1, <4>1, <4>2, <4>3, Sizes
      <4> QED BY <2>3, <3>0, <3>1, <4>4, Sizes DEF Rounded
    <3>4. ASSUME hint - now > Second PROVE level < Unit
      <4> DEFINE gap == hint - Second - updatedAt
      <4>1. gap \in Int /\ (now - updatedAt) + 1 <= gap
        BY <2>0, <3>0, <3>4, Sizes
      <4>2. gap * PerTick + tokens < Unit + off
        BY <2>0, <2>2, <2>5, <3>0, <3>4, Sizes DEF DueAt
      <4> HIDE DEF gap
      <4>3. ((now - updatedAt) + 1) * PerTick <= gap * PerTick /\ gap * PerTick \in Int
        BY <3>0, <4>1, ProductMonotone, Sizes
      <4>4. ((now - updatedAt) + 1) * PerTick = Inflow + PerTick
        BY <3>0, <3>1, ProductNext, Sizes
      <4> QED BY <2>1, <2>3, <3>0, <3>1, <3>2, <4>2, <4>3, <4>4, Sizes
    <3> QED BY <3>3, <3>4
  <2> QED BY <2>4, <2>5
<1> QED BY <1>1, <1>2, HintStep, BucketInductive, PTL DEF BucketSpec

----------------------------------------------------------------------------
(* Shutdown and metrics, for any number of requests and scrapers. *)

(* An answer "closed" needs a client that is closed. *)
LEMMA HandlerStep ==
    ASSUME NEW r \in Requests, Handler(r), DOMAIN answer = Requests
    PROVE  /\ UNCHANGED <<processVars, response, httpActive>> /\ stage[r] # "none"
           /\ \E s : stage' = [stage EXCEPT ![r] = s]
           /\ DOMAIN answer' = Requests
           /\ \A q \in Requests \ {r} : answer'[q] = answer[q]
           /\ answer'[r] = "closed" /\ answer[r] # "closed"
                 => redis = "closed" \/ pool # "open"
BY DEF Handler, Authenticated, Limited, Received, Queried, Selected, Handled, Step, Query,
       Goto, Reply

LEMMA RequestStep ==
    ASSUME ShutdownInv, NEW r \in Requests, Arrive(r) \/ Handler(r) \/ Finish(r) \/ Close(r)
    PROVE  ShutdownInv'
<1>1. CASE Arrive(r)
  <2>1. /\ response[r] = "none" /\ app = "open" /\ Ready /\ shutdown = "no"
        /\ response' = [response EXCEPT ![r] = "open"]
        /\ UNCHANGED <<startup, shutdown, app, redis, pool, unclean>>
    BY <1>1 DEF Arrive, ShutdownInv, processVars
  <2>2. pool = "open" /\ answer[r] # "closed"
    BY <2>1 DEF ShutdownInv, Ready, Failing, Torn
  <2>3. /\ answer' = answer \/ answer' = [answer EXCEPT ![r] = "answered"]
        /\ \E s : stage' = [stage EXCEPT ![r] = s]
    BY <1>1, <2>2 DEF Arrive, Query, Goto, Reply
  <2>4. answer'[r] # "closed" /\ \A q \in Requests \ {r} : answer'[q] = answer[q]
    BY <2>2, <2>3 DEF ShutdownInv
  <2>5. DOMAIN answer' = Requests
    BY <2>3 DEF ShutdownInv
  <2>6. /\ DOMAIN stage' = Requests
        /\ \A q \in Requests \ {r} : stage[q] = "none" => stage'[q] = "none"
    BY <2>3 DEF ShutdownInv
  <2> QED BY <2>1, <2>2, <2>4, <2>5, <2>6
          DEF ShutdownInv, ShutdownSparesClients, Connected, Ready, Failing, Torn
<1>2. CASE Handler(r)
  <2>1. /\ UNCHANGED <<startup, shutdown, app, redis, pool, unclean, response>>
        /\ Connected' = Connected /\ Ready' = Ready /\ Failing' = Failing /\ Torn' = Torn
    BY <1>2, HandlerStep DEF ShutdownInv, processVars, Connected, Ready, Failing, Torn
  <2>2. ASSUME NEW q \in Connected, answer'[q] = "closed" PROVE unclean
    BY <1>2, <2>2, HandlerStep DEF ShutdownInv, ShutdownSparesClients, Connected, Ready, Failing, Torn
  <2>3. ASSUME NEW q \in Requests, response[q] = "none"
        PROVE  answer'[q] = "none" /\ stage'[q] = "none"
    BY <1>2, <2>3, HandlerStep DEF ShutdownInv
  <2>4. DOMAIN answer' = Requests /\ DOMAIN stage' = Requests
    BY <1>2, HandlerStep DEF ShutdownInv
  <2> QED BY <2>1, <2>2, <2>3, <2>4 DEF ShutdownInv, ShutdownSparesClients
<1>3. CASE Finish(r) \/ Close(r)
  <2>1. /\ UNCHANGED <<startup, shutdown, app, redis, pool, unclean, answer, stage>>
        /\ r \in Connected
        /\ \E v \in {"finished", "closed"} : response' = [response EXCEPT ![r] = v]
    BY <1>3 DEF Finish, Close, processVars, Connected
  <2>2. Connected' \subseteq Connected
    BY <2>1 DEF Connected, ShutdownInv
  <2>3. /\ response' \in [Requests -> {"none", "open", "finished", "closed"}]
        /\ \A q \in Requests : response'[q] = "none" => response[q] = "none"
    BY <2>1 DEF ShutdownInv
  <2>4. Ready' = Ready /\ Failing' = Failing /\ Torn' = Torn
    BY <2>1 DEF Ready, Failing, Torn
  <2>5. ShutdownSparesClients'
    BY <2>1, <2>2, Zenon DEF ShutdownInv, ShutdownSparesClients
  <2>6. /\ Connected' # {} => Ready'
        /\ Torn' => unclean' \/ Connected' = {}
    BY <2>1, <2>2, <2>4 DEF ShutdownInv
  <2> QED BY <2>1, <2>3, <2>4, <2>5, <2>6 DEF ShutdownInv
<1> QED BY <1>1, <1>2, <1>3

LEMMA ProcessStep ==
    ASSUME ShutdownInv, UNCHANGED requestVars,
           Boot \/ Teardown \/ Signal \/ CloseEnds(FALSE) \/ MetricsClosed(FALSE)
    PROVE  ShutdownInv'
<1>0. UNCHANGED <<stage, answer, response>> /\ Connected' = Connected
  BY DEF requestVars, Connected
<1>1. CASE Boot
  <2>1. UNCHANGED <<shutdown, pool, unclean>>
    BY <1>1 DEF Boot, Booted, Listen, ListenMetrics
  <2>2. redis' = "closed" => redis = "closed"
    BY <1>1 DEF Boot, Booted, Listen, ListenMetrics
  <2>3. CASE Ready
    <3>1. Ready' /\ UNCHANGED app
      BY <1>1, <2>3 DEF Boot, Booted, Listen, ListenMetrics, Startup, Ready
    <3> QED BY <1>0, <2>1, <2>2, <2>3, <3>1 DEF ShutdownInv, ShutdownSparesClients, Ready, Failing, Torn
  <2>4. CASE ~Ready
    <3>1. Connected = {} /\ app # "open"
      BY <2>4 DEF ShutdownInv
    <3>2. ~Failing' => ~Failing
      BY <1>1 DEF Boot, Booted, Listen, ListenMetrics, Startup, Fails, Failing
    <3>3. app' = app \/ (app = "new" /\ app' = "open" /\ Ready')
      BY <1>1, <2>4 DEF Boot, Booted, Listen, ListenMetrics, Startup, Ready
    <3> QED BY <1>0, <2>1, <2>2, <3>1, <3>2, <3>3
            DEF ShutdownInv, ShutdownSparesClients, Torn
  <2> QED BY <2>3, <2>4
<1>2. CASE Signal
  BY <1>0, <1>2 DEF Signal, ShutdownInv, ShutdownSparesClients, Ready, Failing, Torn
<1>3. ASSUME NEW clean \in BOOLEAN, CloseEnds(clean) PROVE ShutdownInv'
  BY <1>0, <1>3 DEF CloseEnds, ShutdownInv, ShutdownSparesClients, Ready, Failing, Torn
<1>4. ASSUME NEW clean \in BOOLEAN, MetricsClosed(clean) PROVE ShutdownInv'
  BY <1>0, <1>4 DEF MetricsClosed, Startup, ShutdownInv, ShutdownSparesClients, Ready, Failing, Torn
<1>5. CASE PoolEnded
  BY <1>0, <1>5 DEF PoolEnded, ShutdownInv, ShutdownSparesClients, Ready, Failing, Torn
<1> QED BY <1>1, <1>2, <1>3, <1>4, <1>5 DEF Teardown

(* No request that somebody waits for finds a client closed, for any       *)
(* number of requests, unless app.close() rejected (shutdown, start).      *)
THEOREM ClientsSpared == Spec => []ShutdownSparesClients
<1>1. Init => ShutdownInv
  BY DEF Init, ShutdownInv, ShutdownSparesClients, Connected, Ready, Failing, Torn
<1>2. ShutdownInv /\ [Next]_vars => ShutdownInv'
  <2> SUFFICES ASSUME ShutdownInv, [Next]_vars PROVE ShutdownInv'
    OBVIOUS
  <2>1. CASE UNCHANGED <<processVars, requestVars>>
    BY <2>1 DEF processVars, requestVars, ShutdownInv, ShutdownSparesClients, Connected,
                Ready, Failing, Torn
  <2>2. CASE UNCHANGED vars
    BY <2>1, <2>2 DEF vars
  <2>3. CASE \/ \E s \in Scrapers : Scrape(s) \/ ScraperLeaves(s)
             \/ (\E n \in reads : Read(n)) \/ Timeout \/ Answer
    BY <2>1, <2>3 DEF Scrape, ScraperLeaves, Read, Timeout, Answer
  <2>4. CASE Boot \/ Teardown \/ Signal \/ CloseEnds(FALSE) \/ MetricsClosed(FALSE)
    <3>1. UNCHANGED requestVars
      BY <2>4 DEF Boot, Booted, Listen, ListenMetrics, Teardown, Signal, CloseEnds,
                  MetricsClosed, PoolEnded
    <3> QED BY <2>4, <3>1, ProcessStep
  <2> QED BY <2>2, <2>3, <2>4, RequestStep DEF Next
<1>3. ShutdownInv => ShutdownSparesClients
  BY DEF ShutdownInv
<1> QED BY <1>1, <1>2, <1>3, PTL DEF Spec

----------------------------------------------------------------------------
(* Metrics. *)

OpenOnes == {r \in Requests : response[r] = "open"}

LEMMA CountStep ==
    ASSUME CountInv, [Next]_vars
    PROVE  CountInv'
<1>0. /\ httpActive = Cardinality(OpenOnes) /\ IsFiniteSet(OpenOnes)
      /\ Cardinality(OpenOnes) \in Nat
  <2>1. IsFiniteSet(OpenOnes)
    BY RequestsAssumption, FS_Subset DEF OpenOnes
  <2> QED BY <2>1, FS_CardinalityType DEF CountInv, OpenOnes
<1>1. CASE UNCHANGED <<response, httpActive>>
  BY <1>1 DEF CountInv
<1>2. ASSUME NEW r \in Requests, Arrive(r) PROVE CountInv'
  <2>1. /\ r \notin OpenOnes /\ OpenOnes' = OpenOnes \cup {r}
        /\ response' \in [Requests -> {"none", "open", "finished", "closed"}]
    BY <1>2 DEF Arrive, OpenOnes, CountInv
  <2>2. Cardinality(OpenOnes') = Cardinality(OpenOnes) + 1
    BY <1>0, <2>1, FS_AddElement
  <2> QED BY <1>0, <1>2, <2>1, <2>2 DEF Arrive, OpenOnes, CountInv
<1>3. ASSUME NEW r \in Requests, Finish(r) \/ Close(r) PROVE CountInv'
  <2>1. /\ OpenOnes' = OpenOnes \ {r}
        /\ response' \in [Requests -> {"none", "open", "finished", "closed"}]
        /\ httpActive' = IF r \in OpenOnes THEN httpActive - 1 ELSE httpActive
    BY <1>3 DEF Finish, Close, OpenOnes, CountInv, Connected
  <2>2. Cardinality(OpenOnes') = IF r \in OpenOnes THEN Cardinality(OpenOnes) - 1
                                                   ELSE Cardinality(OpenOnes)
    BY <1>0, <2>1, FS_RemoveElement
  <2> QED BY <1>0, <2>1, <2>2 DEF OpenOnes, CountInv
<1>4. ASSUME NEW r \in Requests, Handler(r) PROVE UNCHANGED <<response, httpActive>>
  BY <1>4 DEF Handler, Authenticated, Limited, Received, Queried, Selected, Handled, Step
<1>5. ASSUME \/ Boot \/ Teardown \/ Signal \/ CloseEnds(FALSE) \/ MetricsClosed(FALSE)
             \/ \E s \in Scrapers : Scrape(s) \/ ScraperLeaves(s)
             \/ (\E n \in reads : Read(n)) \/ Timeout \/ Answer \/ UNCHANGED vars
      PROVE  UNCHANGED requestVars
  BY <1>5 DEF Boot, Booted, Listen, ListenMetrics, Teardown, Signal, CloseEnds,
              MetricsClosed, PoolEnded, Scrape, ScraperLeaves, Read, Timeout, Answer, vars
<1> QED BY <1>1, <1>2, <1>3, <1>4, <1>5 DEF Next, requestVars

(* Only the listener touches the gauges of the jobs. *)
LEMMA ListenerStep ==
    ASSUME [Next]_vars
    PROVE  \/ UNCHANGED metricsVars
           \/ \E s \in Scrapers : scrape(s) \/ Leave(s)
           \/ \E n \in reads, ok \in BOOLEAN : ReadEnds(n, ok)
           \/ ReadTimesOut
           \/ \E ok \in BOOLEAN : Encode(ok)
<1>1. ASSUME \/ Boot \/ Teardown \/ Signal \/ CloseEnds(FALSE) \/ MetricsClosed(FALSE)
             \/ UNCHANGED vars
      PROVE  UNCHANGED metricsVars
  BY <1>1 DEF Boot, Booted, Listen, ListenMetrics, Teardown, Signal, CloseEnds,
              MetricsClosed, PoolEnded, vars
<1>2. ASSUME NEW r \in Requests, Arrive(r) \/ Handler(r) \/ Finish(r) \/ Close(r)
      PROVE  UNCHANGED metricsVars
  BY <1>2 DEF Arrive, Handler, Authenticated, Limited, Received, Queried, Selected, Handled, Step,
              Finish, Close
<1> QED BY <1>1, <1>2 DEF Next, Scrape, ScraperLeaves, Read, Timeout, Answer

LEMMA ScrapeStep ==
    ASSUME ScrapeInv, [Next]_vars
    PROVE  ScrapeInv'
<1>0. NaN \notin Nat
  BY NaNAssumption
<1>1. CASE UNCHANGED metricsVars
  BY <1>1 DEF metricsVars, ScrapeInv, ScrapesTruthful, Waiting
<1>2. ASSUME NEW s \in Scrapers, scrape(s) PROVE ScrapeInv'
  <2>1. /\ scraper' = [scraper EXCEPT ![s] = "waiting"] /\ UNCHANGED <<depth, up, body>>
        /\ Waiting' = Waiting \cup {s} /\ scraper[s] = "idle"
    BY <1>2 DEF scrape, Waiting, ScrapeInv
  <2>2. CASE scraping = "no"
    <3>1. /\ collections' = collections + 1 /\ scraping' = "collecting"
          /\ reads' = reads \cup {collections + 1}
          /\ arrived' = [arrived EXCEPT ![s] = collections]
      BY <1>2, <2>2 DEF scrape, Collect
    <3>2. Waiting' = {s}
      BY <2>1, <2>2 DEF ScrapeInv
    <3>3. reads' \subseteq 1..collections' /\ collections' \in Nat /\ collections' > 0
      <4>1. collections \in Nat /\ reads \subseteq 1..collections
        BY Zenon DEF ScrapeInv
      <4>2. \A n \in 1..collections : n \in 1..collections + 1
        BY <4>1
      <4>3. collections + 1 \in 1..collections + 1 /\ collections + 1 \in Nat
            /\ collections + 1 > 0
        BY <4>1
      <4> QED BY <3>1, <4>1, <4>2, <4>3, Zenon
    <3>4. ~body'[s].sent
      BY <2>1 DEF ScrapeInv
    <3>5. ScrapesTruthful'
      <4> SUFFICES ASSUME NEW q \in Scrapers, body'[q].sent
                   PROVE  IF body'[q].up THEN body'[q].depth \in arrived'[q] + 1..collections'
                                         ELSE body'[q].depth = NaN
        BY Zenon DEF ScrapesTruthful
      <4>1. body'[q] = body[q] /\ arrived'[q] = arrived[q] /\ arrived[q] \in Nat
        BY <2>1, <3>1, <3>4 DEF ScrapeInv
      <4>2. IF body[q].up THEN body[q].depth \in arrived[q] + 1..collections
                          ELSE body[q].depth = NaN
        BY <4>1, Zenon DEF ScrapeInv, ScrapesTruthful
      <4>3. \A n \in arrived[q] + 1..collections : n \in arrived[q] + 1..collections + 1
        BY <4>1 DEF ScrapeInv
      <4> QED BY <3>1, <4>1, <4>2, <4>3, Zenon
    <3>6. /\ arrived' \in [Scrapers -> Nat] /\ DOMAIN scraper' = Scrapers
          /\ \A q \in Waiting' : arrived'[q] < collections'
      BY <2>1, <3>1, <3>2 DEF ScrapeInv
    <3>7. \A q \in Scrapers : body'[q].sent => scraper'[q] = "answered"
      BY <2>1, <3>4 DEF ScrapeInv
    <3>8. scraping' # "no" /\ scraping' # "encoding" /\ DOMAIN body' = Scrapers
      BY <2>1, <3>1 DEF ScrapeInv
    <3> QED BY <3>1, <3>3, <3>5, <3>6, <3>7, <3>8, Zenon DEF ScrapeInv
  <2>3. CASE scraping # "no"
    <3>1. /\ UNCHANGED <<collections, scraping, reads>>
          /\ arrived' = [arrived EXCEPT ![s] = collections - 1]
      BY <1>2, <2>3 DEF scrape
    <3>2. collections - 1 \in Nat /\ collections - 1 < collections
      <4>1. collections \in Nat /\ collections > 0
        BY <2>3, Zenon DEF ScrapeInv
      <4> QED BY <4>1
    <3>3. arrived' \in [Scrapers -> Nat] /\ \A q \in Waiting' : arrived'[q] < collections
      BY <2>1, <3>1, <3>2 DEF ScrapeInv, Waiting
    <3>4. ~body'[s].sent
      BY <2>1 DEF ScrapeInv
    <3>5. ScrapesTruthful'
      BY <2>1, <3>1, <3>4 DEF ScrapeInv, ScrapesTruthful
    <3>6. DOMAIN scraper' = Scrapers
          /\ \A q \in Scrapers : body'[q].sent => scraper'[q] = "answered"
      BY <2>1, <3>4 DEF ScrapeInv
    <3> QED BY <2>1, <2>3, <3>1, <3>3, <3>5, <3>6 DEF ScrapeInv
  <2> QED BY <2>2, <2>3
<1>3. ASSUME NEW s \in Scrapers, Leave(s) PROVE ScrapeInv'
  <2>1. Waiting' \subseteq Waiting
    BY <1>3 DEF Leave, Waiting, ScrapeInv
  <2> QED BY <1>3, <2>1 DEF Leave, Waiting, ScrapeInv, ScrapesTruthful
<1>4. ASSUME NEW n \in reads, NEW ok \in BOOLEAN, ReadEnds(n, ok) PROVE ScrapeInv'
  <2>1. reads' \subseteq reads /\ UNCHANGED <<collections, scraper, body, arrived, Waiting>>
    BY <1>4 DEF ReadEnds, Waiting
  <2>2. \/ UNCHANGED <<scraping, depth, up>>
        \/ /\ scraping = "collecting" /\ scraping' = "encoding"
           /\ depth' = (IF up' THEN collections ELSE NaN)
    BY <1>4 DEF ReadEnds, Show
  <2>3. /\ scraping' \in {"no", "collecting", "encoding"}
        /\ scraping' # "no" <=> scraping # "no"
        /\ scraping' = "encoding" => depth' = IF up' THEN collections ELSE NaN
    BY <2>2 DEF ScrapeInv
  <2>4. ScrapesTruthful'
    BY <2>1 DEF ScrapeInv, ScrapesTruthful
  <2> QED BY <2>1, <2>3, <2>4 DEF ScrapeInv
<1>5. CASE ReadTimesOut
  BY <1>5 DEF ReadTimesOut, Show, ScrapeInv, ScrapesTruthful, Waiting
<1>6. ASSUME NEW ok \in BOOLEAN, Encode(ok) PROVE ScrapeInv'
  <2>1. Waiting' = {}
    BY <1>6 DEF Encode, Waiting
  <2>2. /\ scraping = "encoding" /\ scraping' = "no"
        /\ UNCHANGED <<collections, reads, depth, up, arrived>>
        /\ DOMAIN scraper' = Scrapers /\ DOMAIN body' = Scrapers
    BY <1>6 DEF Encode
  <2>3. ASSUME NEW s \in Scrapers, body'[s].sent
        PROVE  /\ scraper'[s] = "answered"
               /\ IF body'[s].up THEN body'[s].depth \in arrived[s] + 1..collections
                                 ELSE body'[s].depth = NaN
    <3>1. CASE s \in Waiting /\ ok
      <4>1. scraper'[s] = "answered" /\ body'[s] = [sent |-> TRUE, depth |-> depth, up |-> up]
        BY <1>6, <3>1 DEF Encode
      <4>2. /\ depth = IF up THEN collections ELSE NaN
            /\ collections \in Nat /\ arrived[s] \in Nat /\ arrived[s] < collections
        BY <2>2, <3>1 DEF ScrapeInv
      <4>3. collections \in arrived[s] + 1..collections
        BY <4>2
      <4>4. body'[s].up = up /\ body'[s].depth = depth
        BY <4>1
      <4> QED BY <4>1, <4>2, <4>3, <4>4, Zenon
    <3>2. CASE ~(s \in Waiting /\ ok)
      <4>1. body'[s] = body[s] /\ (s \notin Waiting => scraper'[s] = scraper[s])
        BY <1>6, <3>2 DEF Encode
      <4>2. scraper[s] = "answered" /\ s \notin Waiting
        BY <2>3, <4>1 DEF ScrapeInv, Waiting
      <4> QED BY <2>3, <4>1, <4>2 DEF ScrapeInv, ScrapesTruthful
    <3> QED BY <3>1, <3>2
  <2>4. ScrapesTruthful'
    BY <2>2, <2>3, Zenon DEF ScrapesTruthful
  <2> QED BY <2>1, <2>2, <2>3, <2>4 DEF ScrapeInv
<1> QED BY <1>1, <1>2, <1>3, <1>4, <1>5, <1>6, ListenerStep

(* Whatever requests, scrapes, timers and the pool do: http_active is the  *)
(* number of open responses, and a scrape shows a fresh depth or none      *)
(* (observeHttp, scrape, bindQueueDepth).                                  *)
THEOREM MetricsAreTrue == Spec => []MetricsTruthful
<1>1. Init => CountInv /\ ScrapeInv
  <2> SUFFICES ASSUME Init PROVE CountInv /\ ScrapeInv
    OBVIOUS
  <2>1. {r \in Requests : response[r] = "open"} = {} /\ Waiting = {}
    BY DEF Init, MetricsInit, Waiting
  <2> QED BY <2>1, FS_EmptySet DEF Init, MetricsInit, CountInv, ScrapeInv, ScrapesTruthful
<1>2. CountInv /\ ScrapeInv /\ [Next]_vars => CountInv' /\ ScrapeInv'
  BY CountStep, ScrapeStep
<1>3. CountInv /\ ScrapeInv => MetricsTruthful
  BY DEF CountInv, ScrapeInv, MetricsTruthful
<1> QED BY <1>1, <1>2, <1>3, PTL DEF Spec
=============================================================================
