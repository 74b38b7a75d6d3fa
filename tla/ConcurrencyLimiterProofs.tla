----------------------- MODULE ConcurrencyLimiterProofs -----------------------
(***************************************************************************)
(* The limiter for any finite number of callers, any limit and any queue.  *)
(* Every step moves one caller, or with a hand-over two, from one state to *)
(* another: the numbers of callers in the states follow from that.         *)
(***************************************************************************)
EXTENDS ConcurrencyLimiter, FiniteSetTheorems, SequenceTheorems, TLAPS

(* Most leaves are first-order; those with arithmetic or records name SMT. *)
USE Zenon

(* The number of callers that f puts in one of the states s. *)
Number(f, s) == Cardinality({c \in Callers : f[c] \in s})

(* f after caller c has gone to the state v. *)
Moved(f, c, v) == [f EXCEPT ![c] = v]

LEMMA NumberType ==
    ASSUME NEW f, NEW s
    PROVE  IsFiniteSet({c \in Callers : f[c] \in s}) /\ Number(f, s) \in Nat
<1>1. IsFiniteSet({c \in Callers : f[c] \in s})
  BY CallersAssumption, FS_Subset
<1> QED BY <1>1, FS_CardinalityType DEF Number

(* What a move from u to v does to the number of callers in the states s. *)
Changes(f, g, u, v, s) ==
    /\ (u \in s <=> v \in s) => Number(g, s) = Number(f, s)
    /\ u \notin s /\ v \in s => Number(g, s) = Number(f, s) + 1
    /\ u \in s /\ v \notin s => Number(g, s) = Number(f, s) - 1

LEMMA Moves ==
    ASSUME NEW f \in [Callers -> States], NEW c \in Callers, NEW v \in States, NEW s
    PROVE  Moved(f, c, v) \in [Callers -> States] /\ Changes(f, Moved(f, c, v), f[c], v, s)
<1> DEFINE g == Moved(f, c, v)
           F == {d \in Callers : f[d] \in s}
           G == {d \in Callers : g[d] \in s}
<1>0. IsFiniteSet(F) /\ Number(f, s) = Cardinality(F) /\ Number(g, s) = Cardinality(G)
  BY NumberType DEF Number
<1>4. g \in [Callers -> States] /\ g[c] = v /\ \A d \in Callers \ {c} : g[d] = f[d]
  BY DEF Moved
<1> HIDE DEF g
<1>1. (v \in s <=> f[c] \in s) => Number(g, s) = Number(f, s)
  <2>1. ASSUME v \in s <=> f[c] \in s PROVE F = G
    BY SMTT(20), <1>4, <2>1
  <2> QED BY <1>0, <2>1
<1>2. v \in s /\ f[c] \notin s => Number(g, s) = Number(f, s) + 1
  <2> SUFFICES ASSUME v \in s, f[c] \notin s PROVE Number(g, s) = Number(f, s) + 1
    OBVIOUS
  <2>1. G = F \cup {c} /\ c \notin F
    BY SMTT(20), <1>4
  <2>2. Cardinality(F \cup {c}) = Cardinality(F) + 1
    BY <1>0, <2>1, FS_AddElement
  <2> HIDE DEF F, G
  <2> QED BY <1>0, <2>1, <2>2
<1>3. v \notin s /\ f[c] \in s => Number(g, s) = Number(f, s) - 1
  <2> SUFFICES ASSUME v \notin s, f[c] \in s PROVE Number(g, s) = Number(f, s) - 1
    OBVIOUS
  <2>1. G = F \ {c} /\ c \in F
    BY SMTT(20), <1>4
  <2>2. Cardinality(F \ {c}) = Cardinality(F) - 1
    BY <1>0, <2>1, FS_RemoveElement
  <2> HIDE DEF F, G
  <2> QED BY <1>0, <2>1, <2>2
<1> QED BY <1>1, <1>2, <1>3, <1>4 DEF g, Changes

----------------------------------------------------------------------------
(* The invariant in terms of Number, one part for each piece of state. *)

Types == /\ active \in Nat /\ queue \in Seq(Callers) /\ counters \in [Kinds -> Nat]
         /\ caller \in [Callers -> States] /\ signalled \subseteq Callers

SlotsOK == active = Number(caller, {"admitted"}) /\ active <= MaxConcurrent

QueueOK == /\ Len(queue) = Number(caller, {"waiting"}) /\ Len(queue) <= MaxQueueSize
           /\ \A i \in 1..Len(queue) : caller[queue[i]] = "waiting"
           /\ \A c \in Callers : caller[c] = "waiting" => \E i \in 1..Len(queue) : queue[i] = c
           /\ \A i, k \in 1..Len(queue) : queue[i] = queue[k] => i = k

CountersOK == /\ counters["admitted"] = Number(caller, {"admitted", "released"})
              /\ counters["rejected"] = Number(caller, {"rejected"})
              /\ counters["timedOut"] = Number(caller, {"timedOut"})
              /\ counters["aborted"] = Number(caller, {"aborted"})

Parts == /\ Types /\ SlotsOK /\ QueueOK /\ CountersOK
         /\ queue # <<>> => active = MaxConcurrent

LEMMA PartsMean == Parts <=> LimiterInv
<1>1. Types <=> TypeOK
  BY DEF Types, TypeOK
<1>2. \A s : Number(caller, s) = Cardinality(In(s))
  BY DEF Number, In
<1>3. ASSUME Types
      PROVE  (Range(queue) = In({"waiting"})) <=>
                 /\ \A i \in 1..Len(queue) : caller[queue[i]] = "waiting"
                 /\ \A c \in Callers : caller[c] = "waiting"
                                          => \E i \in 1..Len(queue) : queue[i] = c
  <2>1. DOMAIN queue = 1..Len(queue) /\ \A i \in 1..Len(queue) : queue[i] \in Callers
    BY SMTT(20), <1>3 DEF Types
  <2> QED BY <2>1 DEF Range, In
<1>4. Types => DOMAIN queue = 1..Len(queue)
  BY SMTT(20) DEF Types
<1>5. CountersOK <=> /\ counters["admitted"] = Cardinality(In({"admitted", "released"}))
                     /\ \A k \in Kinds \ {"admitted"} : counters[k] = Cardinality(In({k}))
  BY <1>2 DEF CountersOK, Kinds
<1> QED BY <1>1, <1>2, <1>3, <1>4, <1>5 DEF Parts, SlotsOK, QueueOK, LimiterInv, LimiterSound

----------------------------------------------------------------------------
(* The steps. *)

(* An acquire ends as k and is counted; only "admitted" takes a slot. *)
LEMMA Ended ==
    ASSUME Parts, NEW c \in Callers, caller[c] \in {"new", "waiting"},
           NEW k \in Kinds, End(c, k)
    PROVE  /\ CountersOK'
           /\ caller' \in [Callers -> States] /\ counters' \in [Kinds -> Nat]
           /\ Number(caller', {"admitted"})
                = Number(caller, {"admitted"}) + (IF k = "admitted" THEN 1 ELSE 0)
           /\ Number(caller', {"waiting"})
                = Number(caller, {"waiting"}) - (IF caller[c] = "waiting" THEN 1 ELSE 0)
<1>0. /\ caller \in [Callers -> States] /\ k \in States /\ counters \in [Kinds -> Nat]
      /\ caller' = Moved(caller, c, k) /\ counters' = [counters EXCEPT ![k] = @ + 1]
  BY DEF Parts, Types, States, End, Count, Moved
<1>a. ASSUME NEW s PROVE Changes(caller, caller', caller[c], k, s)
  BY <1>0, Moves
<1>1. ASSUME NEW j \in Kinds, NEW s, \A x \in Kinds : x \in s <=> x = j,
             "new" \notin s, "waiting" \notin s, counters[j] = Number(caller, s)
      PROVE  counters'[j] = Number(caller', s)
  <2>0. caller[c] \notin s /\ (k \in s <=> k = j)
    BY <1>1
  <2>a. /\ k \in s => Number(caller', s) = Number(caller, s) + 1
        /\ k \notin s => Number(caller', s) = Number(caller, s)
    BY <1>a, <2>0 DEF Changes
  <2>1. CASE k = j
    <3>1. counters'[j] = counters[j] + 1
      BY <1>0, <2>1
    <3> QED BY <1>1, <2>0, <2>a, <2>1, <3>1
  <2>2. CASE k # j
    <3>1. counters'[j] = counters[j]
      BY <1>0, <2>2
    <3> QED BY <1>1, <2>0, <2>a, <2>2, <3>1
  <2> QED BY <2>1, <2>2
<1>2. CountersOK'
  <2> DEFINE Kind(j, s) == /\ j \in Kinds /\ "new" \notin s /\ "waiting" \notin s
                           /\ \A x \in Kinds : x \in s <=> x = j
                           /\ counters[j] = Number(caller, s)
  <2>1. /\ Kind("admitted", {"admitted", "released"}) /\ Kind("rejected", {"rejected"})
        /\ Kind("timedOut", {"timedOut"}) /\ Kind("aborted", {"aborted"})
    BY DEF Kinds, Parts, CountersOK
  <2>2. ASSUME NEW j, NEW s, Kind(j, s) PROVE counters'[j] = Number(caller', s)
    BY <1>1, <2>2
  <2> HIDE DEF Kind
  <2> QED BY <2>1, <2>2 DEF CountersOK
<1>3. Number(caller', {"admitted"})
        = Number(caller, {"admitted"}) + (IF k = "admitted" THEN 1 ELSE 0)
  <2>1. caller[c] \notin {"admitted"} /\ (k \in {"admitted"} <=> k = "admitted")
    OBVIOUS
  <2>2. /\ k \in {"admitted"} => Number(caller', {"admitted"}) = Number(caller, {"admitted"}) + 1
        /\ k \notin {"admitted"} => Number(caller', {"admitted"}) = Number(caller, {"admitted"})
    BY <1>a, <2>1 DEF Changes
  <2>3. Number(caller, {"admitted"}) \in Nat
    BY NumberType
  <2> QED BY SMTT(20), <2>1, <2>2, <2>3
<1>4. Number(caller', {"waiting"})
        = Number(caller, {"waiting"}) - (IF caller[c] = "waiting" THEN 1 ELSE 0)
  <2>1. k \notin {"waiting"} /\ (caller[c] \in {"waiting"} <=> caller[c] = "waiting")
    BY DEF Kinds
  <2> DEFINE s == {"waiting"}
  <2> HIDE DEF s
  <2>2. k \notin s => /\ caller[c] \in s => Number(caller', s) = Number(caller, s) - 1
                      /\ caller[c] \notin s => Number(caller', s) = Number(caller, s)
    BY <1>a DEF Changes
  <2>3. Number(caller, s) \in Nat
    BY NumberType
  <2> QED BY SMTT(20), <2>1, <2>2, <2>3 DEF s
<1>5. caller' \in [Callers -> States] /\ counters' \in [Kinds -> Nat]
  BY SMTT(20), <1>0, Moves
<1> QED BY <1>2, <1>3, <1>4, <1>5

(* The queue loses its i-th element. *)
Without(i) == /\ i \in 1..Len(queue)
              /\ queue' \in Seq(Callers) /\ Len(queue') = Len(queue) - 1
              /\ \A j \in 1..Len(queue') : queue'[j] = queue[IF j < i THEN j ELSE j + 1]

(* Where the m-th element of the queue goes when the i-th is taken out. *)
LEMMA Positions ==
    ASSUME Types, NEW i, Without(i)
    PROVE  /\ \A j \in 1..Len(queue') :
                  /\ (IF j < i THEN j ELSE j + 1) \in (1..Len(queue)) \ {i}
                  /\ queue'[j] = queue[IF j < i THEN j ELSE j + 1]
           /\ \A m \in (1..Len(queue)) \ {i} :
                  /\ (IF m < i THEN m ELSE m - 1) \in 1..Len(queue')
                  /\ queue'[IF m < i THEN m ELSE m - 1] = queue[m]
<1>1. Len(queue) \in Nat /\ Len(queue') = Len(queue) - 1 /\ i \in 1..Len(queue)
  BY SMTT(20) DEF Types, Without
<1>2. ASSUME NEW j \in 1..Len(queue')
      PROVE  /\ (IF j < i THEN j ELSE j + 1) \in (1..Len(queue)) \ {i}
             /\ queue'[j] = queue[IF j < i THEN j ELSE j + 1]
  BY SMTT(20), <1>1, <1>2 DEF Without
<1>3. ASSUME NEW m \in (1..Len(queue)) \ {i}
      PROVE  /\ (IF m < i THEN m ELSE m - 1) \in 1..Len(queue')
             /\ queue'[IF m < i THEN m ELSE m - 1] = queue[m]
  <2>1. CASE m < i
    <3>1. m \in 1..Len(queue')
      BY SMTT(20), <1>1, <2>1
    <3> QED BY <2>1, <3>1 DEF Without
  <2>2. CASE m > i
    <3>1. m - 1 \in 1..Len(queue') /\ ~(m - 1 < i) /\ (m - 1) + 1 = m /\ ~(m < i)
      BY SMTT(20), <1>1, <2>2
    <3>2. queue'[m - 1] = queue[(m - 1) + 1]
      BY <3>1 DEF Without
    <3> QED BY <3>1, <3>2
  <2> QED BY SMTT(20), <1>1, <2>1, <2>2
<1> QED BY <1>2, <1>3

(* The queue stays the queue of the waiters when it loses one that stops waiting. *)
LEMMA LosesOne ==
    ASSUME Types, QueueOK, NEW i, Without(i),
           Number(caller', {"waiting"}) = Number(caller, {"waiting"}) - 1,
           caller'[queue[i]] # "waiting",
           \A d \in Callers \ {queue[i]} : caller'[d] = "waiting" <=> caller[d] = "waiting"
    PROVE  QueueOK'
<1>0. /\ Len(queue) \in Nat /\ Len(queue') = Len(queue) - 1 /\ i \in 1..Len(queue)
      /\ \A m \in 1..Len(queue) : queue[m] \in Callers
  BY SMTT(20) DEF Types, Without
<1>1. Len(queue') = Number(caller', {"waiting"}) /\ Len(queue') <= MaxQueueSize
  BY SMTT(20), <1>0, LimiterOptions DEF QueueOK
<1>2. ASSUME NEW j \in 1..Len(queue') PROVE caller'[queue'[j]] = "waiting"
  <2>1. PICK m \in (1..Len(queue)) \ {i} : queue'[j] = queue[m]
    BY <1>2, Positions
  <2>2. queue[m] # queue[i] /\ caller[queue[m]] = "waiting"
    BY <1>0, <2>1 DEF QueueOK
  <2> QED BY <1>0, <2>1, <2>2
<1>3. ASSUME NEW d \in Callers, caller'[d] = "waiting"
      PROVE  \E j \in 1..Len(queue') : queue'[j] = d
  <2>1. d # queue[i] /\ caller[d] = "waiting"
    BY <1>3
  <2>2. PICK m \in (1..Len(queue)) \ {i} : queue[m] = d
    BY <2>1 DEF QueueOK
  <2> QED BY <2>2, Positions
<1>4. ASSUME NEW j \in 1..Len(queue'), NEW m \in 1..Len(queue'), queue'[j] = queue'[m]
      PROVE  j = m
  <2>1. (IF j < i THEN j ELSE j + 1) = (IF m < i THEN m ELSE m + 1)
    BY SMTT(20), <1>4, Positions DEF QueueOK
  <2> QED BY SMTT(20), <1>0, <2>1
<1> QED BY <1>1, <1>2, <1>3, <1>4 DEF QueueOK

(* A waiter leaves the queue from any place. *)
LEMMA Leaves ==
    ASSUME Parts, NEW c \in Callers, remove(c), NEW k \in Kinds \ {"admitted"}, End(c, k),
           active' = active, signalled' \subseteq Callers
    PROVE  Parts' /\ caller[c] = "waiting" /\ \E i : Without(i) /\ queue[i] = c
<1>1. PICK i \in 1..Len(queue) :
          /\ queue[i] = c
          /\ queue' = SubSeq(queue, 1, i - 1) \o SubSeq(queue, i + 1, Len(queue))
  <2>1. DOMAIN queue = 1..Len(queue)
    BY SMTT(20) DEF Parts, Types
  <2> QED BY <2>1 DEF remove
<1>2. caller[c] = "waiting"
  BY <1>1 DEF Parts, QueueOK
<1>3. Without(i)
  <2>1. queue \in Seq(Callers) /\ i \in 1..Len(queue)
    BY DEF Parts, Types
  <2>2. queue' = SubSeq(queue, 1, i - 1) \o SubSeq(queue, i + 1, Len(queue))
    BY <1>1
  <2>3. /\ SubSeq(queue, 1, i - 1) \in Seq(Callers)
        /\ SubSeq(queue, i + 1, Len(queue)) \in Seq(Callers)
        /\ Len(SubSeq(queue, 1, i - 1)) = i - 1
        /\ Len(SubSeq(queue, i + 1, Len(queue))) = Len(queue) - i
        /\ \A j \in 1..i - 1 : SubSeq(queue, 1, i - 1)[j] = queue[j]
        /\ \A j \in 1..Len(queue) - i : SubSeq(queue, i + 1, Len(queue))[j] = queue[j + i]
    BY SMTT(20), <2>1
  <2> DEFINE a == SubSeq(queue, 1, i - 1)
             b == SubSeq(queue, i + 1, Len(queue))
  <2> HIDE DEF a, b
  <2>4. /\ a \in Seq(Callers) /\ b \in Seq(Callers) /\ Len(a) = i - 1 /\ Len(b) = Len(queue) - i
        /\ \A j \in 1..i - 1 : a[j] = queue[j]
        /\ \A j \in 1..Len(queue) - i : b[j] = queue[j + i]
        /\ queue' = a \o b
    BY <2>2, <2>3 DEF a, b
  <2>5. queue' \in Seq(Callers) /\ Len(queue') = Len(queue) - 1
    <3>1. a \o b \in Seq(Callers) /\ Len(a \o b) = Len(a) + Len(b)
      BY <2>4, ConcatProperties
    <3>2. Len(queue) \in Nat /\ i \in Nat
      BY SMTT(20), <2>1
    <3> QED BY SMTT(20), <2>4, <3>1, <3>2
  <2>6. ASSUME NEW j \in 1..Len(queue')
        PROVE  queue'[j] = queue[IF j < i THEN j ELSE j + 1]
    <3>1. CASE j < i
      BY SMTT(20), <2>1, <2>4, <2>5, <2>6, <3>1
    <3>2. CASE j >= i
      <4>1. queue'[j] = b[j - (i - 1)] /\ j - (i - 1) \in 1..Len(queue) - i
        BY SMTT(20), <2>1, <2>4, <2>5, <2>6, <3>2
      <4>2. b[j - (i - 1)] = queue[j - (i - 1) + i] /\ j - (i - 1) + i = j + 1
        BY SMTT(20), <2>1, <2>4, <4>1, <2>5
      <4> QED BY SMTT(20), <2>1, <2>5, <3>2, <4>1, <4>2
    <3> QED BY SMTT(20), <2>1, <2>5, <3>1, <3>2
  <2> QED BY <2>5, <2>6 DEF Without
<1>4. Types' /\ SlotsOK' /\ CountersOK'
  BY SMTT(20), <1>2, <1>3, Ended DEF Parts, Types, SlotsOK, Without
<1>5. caller'[c] = k /\ k # "waiting" /\ \A d \in Callers \ {c} : caller'[d] = caller[d]
  BY DEF End, Kinds, Parts, Types
<1>6. QueueOK'
  BY <1>1, <1>2, <1>3, <1>5, Ended, LosesOne DEF Parts
<1>7. queue # <<>>
  BY SMTT(20), <1>1 DEF Parts, Types
<1> QED BY <1>1, <1>2, <1>3, <1>4, <1>6, <1>7 DEF Parts

(* An acquire ends at once: the queue stays as it is. *)
LEMMA EndsAtOnce ==
    ASSUME Parts, NEW c \in Callers, caller[c] = "new", NEW k \in Kinds, End(c, k),
           queue' = queue, signalled' = signalled,
           active' = active + (IF k = "admitted" THEN 1 ELSE 0), active' <= MaxConcurrent,
           queue # <<>> => active' = MaxConcurrent
    PROVE  Parts'
<1>1. /\ CountersOK' /\ caller' \in [Callers -> States] /\ counters' \in [Kinds -> Nat]
      /\ Number(caller', {"admitted"})
           = Number(caller, {"admitted"}) + (IF k = "admitted" THEN 1 ELSE 0)
      /\ Number(caller', {"waiting"}) = Number(caller, {"waiting"}) - 0
  BY Ended
<1>2. Number(caller, {"waiting"}) \in Nat
  BY NumberType
<1>3. Types' /\ SlotsOK'
  BY SMTT(20), <1>1 DEF Parts, Types, SlotsOK
<1>4. \A d \in Callers : caller'[d] = "waiting" <=> caller[d] = "waiting"
  BY DEF End, Kinds, Parts, Types
<1>5. QueueOK'
  <2>1. \A i \in 1..Len(queue) : queue[i] \in Callers
    BY SMTT(20) DEF Parts, Types
  <2> QED BY SMTT(20), <1>1, <1>2, <1>4, <2>1 DEF Parts, QueueOK
<1> QED BY <1>1, <1>3, <1>5 DEF Parts

(* An acquire joins the queue. *)
LEMMA Joins ==
    ASSUME Parts, NEW c \in Callers, caller[c] = "new", ~HasSlot, ~QueueFull, push(c),
           caller' = [caller EXCEPT ![c] = "waiting"],
           UNCHANGED <<active, counters, signalled>>
    PROVE  Parts'
<1>0. /\ caller \in [Callers -> States] /\ "waiting" \in States
      /\ caller' = Moved(caller, c, "waiting") /\ queue \in Seq(Callers)
  BY DEF Parts, Types, States, Moved
<1>1. ASSUME NEW s, "new" \notin s
      PROVE  /\ "waiting" \in s => Number(caller', s) = Number(caller, s) + 1
             /\ "waiting" \notin s => Number(caller', s) = Number(caller, s)
  <2>1. Changes(caller, Moved(caller, c, "waiting"), caller[c], "waiting", s)
    BY <1>0, Moves
  <2>2. Changes(caller, caller', "new", "waiting", s)
    BY <1>0, <2>1
  <2> QED BY <1>1, <2>2 DEF Changes
<1>2. /\ queue' \in Seq(Callers) /\ Len(queue') = Len(queue) + 1 /\ queue'[Len(queue) + 1] = c
      /\ \A i \in 1..Len(queue) : queue'[i] = queue[i]
  BY SMTT(20), <1>0, AppendProperties DEF push
<1>3. Types'
  BY SMTT(20), <1>0, <1>2, Moves DEF Parts, Types
<1>4. CountersOK'
  <2>1. /\ Number(caller', {"admitted", "released"}) = Number(caller, {"admitted", "released"})
        /\ Number(caller', {"rejected"}) = Number(caller, {"rejected"})
        /\ Number(caller', {"timedOut"}) = Number(caller, {"timedOut"})
        /\ Number(caller', {"aborted"}) = Number(caller, {"aborted"})
    BY <1>1
  <2> QED BY <2>1 DEF Parts, CountersOK
<1>5. SlotsOK' /\ active' = MaxConcurrent
  <2>1. Number(caller', {"admitted"}) = Number(caller, {"admitted"})
    BY <1>1
  <2> QED BY SMTT(20), <2>1, LimiterOptions DEF Parts, Types, SlotsOK, HasSlot
<1>6. QueueOK'
  <2>0. Len(queue) \in Nat /\ \A i \in 1..Len(queue) : queue[i] \in Callers
    BY SMTT(20), <1>0
  <2>1. Len(queue') = Number(caller', {"waiting"}) /\ Len(queue') <= MaxQueueSize
    <3>1. Number(caller', {"waiting"}) = Number(caller, {"waiting"}) + 1
      BY <1>1
    <3> QED BY SMTT(20), <1>2, <2>0, <3>1, LimiterOptions DEF Parts, QueueOK, QueueFull
  <2>2. /\ \A i \in 1..Len(queue) : queue[i] # c
        /\ caller'[c] = "waiting" /\ \A d \in Callers \ {c} : caller'[d] = caller[d]
    BY <1>0 DEF Parts, QueueOK
  <2>3. \A i \in 1..Len(queue') : i \in 1..Len(queue) \/ i = Len(queue) + 1
    BY SMTT(20), <1>2, <2>0
  <2>4. 1..Len(queue) \subseteq 1..Len(queue') /\ Len(queue) + 1 \in 1..Len(queue')
    BY SMTT(20), <1>2, <2>0
  <2>5. \A i \in 1..Len(queue') : caller'[queue'[i]] = "waiting"
    BY SMTT(20), <1>2, <2>0, <2>2, <2>3 DEF Parts, QueueOK
  <2>6. ASSUME NEW d \in Callers, caller'[d] = "waiting"
        PROVE  \E i \in 1..Len(queue') : queue'[i] = d
    <3>1. CASE d = c
      BY <1>2, <2>4, <3>1
    <3>2. CASE d # c
      BY SMTT(20), <1>2, <2>2, <2>4, <2>6, <3>2 DEF Parts, QueueOK
    <3> QED BY <3>1, <3>2
  <2>7. \A i, k \in 1..Len(queue') : queue'[i] = queue'[k] => i = k
    BY SMTT(20), <1>2, <2>2, <2>3 DEF Parts, QueueOK
  <2> QED BY <2>1, <2>5, <2>6, <2>7 DEF QueueOK
<1> QED BY <1>3, <1>4, <1>5, <1>6 DEF Parts

(* A permit comes back and nobody waits. *)
LEMMA Frees ==
    ASSUME Parts, NEW c \in Callers, caller[c] = "admitted", queue = <<>>,
           active' = active - 1, caller' = [caller EXCEPT ![c] = "released"],
           UNCHANGED <<queue, counters, signalled>>
    PROVE  Parts'
<1>0. /\ caller \in [Callers -> States] /\ "released" \in States
      /\ caller' = Moved(caller, c, "released")
  BY DEF Parts, Types, States, Moved
<1>a. ASSUME NEW s PROVE Changes(caller, caller', "admitted", "released", s)
  <2>1. Changes(caller, Moved(caller, c, "released"), caller[c], "released", s)
    BY <1>0, Moves
  <2> QED BY <1>0, <2>1
<1>1. ASSUME NEW s, "admitted" \in s <=> "released" \in s
      PROVE  Number(caller', s) = Number(caller, s)
  BY <1>a, <1>1 DEF Changes
<1>2. Number(caller', {"admitted"}) = Number(caller, {"admitted"}) - 1
  BY <1>a DEF Changes
<1>3. Number(caller', {"admitted"}) \in Nat
  BY NumberType
<1>4. Types' /\ SlotsOK'
  BY SMTT(20), <1>0, <1>2, <1>3, Moves, LimiterOptions DEF Parts, Types, SlotsOK
<1>5. CountersOK'
  <2>1. /\ Number(caller', {"admitted", "released"}) = Number(caller, {"admitted", "released"})
        /\ Number(caller', {"rejected"}) = Number(caller, {"rejected"})
        /\ Number(caller', {"timedOut"}) = Number(caller, {"timedOut"})
        /\ Number(caller', {"aborted"}) = Number(caller, {"aborted"})
    BY <1>1
  <2> QED BY <2>1 DEF Parts, CountersOK
<1>6. QueueOK'
  <2>1. Number(caller', {"waiting"}) = Number(caller, {"waiting"})
    BY <1>1
  <2>2. \A d \in Callers : caller'[d] = "waiting" <=> caller[d] = "waiting"
    BY <1>0 DEF Moved
  <2> QED BY SMTT(20), <2>1, <2>2 DEF Parts, QueueOK
<1> QED BY <1>4, <1>5, <1>6 DEF Parts

(* A permit comes back and the oldest waiter gets its slot. *)
LEMMA HandsOver ==
    ASSUME Parts, NEW c \in Callers, caller[c] = "admitted", queue # <<>>,
           queue' = Tail(queue), Count("admitted"),
           caller' = [caller EXCEPT ![c] = "released", ![Head(queue)] = "admitted"],
           UNCHANGED <<active, signalled>>
    PROVE  Parts' /\ Without(1)
<1> DEFINE h == queue[1]
<1>0. /\ Len(queue) \in Nat \ {0} /\ queue \in Seq(Callers) /\ h = Head(queue) /\ h \in Callers
      /\ caller[h] = "waiting" /\ h # c
  BY SMTT(20) DEF Parts, Types, QueueOK
<1>1. Without(1)
  BY SMTT(20), <1>0, HeadTailProperties DEF Without
<1> HIDE DEF h
<1>2. PICK g : g = Moved(caller, c, "released")
  OBVIOUS
<1>3. /\ caller \in [Callers -> States] /\ g \in [Callers -> States] /\ g[h] = "waiting"
      /\ "released" \in States /\ "admitted" \in States /\ caller' = Moved(g, h, "admitted")
      /\ caller'[h] = "admitted" /\ caller'[c] = "released"
      /\ \A d \in Callers \ {c, h} : caller'[d] = caller[d]
  BY <1>0, <1>2 DEF Parts, Types, States, Moved
<1>4. ASSUME NEW s PROVE Changes(caller, g, "admitted", "released", s)
  <2>1. Changes(caller, Moved(caller, c, "released"), caller[c], "released", s)
    BY <1>3, Moves
  <2> QED BY <1>2, <2>1
<1>5. ASSUME NEW s PROVE Changes(g, caller', "waiting", "admitted", s)
  <2>1. Changes(g, Moved(g, h, "admitted"), g[h], "admitted", s)
    BY <1>0, <1>3, Moves
  <2> QED BY <1>3, <2>1
<1>6. Types'
  <2>1. caller' \in [Callers -> States]
    BY <1>0, <1>3, Moves
  <2>2. counters' \in [Kinds -> Nat]
    BY SMTT(20) DEF Parts, Types, Count, Kinds
  <2> QED BY <1>1, <2>1, <2>2 DEF Parts, Types, Without
<1>7. SlotsOK'
  <2>1. Number(g, {"admitted"}) = Number(caller, {"admitted"}) - 1
    BY <1>4 DEF Changes
  <2>2. Number(caller', {"admitted"}) = Number(g, {"admitted"}) + 1
    BY <1>5 DEF Changes
  <2>3. Number(caller, {"admitted"}) \in Nat
    BY NumberType
  <2> QED BY SMTT(20), <2>1, <2>2, <2>3 DEF Parts, SlotsOK
<1>8. CountersOK'
  <2>1. /\ Number(g, {"admitted", "released"}) = Number(caller, {"admitted", "released"})
        /\ Number(g, {"rejected"}) = Number(caller, {"rejected"})
        /\ Number(g, {"timedOut"}) = Number(caller, {"timedOut"})
        /\ Number(g, {"aborted"}) = Number(caller, {"aborted"})
    BY <1>4 DEF Changes
  <2>2. /\ Number(caller', {"admitted", "released"}) = Number(g, {"admitted", "released"}) + 1
        /\ Number(caller', {"rejected"}) = Number(g, {"rejected"})
        /\ Number(caller', {"timedOut"}) = Number(g, {"timedOut"})
        /\ Number(caller', {"aborted"}) = Number(g, {"aborted"})
    BY <1>5 DEF Changes
  <2>3. /\ counters'["admitted"] = counters["admitted"] + 1
        /\ counters'["rejected"] = counters["rejected"]
        /\ counters'["timedOut"] = counters["timedOut"]
        /\ counters'["aborted"] = counters["aborted"]
    BY DEF Count, Parts, Types, Kinds
  <2> QED BY <2>1, <2>2, <2>3 DEF Parts, CountersOK
<1>9. QueueOK'
  <2>1. Number(g, {"waiting"}) = Number(caller, {"waiting"})
    BY <1>4 DEF Changes
  <2>2. Number(caller', {"waiting"}) = Number(caller, {"waiting"}) - 1
    BY <1>5, <2>1 DEF Changes
  <2>3. /\ caller'[queue[1]] # "waiting"
        /\ \A d \in Callers \ {queue[1]} : caller'[d] = "waiting" <=> caller[d] = "waiting"
    BY <1>3 DEF h
  <2> QED BY <1>1, <2>2, <2>3, LosesOne DEF Parts
<1> QED BY <1>1, <1>6, <1>7, <1>8, <1>9 DEF Parts

----------------------------------------------------------------------------
(* The order of the queue. *)

Ordered == \A c, d \in Callers :
               Ahead(c, d) /\ caller'[c] = "waiting"
                   => caller'[d] # "admitted" /\ (caller'[d] = "waiting" => Ahead(c, d)')

(* Nobody waits: there is no order to keep. *)
LEMMA NobodyWaits ==
    ASSUME Parts, queue = <<>>
    PROVE  Ordered
BY SMTT(20) DEF Parts, QueueOK, Ordered, Ahead

(* The order is kept when the queue stays and nobody starts waiting or is admitted. *)
LEMMA OrderStays ==
    ASSUME Parts, queue' = queue,
           \A d \in Callers : caller'[d] \in {"waiting", "admitted"} => caller'[d] = caller[d]
    PROVE  Ordered
<1> SUFFICES ASSUME NEW c \in Callers, NEW d \in Callers, Ahead(c, d), caller'[c] = "waiting"
             PROVE  caller'[d] # "admitted" /\ (caller'[d] = "waiting" => Ahead(c, d)')
  BY DEF Ordered
<1>1. CASE caller[d] = "new"
  BY <1>1
<1>2. ASSUME NEW i \in DOMAIN queue, NEW k \in DOMAIN queue, i < k, queue[i] = c, queue[k] = d
      PROVE  caller'[d] # "admitted" /\ (caller'[d] = "waiting" => Ahead(c, d)')
  <2>1. caller[d] = "waiting"
    BY SMTT(20), <1>2 DEF Parts, Types, QueueOK
  <2> QED BY <1>2, <2>1 DEF Ahead
<1> QED BY <1>1, <1>2 DEF Ahead

(* The order is kept when one leaves the queue, and only the first is admitted. *)
LEMMA OrderWithout ==
    ASSUME Parts, Types', NEW i, Without(i), caller'[queue[i]] # "waiting",
           caller'[queue[i]] = "admitted" => i = 1,
           \A d \in Callers \ {queue[i]} :
               caller'[d] \in {"waiting", "admitted"} => caller'[d] = caller[d]
    PROVE  Ordered
<1> SUFFICES ASSUME NEW c \in Callers, NEW d \in Callers, Ahead(c, d), caller'[c] = "waiting"
             PROVE  caller'[d] # "admitted" /\ (caller'[d] = "waiting" => Ahead(c, d)')
  BY DEF Ordered
<1>0. /\ DOMAIN queue = 1..Len(queue) /\ DOMAIN queue' = 1..Len(queue') /\ Len(queue) \in Nat
      /\ i \in 1..Len(queue) /\ caller[queue[i]] = "waiting" /\ c # queue[i]
  BY SMTT(20) DEF Parts, Types, Without, QueueOK
<1>1. CASE caller[d] = "new"
  BY <1>0, <1>1
<1>2. ASSUME NEW m \in DOMAIN queue, NEW k \in DOMAIN queue, m < k, queue[m] = c, queue[k] = d
      PROVE  caller'[d] # "admitted" /\ (caller'[d] = "waiting" => Ahead(c, d)')
  <2>1. caller[d] = "waiting" /\ m # i
    BY <1>0, <1>2 DEF Parts, QueueOK
  <2>2. CASE k = i
    BY SMTT(20), <1>0, <1>2, <2>2
  <2>3. CASE k # i
    <3>1. d # queue[i]
      BY <1>0, <1>2, <2>3 DEF Parts, QueueOK
    <3>2. PICK n \in 1..Len(queue') : n = (IF m < i THEN m ELSE m - 1) /\ queue'[n] = c
      BY SMTT(20), <1>0, <1>2, <2>1, Positions DEF Parts
    <3>a. k \in (1..Len(queue)) \ {i}
      BY <1>0, <1>2, <2>3
    <3>b. /\ (IF k < i THEN k ELSE k - 1) \in 1..Len(queue')
          /\ queue'[IF k < i THEN k ELSE k - 1] = queue[k]
      BY <3>a, Positions DEF Parts
    <3>3. PICK l \in 1..Len(queue') : l = (IF k < i THEN k ELSE k - 1) /\ queue'[l] = d
      BY <1>2, <3>b
    <3>4. n < l
      BY SMTT(20), <1>0, <1>2, <2>1, <2>3, <3>2, <3>3
    <3> QED BY <1>0, <2>1, <3>1, <3>2, <3>3, <3>4 DEF Ahead
  <2> QED BY <2>2, <2>3
<1> QED BY <1>1, <1>2 DEF Ahead

(* The order is kept when one joins at the end. *)
LEMMA OrderJoins ==
    ASSUME Parts, NEW e \in Callers, push(e), caller' = [caller EXCEPT ![e] = "waiting"]
    PROVE  Ordered
<1> SUFFICES ASSUME NEW c \in Callers, NEW d \in Callers, Ahead(c, d), caller'[c] = "waiting"
             PROVE  caller'[d] # "admitted" /\ (caller'[d] = "waiting" => Ahead(c, d)')
  BY DEF Ordered
<1>0. /\ Len(queue) \in Nat /\ DOMAIN queue = 1..Len(queue)
      /\ DOMAIN queue' = 1..(Len(queue) + 1) /\ queue'[Len(queue) + 1] = e
      /\ \A j \in 1..Len(queue) : queue'[j] = queue[j]
      /\ caller'[e] = "waiting" /\ \A x \in Callers \ {e} : caller'[x] = caller[x]
  BY SMTT(20), AppendProperties DEF push, Parts, Types
<1>1. CASE caller[d] = "new"
  <2>1. CASE d # e
    BY <1>0, <1>1, <2>1
  <2>2. CASE d = e
    <3>1. PICK i \in 1..Len(queue) : queue[i] = c
      BY DEF Ahead, Parts, QueueOK
    <3>2. i \in DOMAIN queue' /\ Len(queue) + 1 \in DOMAIN queue' /\ i < Len(queue) + 1
      BY SMTT(20), <1>0
    <3> QED BY <1>0, <2>2, <3>1, <3>2 DEF Ahead
  <2> QED BY <2>1, <2>2
<1>2. ASSUME NEW m \in DOMAIN queue, NEW k \in DOMAIN queue, m < k, queue[m] = c, queue[k] = d
      PROVE  caller'[d] # "admitted" /\ (caller'[d] = "waiting" => Ahead(c, d)')
  <2>1. caller[d] = "waiting"
    BY <1>0, <1>2 DEF Parts, QueueOK
  <2>2. m \in DOMAIN queue' /\ k \in DOMAIN queue'
    BY SMTT(20), <1>0, <1>2
  <2> QED BY <1>0, <1>2, <2>1, <2>2 DEF Ahead
<1> QED BY <1>1, <1>2 DEF Ahead

----------------------------------------------------------------------------
(* The theorems. *)

LEMMA Initially == Init => Parts
<1> SUFFICES ASSUME Init PROVE Parts
  OBVIOUS
<1>1. ASSUME NEW s, "new" \notin s PROVE Number(caller, s) = 0
  <2>1. {c \in Callers : caller[c] \in s} = {}
    BY <1>1 DEF Init
  <2> QED BY <2>1, FS_EmptySet DEF Number
<1>2. /\ Number(caller, {"admitted"}) = 0 /\ Number(caller, {"waiting"}) = 0
      /\ Number(caller, {"admitted", "released"}) = 0 /\ Number(caller, {"rejected"}) = 0
      /\ Number(caller, {"timedOut"}) = 0 /\ Number(caller, {"aborted"}) = 0
  BY <1>1
<1>3. Types
  BY SMTT(20) DEF Init, Types, Kinds, States
<1>4. SlotsOK /\ QueueOK
  BY SMTT(20), <1>2, LimiterOptions DEF Init, SlotsOK, QueueOK
<1>5. CountersOK
  BY <1>2 DEF Init, CountersOK, Kinds
<1> QED BY <1>3, <1>4, <1>5 DEF Parts, Init

LEMMA AcquireStep ==
    ASSUME Parts, NEW c \in Callers, acquire(c)
    PROVE  Parts' /\ Ordered
<1>0. /\ caller[c] = "new" /\ signalled' = signalled /\ active \in Nat /\ active <= MaxConcurrent
      /\ queue # <<>> => active = MaxConcurrent
      /\ Kinds = {"admitted", "rejected", "timedOut", "aborted"}
  BY DEF acquire, Parts, Types, SlotsOK, Kinds
<1>1. ASSUME NEW k \in Kinds \ {"admitted"}, End(c, k), UNCHANGED <<active, queue>>
      PROVE  Parts' /\ Ordered
  <2>1. Parts'
    BY SMTT(20), <1>0, <1>1, EndsAtOnce
  <2>2. \A d \in Callers : caller'[d] \in {"waiting", "admitted"} => caller'[d] = caller[d]
    BY <1>0, <1>1 DEF End, Parts, Types
  <2> QED BY <1>1, <2>1, <2>2, OrderStays
<1>2. ASSUME HasSlot, active' = active + 1, End(c, "admitted"), queue' = queue
      PROVE  Parts' /\ Ordered
  <2>1. queue = <<>> /\ active' <= MaxConcurrent
    BY SMTT(20), <1>0, <1>2, LimiterOptions DEF HasSlot
  <2> QED BY <1>0, <1>2, <2>1, EndsAtOnce, NobodyWaits
<1>3. ASSUME ~HasSlot, ~QueueFull, push(c), caller' = [caller EXCEPT ![c] = "waiting"],
             UNCHANGED <<active, counters>>
      PROVE  Parts' /\ Ordered
  BY <1>0, <1>3, Joins, OrderJoins
<1> QED BY <1>0, <1>1, <1>2, <1>3 DEF acquire

LEMMA LeaveStep ==
    ASSUME Parts, NEW c \in Callers, remove(c), NEW k \in Kinds \ {"admitted"}, End(c, k),
           active' = active, signalled' \subseteq Callers
    PROVE  Parts' /\ Ordered
<1>1. Parts'
  BY Leaves
<1>2. PICK i : Without(i) /\ queue[i] = c
  BY Leaves
<1>3. caller'[c] \notin {"waiting", "admitted"} /\ \A d \in Callers \ {c} : caller'[d] = caller[d]
  BY DEF End, Kinds, Parts, Types
<1> QED BY <1>1, <1>2, <1>3, OrderWithout DEF Parts

LEMMA ReleaseStep ==
    ASSUME Parts, NEW c \in Callers, caller[c] = "admitted", HandOver(c)
    PROVE  Parts' /\ Ordered
<1>1. CASE queue = <<>>
  BY <1>1, Frees, NobodyWaits DEF HandOver
<1>2. CASE queue # <<>>
  <2>1. Parts' /\ Without(1)
    BY <1>2, HandsOver DEF HandOver
  <2>2. /\ queue[1] = Head(queue) /\ queue[1] # c /\ queue[1] \in Callers
        /\ caller \in [Callers -> States]
    BY SMTT(20), <1>2, <2>1 DEF Parts, Types, QueueOK, Without
  <2>3. /\ caller'[queue[1]] = "admitted" /\ caller'[c] = "released"
        /\ \A d \in Callers \ {c, queue[1]} : caller'[d] = caller[d]
    BY <1>2, <2>2 DEF HandOver
  <2> QED BY <2>1, <2>3, OrderWithout DEF Parts
<1> QED BY <1>1, <1>2

LEMMA Steps == Parts /\ [Next]_vars => Parts' /\ (Ordered \/ UNCHANGED vars)
<1> SUFFICES ASSUME Parts, [Next]_vars PROVE Parts' /\ (Ordered \/ UNCHANGED vars)
  OBVIOUS
<1>0. signalled \subseteq Callers /\ "aborted" \in Kinds \ {"admitted"}
      /\ "timedOut" \in Kinds \ {"admitted"}
  BY DEF Parts, Types, Kinds
<1>1. ASSUME NEW c \in Callers, onAbort(c) PROVE Parts' /\ Ordered
  <2>1. CASE remove(c) /\ End(c, "aborted") /\ UNCHANGED active
    <3>1. signalled' \subseteq Callers
      BY <1>0, <1>1 DEF onAbort
    <3> QED BY <1>0, <2>1, <3>1, LeaveStep
  <2>2. CASE UNCHANGED <<active, queue, counters, caller>>
    <3>1. Parts'
      BY <1>0, <1>1, <2>2 DEF onAbort, Parts, Types, SlotsOK, QueueOK, CountersOK
    <3> QED BY <2>2, <3>1, OrderStays
  <2> QED BY <1>1, <2>1, <2>2 DEF onAbort
<1>2. ASSUME NEW c \in Callers, onTimeout(c) PROVE Parts' /\ Ordered
  BY <1>0, <1>2, LeaveStep DEF onTimeout
<1>3. CASE UNCHANGED vars
  BY <1>3 DEF vars, Parts, Types, SlotsOK, QueueOK, CountersOK
<1>4. ASSUME NEW c \in Callers, release(c) PROVE Parts' /\ (Ordered \/ UNCHANGED vars)
  BY <1>3, <1>4, ReleaseStep DEF release
<1> QED BY <1>1, <1>2, <1>3, <1>4, AcquireStep DEF Next

(* Slots, queue and counters of the limiter agree in every reachable state, *)
(* for any callers, limit and queue size (acquire, release).               *)
THEOREM LimiterIsSound == Spec => []LimiterSound
<1>1. Parts => LimiterSound
  BY PartsMean DEF LimiterInv
<1> QED BY <1>1, Initially, Steps, PTL DEF Spec

(* Permits go out in the order of arrival: a step never admits, nor moves  *)
(* ahead, a caller that is behind one that goes on waiting (push, shift).  *)
THEOREM ArrivalOrder == Spec => FirstComeFirstServed
<1>1. Parts /\ [Next]_vars => [Ordered]_vars
  BY Steps DEF vars
<1>2. Spec => [][Ordered]_vars
  BY <1>1, Initially, Steps, PTL DEF Spec
<1> QED BY <1>2 DEF Ordered, FirstComeFirstServed
=============================================================================
