------------------------- MODULE ConcurrencyLimiter -------------------------
(***************************************************************************)
(* InMemoryConcurrencyLimiter: a semaphore with a bounded FIFO queue, used *)
(* by concurrent requests (callers), each of which acquires once.  A step  *)
(* is one call or one callback: JavaScript runs each to its end.           *)
(***************************************************************************)
EXTENDS Naturals, Sequences, FiniteSets, Functions

CONSTANTS Callers,
          MaxConcurrent, MaxQueueSize

ASSUME LimiterOptions == MaxConcurrent \in Nat \ {0} /\ MaxQueueSize \in Nat
ASSUME CallersAssumption == IsFiniteSet(Callers)

VARIABLES active, queue,
          counters, \* admitted, rejected, timedOut, aborted
          caller,   \* what has become of each acquire
          signalled \* the callers whose signal is aborted

vars == <<active, queue, counters, caller, signalled>>

Kinds  == {"admitted", "rejected", "timedOut", "aborted"}
States == Kinds \cup {"new", "waiting", "released"}

Count(k) == counters' = [counters EXCEPT ![k] = @ + 1]

(* The promise of c ends as k, and is counted. *)
End(c, k) == /\ caller' = [caller EXCEPT ![c] = k]
             /\ Count(k)

HasSlot == active < MaxConcurrent

QueueFull == Len(queue) >= MaxQueueSize

unshift(c) == queue' = <<c>> \o queue \* mutant
push(c) == queue' = Append(queue, c)

acquire(c) ==
    /\ caller[c] = "new"
    /\ \/ /\ c \in signalled
          /\ End(c, "aborted")
          /\ UNCHANGED <<active, queue>>
       \/ /\ c \notin signalled /\ HasSlot
          /\ active' = active + 1
          /\ End(c, "admitted")
          /\ UNCHANGED queue
       \/ /\ c \notin signalled /\ ~HasSlot /\ QueueFull
          /\ End(c, "rejected")
          /\ UNCHANGED <<active, queue>>
       \/ /\ c \notin signalled /\ ~HasSlot /\ ~QueueFull
          /\ push(c)
          /\ caller' = [caller EXCEPT ![c] = "waiting"]
          /\ UNCHANGED <<active, counters>>
    /\ UNCHANGED signalled

(* remove: indexOf and splice. *)
remove(c) == \E i \in DOMAIN queue :
                /\ queue[i] = c
                /\ queue' = SubSeq(queue, 1, i - 1) \o SubSeq(queue, i + 1, Len(queue))

(* The abort event; the listener of a waiter takes it out of the queue. *)
onAbort(c) ==
    /\ c \notin signalled
    /\ signalled' = signalled \cup {c}
    /\ \/ /\ remove(c)
          /\ End(c, "aborted")
          /\ UNCHANGED active
       \/ c \notin Range(queue) /\ UNCHANGED <<active, queue, counters, caller>>

(* The timer of a waiter; cleanup clears it when the wait ends otherwise. *)
onTimeout(c) ==
    /\ remove(c)
    /\ End(c, "timedOut")
    /\ UNCHANGED <<active, signalled>>

(* The first release of a permit hands its slot to the oldest waiter, and  *)
(* any further one does nothing.                                           *)
HandOver(c) ==
    \/ /\ queue = <<>>
       /\ active' = active - 1
       /\ caller' = [caller EXCEPT ![c] = "released"]
       /\ UNCHANGED <<queue, counters, signalled>>
    \/ /\ queue # <<>>
       /\ queue' = Tail(queue)
       /\ caller' = [caller EXCEPT ![c] = "released", ![Head(queue)] = "admitted"]
       /\ Count("admitted")
       /\ UNCHANGED <<active, signalled>>
releaseOnly(c) == \* mutant: no waiter is woken
    /\ caller[c] = "admitted"
    /\ active' = active - 1
    /\ caller' = [caller EXCEPT ![c] = "released"]
    /\ UNCHANGED <<queue, counters, signalled>>
releaseAgain(c) == caller[c] \in {"admitted", "released"} /\ HandOver(c) \* mutant
release(c) == \/ caller[c] = "admitted" /\ HandOver(c)
              \/ caller[c] = "released" /\ UNCHANGED vars

Init == /\ active = 0
        /\ queue = <<>>
        /\ counters = [k \in Kinds |-> 0]
        /\ caller = [c \in Callers |-> "new"]
        /\ signalled = {}

Next == \E c \in Callers : acquire(c) \/ onAbort(c) \/ onTimeout(c) \/ release(c)

Spec == Init /\ [][Next]_vars

(* Calls end, and the finally of the routes releases their permits.  No    *)
(* timer is assumed to fire.                                               *)
FairSpec == Spec /\ \A c \in Callers : WF_vars(release(c))

----------------------------------------------------------------------------
(* Properties. *)

In(s) == {c \in Callers : caller[c] \in s}

(* Every variable has its type. *)
TypeOK == /\ active \in Nat
          /\ queue \in Seq(Callers)
          /\ counters \in [Kinds -> Nat]
          /\ caller \in [Callers -> States]
          /\ signalled \subseteq Callers

(* Slots, queue and counters agree through hand-overs, timeouts and        *)
(* aborts.  The slots in use are the permits that are out, never above the *)
(* maximum; the queue holds every waiter once and within its bound, and    *)
(* nobody waits while a slot is free; each acquire is counted once, under  *)
(* what became of it (acquire, release).                                   *)
LimiterSound ==
    /\ TypeOK
    /\ active = Cardinality(In({"admitted"})) /\ active <= MaxConcurrent
    /\ Len(queue) = Cardinality(In({"waiting"})) /\ Range(queue) = In({"waiting"})
    /\ Len(queue) <= MaxQueueSize
    /\ queue # <<>> => active = MaxConcurrent
    /\ counters["admitted"] = Cardinality(In({"admitted", "released"}))
    /\ \A k \in Kinds \ {"admitted"} : counters[k] = Cardinality(In({k}))

(* Permits go out in the order of arrival: nobody who arrives later, and   *)
(* nobody further back in the queue, is admitted or moves ahead while an   *)
(* earlier caller goes on waiting.                                         *)
Ahead(c, d) == /\ caller[c] = "waiting"
               /\ \/ caller[d] = "new"
                  \/ \E i, k \in DOMAIN queue : i < k /\ queue[i] = c /\ queue[k] = d
FirstComeFirstServed ==
    [][\A c, d \in Callers :
          Ahead(c, d) /\ caller'[c] = "waiting"
              => caller'[d] # "admitted" /\ (caller'[d] = "waiting" => Ahead(c, d)')]_vars

(* A waiter is served, or gives up, without any timer: the slots that are  *)
(* released reach it.                                                      *)
WaitersServed == \A c \in Callers : (caller[c] = "waiting") ~> (caller[c] # "waiting")

(* The inductive invariant behind the first two. *)
LimiterInv ==
    /\ LimiterSound
    /\ \A i, k \in DOMAIN queue : queue[i] = queue[k] => i = k
=============================================================================
