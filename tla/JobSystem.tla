------------------------------ MODULE JobSystem ------------------------------
(***************************************************************************)
(* The asynchronous job system: gateways that submit jobs, worker          *)
(* processes that dispatch, execute and maintain them, the job table and   *)
(* the broker.  One step is what runs between two awaits of the code.      *)
(*                                                                         *)
(* A worker is its dispatcher loop (pc, tx) and the deliveries its         *)
(* consumer has accepted (phase, task), at most one per prefetch slot.     *)
(***************************************************************************)
EXTENDS PostgresJobStore, RabbitMqBroker

CONSTANTS Slots,     \* prefetch: the deliveries a consumer may hold
          Gateways,  \* concurrent submissions
          MaxFaults  \* bound: crashes, lost connections, failed statements, signals

ASSUME MaxFaultsAssumption == MaxFaults \in Nat

VARIABLES mode,     \* the process: down, running, or draining in close()
          failed,   \* the workers whose broker.failure is set
          pc,       \* where the dispatcher loop is
          tx,       \* the row dispatchOne has locked, and the copy it sent
          phase,    \* how far each delivery is being handled
          task,     \* the message of each delivery
          client,   \* a submission between its INSERT and its SELECT
          receipts, \* the receipts handed out
          faults    \* how many faults have happened

workerVars == <<mode, failed, pc, tx, phase, task>>
clientVars == <<client, receipts>>
vars == <<storeVars, brokerVars, workerVars, clientVars, faults>>

Nothing == [env |-> None, copy |-> None]
Idle    == [key |-> None, payload |-> None]

InTx     == {"selected", "sent", "stored", "refused"}
Settled  == {"none", "ignored", "stuck"}
Outcomes == {"succeeded", "retryable", "permanent"}
Owning   == {"running"} \cup Outcomes
Phases   == Settled \cup Owning \cup {"received", "ack", "reject"}

Fault   == faults < MaxFaults /\ faults' = faults + 1
NoFault == UNCHANGED faults

----------------------------------------------------------------------------
(* Submission: PostgresJobStore.enqueue, two statements. *)

Receipt(j, k, p) == [id |-> j, key |-> k, payload |-> p]

(* INSERT ... ON CONFLICT DO NOTHING, under an id that was never used. *)
EnqueueInsert(g, k, p) ==
    /\ client[g] = Idle
    /\ \/ /\ Holders(k) = {}
          /\ \E j \in Jobs : /\ status[j] = "absent"
                             /\ Insert(j, k, p)
                             /\ receipts' = receipts \cup {Receipt(j, k, p)}
          /\ UNCHANGED client
       \/ /\ Holders(k) # {}
          /\ client' = [client EXCEPT ![g] = [key |-> k, payload |-> p]]
          /\ UNCHANGED <<storeVars, receipts>>
    /\ UNCHANGED <<brokerVars, workerVars, faults>>

(* The SELECT after a conflict: a receipt for the row with this payload,   *)
(* else IdempotencyConflictError, or an error when the row has gone.       *)
EnqueueSelectAny(g) == \* mutant: the payload is not compared
    /\ client[g] # Idle
    /\ receipts' = receipts \cup
         {Receipt(j, client[g].key, client[g].payload) : j \in Holders(client[g].key)}
    /\ client' = [client EXCEPT ![g] = Idle]
    /\ UNCHANGED <<storeVars, brokerVars, workerVars, faults>>
EnqueueSelect(g) ==
    /\ client[g] # Idle
    /\ receipts' = receipts \cup
         {Receipt(j, client[g].key, client[g].payload) :
              j \in {i \in Holders(client[g].key) : submitted[i].payload = client[g].payload}}
    /\ client' = [client EXCEPT ![g] = Idle]
    /\ UNCHANGED <<storeVars, brokerVars, workerVars, faults>>

----------------------------------------------------------------------------
(* The dispatcher loop: RabbitMqJobWorker.loop and dispatchOne. *)

Locked(j) == \E w \in Workers : pc[w] \in InTx /\ tx[w].env.job = j

Goto(w, l) == pc' = [pc EXCEPT ![w] = l]

(* Go on to l unless stop.signal is aborted, which ends the loop. *)
GoOn(w, l) == Goto(w, IF mode[w] = "draining" THEN "off" ELSE l)

(* An error leaves the loop; start() catches it and calls worker.close(). *)
StopLoop(w) == /\ Goto(w, "off")
               /\ mode' = [mode EXCEPT ![w] = "draining"]

Start(w) ==
    /\ mode[w] = "down"
    /\ mode' = [mode EXCEPT ![w] = "running"]
    /\ Connect(w)
    /\ Goto(w, "connected")
    /\ UNCHANGED <<storeVars, failed, tx, phase, task, clientVars, faults>>

Consume(w) ==
    /\ pc[w] = "connected"
    /\ conn[w] = "open"
    /\ Register(w)
    /\ GoOn(w, "top")
    /\ UNCHANGED <<storeVars, mode, failed, tx, phase, task, clientVars, faults>>

(* A loop that is stopped before its next call ends; a call that is under  *)
(* way when the stop comes is still made (the steps below).                *)
LoopExit(w) ==
    /\ mode[w] = "draining"
    /\ pc[w] \in {"connected", "top", "dispatch", "sleep"}
    /\ Goto(w, "off")
    /\ UNCHANGED <<storeVars, brokerVars, mode, failed, tx, phase, task, clientVars, faults>>

(* broker.failure is thrown; consume on a closed connection throws too. *)
LoopThrow(w) ==
    /\ w \in failed
    /\ pc[w] \in {"connected", "top"}
    /\ StopLoop(w)
    /\ UNCHANGED <<storeVars, brokerVars, failed, tx, phase, task, clientVars, faults>>

MaintainRecover(w) ==
    /\ pc[w] = "top" /\ w \notin failed
    /\ Recover
    /\ Goto(w, "purge")
    /\ UNCHANGED <<brokerVars, mode, failed, tx, phase, task, clientVars, faults>>

MaintainPurge(w) ==
    /\ pc[w] = "purge"
    /\ Purge
    /\ GoOn(w, "dispatch")
    /\ UNCHANGED <<brokerVars, mode, failed, tx, phase, task, clientVars, faults>>

(* BEGIN; SELECT ... FOR UPDATE SKIP LOCKED *)
DispatchSelect(w) ==
    /\ pc[w] = "dispatch"
    /\ \E j \in Jobs :
          /\ Dispatchable(j) /\ ~Locked(j)
          /\ tx' = [tx EXCEPT ![w] = [env |-> Env(j, attempts[j] + 1), copy |-> None]]
    /\ Goto(w, "selected")
    /\ UNCHANGED <<storeVars, brokerVars, mode, failed, phase, task, clientVars, faults>>

DispatchNothing(w) ==
    /\ pc[w] = "dispatch"
    /\ \A j \in Jobs : ~Dispatchable(j) \/ Locked(j)
    /\ GoOn(w, "sleep")
    /\ UNCHANGED <<storeVars, brokerVars, mode, failed, tx, phase, task, clientVars, faults>>

DispatchSend(w) ==
    /\ pc[w] = "selected" /\ w \notin failed
    /\ \E c \in Copies : /\ Send(c, tx[w].env)
                         /\ tx' = [tx EXCEPT ![w] = [env |-> tx[w].env, copy |-> c]]
    /\ Goto(w, "sent")
    /\ UNCHANGED <<storeVars, mode, failed, phase, task, clientVars, faults>>

(* The broker stores or refuses a publication; if its dispatcher still     *)
(* waits, it will learn of it.                                             *)
Reply(c, l) == pc' = [w \in Workers |-> IF pc[w] = "sent" /\ tx[w].copy = c
                                        THEN l ELSE pc[w]]

PublicationStored(c) ==
    /\ Store(c)
    /\ Reply(c, "stored")
    /\ UNCHANGED <<storeVars, mode, failed, tx, phase, task, clientVars, faults>>

PublicationReturned(c) == \* mutant: a returned message counts as confirmed
    /\ Drop(c)
    /\ Reply(c, "stored")
    /\ Fault
    /\ UNCHANGED <<storeVars, mode, failed, tx, phase, task, clientVars>>
PublicationRefused(c) ==
    /\ Drop(c)
    /\ Reply(c, "refused")
    /\ Fault
    /\ UNCHANGED <<storeVars, mode, failed, tx, phase, task, clientVars>>

(* The confirm arrives: UPDATE dispatch_pending = FALSE; COMMIT.  The loop *)
(* takes the next row or, after a batch, sleeps.                           *)
DispatchCommit(w) ==
    /\ pc[w] = "stored"
    /\ ClearPending(tx[w].env.job)
    /\ tx' = [tx EXCEPT ![w] = Nothing]
    /\ \E l \in {"dispatch", "sleep"} : GoOn(w, l)
    /\ UNCHANGED <<brokerVars, mode, failed, phase, task, clientVars, faults>>

(* publish or a statement throws: ROLLBACK, and the loop ends.  A refusal, *)
(* a known broker failure and a closed channel throw by themselves; a      *)
(* confirm timeout or a database error is a fault.                         *)
DispatchAbort(w) ==
    /\ pc[w] \in InTx
    /\ IF \/ pc[w] = "refused"
          \/ w \in failed /\ pc[w] = "selected"
          \/ conn[w] = "closed"
       THEN NoFault ELSE Fault
    /\ tx' = [tx EXCEPT ![w] = Nothing]
    /\ StopLoop(w)
    /\ UNCHANGED <<storeVars, brokerVars, failed, phase, task, clientVars>>

(* A database error in maintain, or in opening the transaction. *)
LoopError(w) ==
    /\ pc[w] \in {"top", "purge", "dispatch"}
    /\ Fault
    /\ StopLoop(w)
    /\ UNCHANGED <<storeVars, brokerVars, failed, tx, phase, task, clientVars>>

Wake(w) ==
    /\ pc[w] = "sleep" /\ mode[w] = "running"
    /\ Goto(w, "top")
    /\ UNCHANGED <<storeVars, brokerVars, mode, failed, tx, phase, task, clientVars, faults>>

----------------------------------------------------------------------------
(* Deliveries: RabbitMqBroker.consume, handle and RabbitMqJobWorker.execute. *)

SetPhase(w, s, p) == phase' = [phase EXCEPT ![w][s] = p]

(* A delivery that arrives while draining is left unacknowledged.  The     *)
(* null message, by which RabbitMQ cancels a consumer whose queue was      *)
(* deleted, is not modelled: nothing here deletes the queue.               *)
Deliver(w, s, c) ==
    /\ phase[w][s] = "none"
    /\ PushTo(w, c)
    /\ SetPhase(w, s, IF mode[w] = "draining" THEN "ignored" ELSE "received")
    /\ task' = [task EXCEPT ![w][s] = [env |-> env[c], copy |-> c]]
    /\ UNCHANGED <<storeVars, mode, failed, pc, tx, clientVars, faults>>

(* The claim waits for a dispatcher that has the row locked. *)
ExecuteClaim(w, s) ==
    LET j == task[w][s].env.job
        n == task[w][s].env.attempt
    IN  /\ phase[w][s] = "received"
        /\ Claimable(j, n) => ~Locked(j)
        /\ Claim(j, n)
        /\ SetPhase(w, s, IF Claimable(j, n) THEN "running" ELSE "ack")
        /\ UNCHANGED <<brokerVars, mode, failed, pc, tx, task, clientVars, faults>>

(* The processor returns, or throws an error that may or may not be retried. *)
ExecuteProcess(w, s) ==
    /\ phase[w][s] = "running"
    /\ \E p \in Outcomes : SetPhase(w, s, p)
    /\ UNCHANGED <<storeVars, brokerVars, mode, failed, pc, tx, task, clientVars, faults>>

ExecuteComplete(w, s) ==
    /\ phase[w][s] = "succeeded"
    /\ Complete(task[w][s].env.job, task[w][s].env.attempt)
    /\ SetPhase(w, s, "ack")
    /\ UNCHANGED <<brokerVars, mode, failed, pc, tx, task, clientVars, faults>>

(* Only a row that fail() itself made 'failed' dead-letters its delivery. *)
ExecuteFailRejects(w, s) == \* mutant: an obsolete attempt is dead-lettered too
    LET j == task[w][s].env.job
        n == task[w][s].env.attempt
        r == phase[w][s] = "retryable"
    IN  /\ phase[w][s] \in {"retryable", "permanent"}
        /\ Fail(j, n, r)
        /\ SetPhase(w, s, IF Current(j, n) /\ Retries(j, r) THEN "ack" ELSE "reject")
        /\ UNCHANGED <<brokerVars, mode, failed, pc, tx, task, clientVars, faults>>
ExecuteFail(w, s) ==
    LET j == task[w][s].env.job
        n == task[w][s].env.attempt
        r == phase[w][s] = "retryable"
    IN  /\ phase[w][s] \in {"retryable", "permanent"}
        /\ Fail(j, n, r)
        /\ SetPhase(w, s, IF Current(j, n) /\ ~Retries(j, r)
                          THEN "reject" ELSE "ack")
        /\ UNCHANGED <<brokerVars, mode, failed, pc, tx, task, clientVars, faults>>

(* A statement of execute() throws, before or after Postgres applied it:   *)
(* the delivery stays unacknowledged and broker.failure is set.            *)
ExecuteError(w, s) ==
    LET j == task[w][s].env.job
        n == task[w][s].env.attempt
    IN  /\ \/ phase[w][s] \in {"received"} \cup Outcomes /\ UNCHANGED storeVars
           \/ phase[w][s] = "received"  /\ ~Locked(j) /\ Claim(j, n)
           \/ phase[w][s] = "succeeded" /\ Complete(j, n)
           \/ phase[w][s] = "retryable" /\ Fail(j, n, TRUE)
           \/ phase[w][s] = "permanent" /\ Fail(j, n, FALSE)
        /\ Fault
        /\ SetPhase(w, s, "stuck")
        /\ failed' = failed \cup {w}
        /\ UNCHANGED <<brokerVars, mode, pc, tx, task, clientVars>>

(* channel.ack or channel.reject; on a closed channel it throws. *)
Acknowledge(w, s) ==
    /\ phase[w][s] \in {"ack", "reject"}
    /\ \/ /\ conn[w] # "closed"
          /\ IF phase[w][s] = "ack" THEN AckCopy(task[w][s].copy)
                                    ELSE RejectCopy(task[w][s].copy)
          /\ UNCHANGED failed
       \/ /\ conn[w] = "closed"
          /\ failed' = failed \cup {w}
          /\ UNCHANGED brokerVars
    /\ SetPhase(w, s, "none")
    /\ task' = [task EXCEPT ![w][s] = Nothing]
    /\ UNCHANGED <<storeVars, mode, pc, tx, clientVars, faults>>

----------------------------------------------------------------------------
(* The life of a worker process. *)

(* SIGTERM or SIGINT: shutdown() calls worker.close(). *)
Signal(w) ==
    /\ mode[w] = "running"
    /\ Fault
    /\ mode' = [mode EXCEPT ![w] = "draining"]
    /\ UNCHANGED <<storeVars, brokerVars, failed, pc, tx, phase, task, clientVars>>

DrainedAtOnce(w) == TRUE \* mutant
DrainedEmpty(w) == \A s \in Slots : phase[w][s] = "none" \* mutant
Drained(w) == \A s \in Slots : phase[w][s] \in Settled

(* stopConsuming: wait for the running deliveries, then cancel. *)
StopConsuming(w) ==
    /\ mode[w] = "draining" /\ Drained(w)
    /\ conn[w] = "consuming"
    /\ Cancel(w)
    /\ UNCHANGED <<storeVars, workerVars, clientVars, faults>>

Down(w) == /\ mode'   = [mode EXCEPT ![w] = "down"]
           /\ failed' = failed \ {w}
           /\ pc'     = [pc EXCEPT ![w] = "off"]
           /\ tx'     = [tx EXCEPT ![w] = Nothing]
           /\ phase'  = [phase EXCEPT ![w] = [s \in Slots |-> "none"]]
           /\ task'   = [task EXCEPT ![w] = [s \in Slots |-> Nothing]]
           /\ Disconnect(w)
           /\ UNCHANGED <<storeVars, clientVars>>

(* The rest of close(): the loop has ended, the connection is closed and   *)
(* the process exits.                                                      *)
Close(w) ==
    /\ mode[w] = "draining" /\ Drained(w)
    /\ pc[w] = "off"
    /\ conn[w] # "consuming"
    /\ Down(w)
    /\ NoFault

(* A crash rolls back the open transaction and drops the connection. *)
Crash(w) == mode[w] # "down" /\ Fault /\ Down(w)

(* The connection fails under a living process, whose calls go on. *)
LoseConnection(w) ==
    /\ conn[w] # "closed"
    /\ Fault
    /\ Disconnect(w)
    /\ failed' = failed \cup {w}
    /\ UNCHANGED <<storeVars, mode, pc, tx, phase, task, clientVars>>

ActivateConsumer(w) == /\ Activate(w)
                       /\ UNCHANGED <<storeVars, workerVars, clientVars, faults>>

Tick == /\ \E j \in Jobs : BecomeDue(j) \/ ExpireLease(j) \/ GrowOld(j)
        /\ UNCHANGED <<brokerVars, workerVars, clientVars, faults>>

----------------------------------------------------------------------------
(* The specification. *)

Init == /\ StoreInit
        /\ BrokerInit
        /\ mode = [w \in Workers |-> "down"]
        /\ failed = {}
        /\ pc = [w \in Workers |-> "off"]
        /\ tx = [w \in Workers |-> Nothing]
        /\ phase = [w \in Workers |-> [s \in Slots |-> "none"]]
        /\ task = [w \in Workers |-> [s \in Slots |-> Nothing]]
        /\ client = [g \in Gateways |-> Idle]
        /\ receipts = {}
        /\ faults = 0

GatewayStep == \E g \in Gateways : \/ EnqueueSelect(g)
                                   \/ \E k \in Keys, p \in Payloads : EnqueueInsert(g, k, p)

LoopStep(w) == \/ Consume(w) \/ LoopExit(w) \/ LoopThrow(w)
               \/ MaintainRecover(w) \/ MaintainPurge(w)
               \/ DispatchSelect(w) \/ DispatchNothing(w) \/ DispatchSend(w)
               \/ DispatchCommit(w) \/ DispatchAbort(w) \/ Wake(w)

TaskStep(w, s) == \/ ExecuteClaim(w, s) \/ ExecuteProcess(w, s)
                  \/ ExecuteComplete(w, s) \/ ExecuteFail(w, s)
                  \/ Acknowledge(w, s)

ProcessStep(w) == Start(w) \/ StopConsuming(w) \/ Close(w)

FaultStep(w) == \/ LoopError(w) \/ Signal(w) \/ Crash(w) \/ LoseConnection(w)
                \/ \E s \in Slots : ExecuteError(w, s)

Next == \/ GatewayStep
        \/ Tick
        \/ \E c \in Copies : PublicationStored(c) \/ PublicationRefused(c)
        \/ \E w \in Workers :
              \/ LoopStep(w) \/ ProcessStep(w) \/ FaultStep(w)
              \/ ActivateConsumer(w)
              \/ \E s \in Slots : \/ TaskStep(w, s)
                                  \/ \E c \in Copies : Deliver(w, s, c)

Spec == Init /\ [][Next]_vars

----------------------------------------------------------------------------
(* Properties. *)

(* Every variable has its type. *)
TypeOK ==
    /\ StoreTypeOK
    /\ BrokerTypeOK
    /\ mode \in [Workers -> {"down", "running", "draining"}]
    /\ failed \subseteq Workers
    /\ pc \in [Workers -> InTx \cup {"off", "connected", "top", "purge", "dispatch", "sleep"}]
    /\ tx \in [Workers -> [env : Envelopes \cup {None}, copy : Copies \cup {None}]]
    /\ phase \in [Workers -> [Slots -> Phases]]
    /\ task \in [Workers -> [Slots -> [env : Envelopes \cup {None}, copy : Copies \cup {None}]]]
    /\ client \in [Gateways -> [key : Keys, payload : Payloads] \cup {Idle}]
    /\ receipts \subseteq [id : Jobs, key : Keys, payload : Payloads]
    /\ faults \in 0..MaxFaults

(* No accepted job is lost: a job that waits for an attempt and is no      *)
(* longer pending in the outbox has a message for exactly that attempt in  *)
(* the broker, whatever dispatchers, acknowledgements, crashes and lost    *)
(* connections did (dispatchOne, claim, handle, maintain).                 *)
NoLostJob ==
    \A j \in Jobs :
        status[j] \in Waiting /\ dispatch[j] = "done"
            => \E c \in Copies : InFlight(c, Env(j, attempts[j] + 1))

(* An attempt is executed once: two deliveries, of one worker or of two,   *)
(* never own the same attempt of a job (the claim's attempts_made fence    *)
(* against duplicate and redelivered messages).                            *)
AttemptExecutedOnce ==
    \A v, w \in Workers : \A r, s \in Slots :
        /\ phase[v][r] \in Owning /\ phase[w][s] \in Owning
        /\ task[v][r].env = task[w][s].env
        => v = w /\ r = s

(* The stored response is that of the last attempt started: an attempt     *)
(* that outlived its lease cannot write over a newer one (the fence of     *)
(* complete).                                                              *)
ResultOfLastAttempt ==
    \A j \in Jobs : /\ status[j] = "completed" => response[j] = attempts[j]
                    /\ response[j] # 0 => status[j] \in {"completed", "deleted"}

(* While every call runs on a live connection, only the active consumer    *)
(* runs calls, so a handover between workers never exceeds the prefetch    *)
(* bound: stopConsuming drains before it cancels.                          *)
HandoverRunsOneConsumer ==
    \A w \in Workers :
        (\E s \in Slots : phase[w][s] \notin Settled) /\ conn[w] # "closed"
            => activeConsumer = w

(* A dead-lettered message is the record of a job that failed with exactly *)
(* that attempt: neither a retried nor a completed attempt is rejected.    *)
FailedBy(e) == /\ status[e.job] \in {"failed", "deleted"}
               /\ attempts[e.job] = e.attempt
               /\ response[e.job] = 0
DeadLettersFailed == \A e \in dead : FailedBy(e)

(* A receipt names a job with the key and the payload that were submitted, *)
(* even if the row found by the SELECT is not the row that made the INSERT *)
(* conflict; and of two jobs with one key at most one is retained.         *)
ReceiptsFaithful ==
    /\ \A r \in receipts : submitted[r.id].key = r.key /\ submitted[r.id].payload = r.payload
    /\ \A i, j \in Jobs : i # j /\ {status[i], status[j]} \subseteq Retained
                            => submitted[i].key # submitted[j].key

----------------------------------------------------------------------------
(* The inductive invariant behind the safety properties. *)

(* Attempt n of a job has been started (or, the row gone, was). *)
Past(e) == attempts[e.job] >= e.attempt

(* A message is out only for an attempt that was started, or for the next  *)
(* one of a job that is waiting and due: claim cannot turn it away.        *)
Justified(e) == /\ status[e.job] # "absent"
                /\ \/ Past(e)
                   \/ /\ attempts[e.job] + 1 = e.attempt
                      /\ status[e.job] \in Waiting
                      /\ available[e.job] = "due"

RowsOK ==
    \A j \in Jobs : /\ status[j] = "absent" => attempts[j] = 0
                    /\ status[j] \in Waiting => attempts[j] < MaxAttempts
                    /\ finished[j] # "null" => status[j] \in Terminal

MessagesOK ==
    \A c \in Copies : /\ place[c] # "free" => env[c] \in Envelopes /\ Justified(env[c])
                      /\ holder[c] # None => place[c] = "held"

(* What dispatchOne knows of the row it has locked. *)
TxOK(w) ==
    pc[w] \in InTx =>
        /\ tx[w].env \in Envelopes
        /\ Dispatchable(tx[w].env.job)
        /\ attempts[tx[w].env.job] + 1 = tx[w].env.attempt
        /\ pc[w] = "sent" => /\ tx[w].copy \in Copies
                             /\ place[tx[w].copy] = "transit"
                             /\ env[tx[w].copy] = tx[w].env
        /\ pc[w] = "stored" => \E c \in Copies : InFlight(c, tx[w].env)

LocksExclusive ==
    \A v, w \in Workers : /\ pc[v] \in InTx /\ pc[w] \in InTx
                          /\ tx[v].env.job = tx[w].env.job
                          => v = w

(* A delivery is a message the broker still counts as held, as long as its *)
(* connection lives; one that is past the claim is of a started attempt.   *)
TaskOK(w, s) ==
    phase[w][s] # "none" =>
        /\ mode[w] # "down"
        /\ task[w][s].env \in Envelopes /\ task[w][s].copy \in Copies
        /\ Justified(task[w][s].env)
        /\ conn[w] # "closed" => /\ holder[task[w][s].copy] = w
                                 /\ env[task[w][s].copy] = task[w][s].env
        /\ phase[w][s] \in Owning \cup {"ack", "reject"} => Past(task[w][s].env)
        /\ phase[w][s] = "reject" => FailedBy(task[w][s].env)

CopiesExclusive ==
    \A w \in Workers : \A r, s \in Slots :
        /\ conn[w] # "closed" /\ phase[w][r] # "none" /\ phase[w][s] # "none"
        /\ task[w][r].copy = task[w][s].copy
        => r = s

IInv == /\ TypeOK /\ RowsOK /\ MessagesOK /\ LocksExclusive /\ CopiesExclusive
        /\ \A w \in Workers : /\ TxOK(w)
                              /\ mode[w] = "down" => conn[w] = "closed"
                              /\ activeConsumer = w => conn[w] = "consuming"
                              /\ \A s \in Slots : TaskOK(w, s)
        /\ NoLostJob /\ AttemptExecutedOnce /\ ResultOfLastAttempt
        /\ HandoverRunsOneConsumer /\ DeadLettersFailed

(* A receipt is of a row that was inserted: its id is not drawn again. *)
ReceiptInv == ReceiptsFaithful /\ \A r \in receipts : status[r.id] # "absent"

----------------------------------------------------------------------------
(* The system implements the contract of the job interfaces: projected to  *)
(* what getJob shows, every step is a step of JobContract or changes       *)
(* nothing (claim, complete, fail and maintain taken together).            *)
Contract == INSTANCE JobContract WITH view <- [j \in Jobs |-> View(j)]
ImplementsContract == Contract!ContractSpec

----------------------------------------------------------------------------
(* Liveness.  The event loop runs what is ready, the broker stores and     *)
(* delivers, time passes, provider calls end by their deadlines, and a     *)
(* worker that is down is started again.  No fault and no submission is    *)
(* forced.                                                                 *)

Fairness ==
    /\ \A w \in Workers :
          /\ WF_vars(LoopStep(w)) /\ WF_vars(ProcessStep(w))
          /\ WF_vars(ActivateConsumer(w))
          /\ \A s \in Slots : /\ WF_vars(TaskStep(w, s))
                              /\ WF_vars(\E c \in Copies : Deliver(w, s, c))
    /\ \A c \in Copies : WF_vars(PublicationStored(c))
    /\ \A j \in Jobs : WF_vars(Tick /\ (BecomeDue(j) \/ ExpireLease(j)))

FairSpec == Spec /\ Fairness

(* Every accepted job ends: once submitted it is eventually completed or   *)
(* failed, through crashes, lost confirms, expired leases and handovers.   *)
JobsEnd == \A j \in Jobs : (status[j] = "queued")
                               ~> (status[j] \in Terminal \cup {"deleted"})

(* close() ends: a draining worker eventually leaves the broker.           *)
DrainEnds == \A w \in Workers : (mode[w] = "draining") ~> (mode[w] = "down")

=============================================================================
