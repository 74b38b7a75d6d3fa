--------------------------- MODULE JobSystemProofs ---------------------------
(***************************************************************************)
(* Machine-checked proofs about JobSystem, for every set of jobs, workers, *)
(* slots and copies and every attempt budget.                              *)
(***************************************************************************)
EXTENDS JobSystem, TLAPS

(* Most leaves are first-order; those with arithmetic or records name SMT. *)
USE Zenon

(* What a step may do to the table. *)
Statement ==
    \/ UNCHANGED storeVars
    \/ \E j \in Jobs, k \in Keys, p \in Payloads :
          status[j] = "absent" /\ Holders(k) = {} /\ Insert(j, k, p)
    \/ \E w \in Workers : /\ pc[w] = "stored" /\ pc'[w] \notin InTx
                          /\ ClearPending(tx[w].env.job)
    \/ \E e \in Envelopes : (Claimable(e.job, e.attempt) => ~Locked(e.job)) /\ Claim(e.job, e.attempt)
    \/ \E e \in Envelopes : Complete(e.job, e.attempt)
    \/ \E e \in Envelopes, b \in BOOLEAN : Fail(e.job, e.attempt, b)
    \/ Recover
    \/ Purge
    \/ \E j \in Jobs : BecomeDue(j) \/ ExpireLease(j) \/ GrowOld(j)

(* Every step runs one statement on the table or none. *)
LEMMA StatementOfStep ==
    ASSUME IInv, [Next]_vars
    PROVE  Statement
<1>1. CASE UNCHANGED vars
  BY <1>1 DEF vars, Statement
<1>2. CASE GatewayStep
  BY <1>2 DEF GatewayStep, EnqueueSelect, EnqueueInsert, Statement
<1>3. CASE Tick
  BY <1>3 DEF Tick, Statement
<1>4. CASE \E c \in Copies : PublicationStored(c) \/ PublicationRefused(c)
  BY <1>4 DEF PublicationStored, PublicationRefused, Statement
<1>5. ASSUME NEW w \in Workers, LoopStep(w)
      PROVE  Statement
  <2>1. CASE MaintainRecover(w)
    BY <2>1 DEF MaintainRecover, Statement
  <2>2. CASE MaintainPurge(w)
    BY <2>2 DEF MaintainPurge, Statement
  <2>3. CASE DispatchCommit(w)
    <3>1. pc \in [Workers -> InTx \cup {"off", "connected", "top", "purge", "dispatch", "sleep"}]
      BY DEF IInv, TypeOK
    <3>2. pc'[w] \notin InTx
      BY <2>3, <3>1 DEF DispatchCommit, GoOn, Goto, InTx
    <3> QED BY <2>3, <3>2 DEF DispatchCommit, Statement
  <2>4. CASE \/ Consume(w) \/ LoopExit(w) \/ LoopThrow(w) \/ DispatchSelect(w)
             \/ DispatchNothing(w) \/ DispatchSend(w) \/ DispatchAbort(w) \/ Wake(w)
    BY <2>4 DEF Consume, LoopExit, LoopThrow, DispatchSelect, DispatchNothing,
                DispatchSend, DispatchAbort, Wake, Statement
  <2> QED BY <1>5, <2>1, <2>2, <2>3, <2>4 DEF LoopStep
<1>6. ASSUME NEW w \in Workers, \/ ProcessStep(w) \/ LoopError(w) \/ Signal(w) \/ Crash(w)
                                \/ LoseConnection(w) \/ ActivateConsumer(w)
      PROVE  Statement
  BY <1>6 DEF ProcessStep, Start, StopConsuming, Close, Down, LoopError, Signal, Crash,
              LoseConnection, ActivateConsumer, Statement
<1>7. ASSUME NEW w \in Workers, NEW s \in Slots, TaskStep(w, s) \/ ExecuteError(w, s)
      PROVE  Statement
  <2>1. phase[w][s] # "none" => task[w][s].env \in Envelopes
    BY DEF IInv, TaskOK
  <2>2. CASE ExecuteClaim(w, s)
    BY <2>1, <2>2 DEF ExecuteClaim, Statement
  <2>3. CASE ExecuteProcess(w, s) \/ Acknowledge(w, s)
    BY <2>3 DEF ExecuteProcess, Acknowledge, Statement
  <2>4. CASE ExecuteComplete(w, s)
    BY <2>1, <2>4 DEF ExecuteComplete, Statement
  <2>5. CASE ExecuteFail(w, s)
    BY <2>1, <2>5 DEF ExecuteFail, Statement
  <2>6. CASE ExecuteError(w, s)
    BY <2>1, <2>6 DEF ExecuteError, Outcomes, Statement
  <2> QED BY <1>7, <2>2, <2>3, <2>4, <2>5, <2>6 DEF TaskStep
<1>8. ASSUME NEW w \in Workers, NEW s \in Slots, NEW c \in Copies, Deliver(w, s, c)
      PROVE  Statement
  BY <1>8 DEF Deliver, Statement
<1> QED BY <1>1, <1>2, <1>3, <1>4, <1>5, <1>6, <1>7, <1>8 DEF Next, FaultStep

(* The job of an open dispatch is a job. *)
LEMMA TxJob ==
    ASSUME IInv, NEW w \in Workers, pc[w] \in InTx
    PROVE  /\ tx[w].env \in Envelopes
           /\ tx[w].env.job \in Jobs
  BY DEF IInv, TxOK, Envelopes

(* Every statement keeps the columns typed. *)
LEMMA StoreTypeStep ==
    ASSUME IInv, Statement
    PROVE  StoreTypeOK'
<1> USE MaxAttemptsAssumption DEF StoreTypeOK, Retained, Attempts, Envelopes
<1>0. StoreTypeOK
  BY DEF IInv, TypeOK
<1>1. CASE UNCHANGED storeVars
  BY <1>0, <1>1 DEF storeVars
<1>2. ASSUME NEW j \in Jobs, NEW k \in Keys, NEW p \in Payloads, Insert(j, k, p)
      PROVE  StoreTypeOK'
  BY <1>0, <1>2 DEF Insert
<1>3. ASSUME NEW w \in Workers, pc[w] = "stored", ClearPending(tx[w].env.job)
      PROVE  StoreTypeOK'
  BY <1>0, <1>3 DEF ClearPending
<1>4. ASSUME NEW e \in Envelopes, Claim(e.job, e.attempt)
      PROVE  StoreTypeOK'
  BY SMTT(20), <1>0, <1>4 DEF Claim, storeVars
<1>5. ASSUME NEW e \in Envelopes, Complete(e.job, e.attempt)
      PROVE  StoreTypeOK'
  BY SMTT(20), <1>0, <1>5 DEF Complete, storeVars
<1>6. ASSUME NEW e \in Envelopes, NEW b \in BOOLEAN, Fail(e.job, e.attempt, b)
      PROVE  StoreTypeOK'
  BY SMTT(20), <1>0, <1>6 DEF Fail, storeVars
<1>7. CASE Recover
  BY <1>0, <1>7 DEF Recover, OnExpired
<1>8. CASE Purge
  BY <1>0, <1>8 DEF Purge
<1>9. ASSUME NEW j \in Jobs, BecomeDue(j) \/ ExpireLease(j) \/ GrowOld(j)
      PROVE  StoreTypeOK'
  BY SMTT(20), <1>0, <1>9 DEF BecomeDue, ExpireLease, GrowOld
<1> QED BY <1>1, <1>2, <1>3, <1>4, <1>5, <1>6, <1>7, <1>8, <1>9 DEF Statement

(* Every statement keeps what relates the columns of a row. *)
LEMMA RowsStep ==
    ASSUME IInv, Statement
    PROVE  RowsOK' /\ ResultOfLastAttempt'
<1> USE MaxAttemptsAssumption DEF StoreTypeOK, Retained, Waiting, Terminal, Attempts,
        Envelopes, RowsOK, ResultOfLastAttempt
<1>0. StoreTypeOK /\ RowsOK /\ ResultOfLastAttempt
  BY DEF IInv, TypeOK
<1>1. CASE UNCHANGED storeVars
  BY <1>0, <1>1 DEF storeVars
<1>2. ASSUME NEW j \in Jobs, NEW k \in Keys, NEW p \in Payloads,
             status[j] = "absent", Insert(j, k, p)
      PROVE  RowsOK' /\ ResultOfLastAttempt'
  BY SMTT(20), <1>0, <1>2 DEF Insert
<1>3. ASSUME NEW w \in Workers, pc[w] = "stored", ClearPending(tx[w].env.job)
      PROVE  RowsOK' /\ ResultOfLastAttempt'
  BY <1>0, <1>3 DEF ClearPending
<1>4. ASSUME NEW e \in Envelopes, Claim(e.job, e.attempt)
      PROVE  RowsOK' /\ ResultOfLastAttempt'
  BY SMTT(20), <1>0, <1>4 DEF Claim, Claimable, storeVars
<1>5. ASSUME NEW e \in Envelopes, Complete(e.job, e.attempt)
      PROVE  RowsOK' /\ ResultOfLastAttempt'
  BY SMTT(20), <1>0, <1>5 DEF Complete, Current, storeVars
<1>6. ASSUME NEW e \in Envelopes, NEW b \in BOOLEAN, Fail(e.job, e.attempt, b)
      PROVE  RowsOK' /\ ResultOfLastAttempt'
  BY SMTT(20), <1>0, <1>6 DEF Fail, Current, Retries, storeVars
<1>7. CASE Recover
  BY <1>0, <1>7 DEF Recover, OnExpired, Expired
<1>8. CASE Purge
  BY <1>0, <1>8 DEF Purge
<1>9. ASSUME NEW j \in Jobs, BecomeDue(j) \/ ExpireLease(j) \/ GrowOld(j)
      PROVE  RowsOK' /\ ResultOfLastAttempt'
  BY SMTT(20), <1>0, <1>9 DEF BecomeDue, ExpireLease, GrowOld
<1> QED BY <1>1, <1>2, <1>3, <1>4, <1>5, <1>6, <1>7, <1>8, <1>9 DEF Statement

(* What every statement guarantees about every row: attempts never go      *)
(* down, a row that exists stays known, a job that waits and is due goes   *)
(* on waiting until its next attempt starts, and a failure is final.       *)
LEMMA RowProgress ==
    ASSUME IInv, Statement, NEW j \in Jobs
    PROVE  /\ attempts'[j] >= attempts[j]
           /\ status[j] # "absent" => status'[j] # "absent"
           /\ status[j] \in Waiting /\ available[j] = "due"
                => \/ /\ status'[j] \in Waiting /\ available'[j] = "due"
                      /\ attempts'[j] = attempts[j]
                   \/ attempts'[j] = attempts[j] + 1
           /\ status[j] \in {"failed", "deleted"} /\ response[j] = 0
                => /\ status'[j] \in {"failed", "deleted"} /\ response'[j] = 0
                   /\ attempts'[j] = attempts[j]
<1> DEFINE G == /\ attempts'[j] >= attempts[j]
                /\ status[j] # "absent" => status'[j] # "absent"
                /\ status[j] \in Waiting /\ available[j] = "due"
                     => \/ /\ status'[j] \in Waiting /\ available'[j] = "due"
                           /\ attempts'[j] = attempts[j]
                        \/ attempts'[j] = attempts[j] + 1
                /\ status[j] \in {"failed", "deleted"} /\ response[j] = 0
                     => /\ status'[j] \in {"failed", "deleted"} /\ response'[j] = 0
                        /\ attempts'[j] = attempts[j]
<1> USE MaxAttemptsAssumption DEF StoreTypeOK, Retained, Waiting, Terminal, Attempts,
        Envelopes, RowsOK
<1>0. StoreTypeOK /\ RowsOK
  BY DEF IInv, TypeOK
<1>1. CASE UNCHANGED storeVars
  BY SMTT(20), <1>0, <1>1 DEF storeVars
<1>2. ASSUME NEW i \in Jobs, NEW k \in Keys, NEW p \in Payloads,
             status[i] = "absent", Insert(i, k, p)
      PROVE  G
  BY SMTT(20), <1>0, <1>2 DEF Insert
<1>3. ASSUME NEW w \in Workers, pc[w] = "stored", ClearPending(tx[w].env.job)
      PROVE  G
  BY SMTT(20), <1>0, <1>3 DEF ClearPending
<1>4. ASSUME NEW e \in Envelopes, Claim(e.job, e.attempt)
      PROVE  G
  BY SMTT(20), <1>0, <1>4 DEF Claim, Claimable, storeVars
<1>5. ASSUME NEW e \in Envelopes, Complete(e.job, e.attempt)
      PROVE  G
  BY SMTT(20), <1>0, <1>5 DEF Complete, Current, storeVars
<1>6. ASSUME NEW e \in Envelopes, NEW b \in BOOLEAN, Fail(e.job, e.attempt, b)
      PROVE  G
  BY SMTT(20), <1>0, <1>6 DEF Fail, Current, Retries, storeVars
<1>7. CASE Recover
  BY SMTT(20), <1>0, <1>7 DEF Recover, OnExpired, Expired
<1>8. CASE Purge
  BY SMTT(20), <1>0, <1>8 DEF Purge
<1>9. ASSUME NEW i \in Jobs, BecomeDue(i) \/ ExpireLease(i) \/ GrowOld(i)
      PROVE  G
  BY SMTT(20), <1>0, <1>9 DEF BecomeDue, ExpireLease, GrowOld
<1> QED BY <1>1, <1>2, <1>3, <1>4, <1>5, <1>6, <1>7, <1>8, <1>9 DEF Statement

(* A message that is justified stays so, and what has happened stays true. *)
LEMMA EnvelopeStep ==
    ASSUME IInv, Statement, NEW e \in Envelopes
    PROVE  /\ Past(e) => Past(e)'
           /\ Justified(e) => Justified(e)'
           /\ FailedBy(e) => FailedBy(e)'
<1>1. e.job \in Jobs /\ e.attempt \in Nat
  BY SMTT(20), MaxAttemptsAssumption DEF Envelopes, Attempts
<1>2. attempts[e.job] \in Nat /\ attempts'[e.job] \in Nat
  BY SMTT(20), <1>1, StoreTypeStep, MaxAttemptsAssumption DEF IInv, TypeOK, StoreTypeOK
<1> QED BY SMTT(20), <1>1, <1>2, RowProgress DEF Past, Justified, FailedBy

(* An attempt that can be claimed has not been started. *)
LEMMA ClaimableNotPast ==
    ASSUME IInv, NEW e \in Envelopes, Claimable(e.job, e.attempt)
    PROVE  ~Past(e)
<1>1. e.job \in Jobs /\ e.attempt \in Nat
  BY SMTT(20), MaxAttemptsAssumption DEF Envelopes, Attempts
<1>2. attempts[e.job] \in Nat
  BY SMTT(20), <1>1, MaxAttemptsAssumption DEF IInv, TypeOK, StoreTypeOK
<1> QED BY SMTT(20), <1>1, <1>2 DEF Claimable, Past

(* What a step may do to the copies. *)
Traffic ==
    \/ UNCHANGED copyVars
    \/ \E w \in Workers, c \in Copies : pc[w] = "selected" /\ Send(c, tx[w].env)
    \/ \E c \in Copies : /\ place[c] = "transit"
                         /\ \A w \in Workers : ~(pc'[w] = "sent" /\ tx'[w].copy = c)
                         /\ Store(c) \/ Remove(c)
    \/ \E w \in Workers, c \in Copies : PushTo(w, c)
    \/ \E w \in Workers, s \in Slots : /\ phase[w][s] \in {"ack", "reject"}
                                       /\ phase'[w][s] = "none"
                                       /\ conn[w] # "closed"
                                       /\ Remove(task[w][s].copy)
    \/ \E w \in Workers : Disconnect(w)

(* Every step moves copies in one of these ways or in none. *)
LEMMA TrafficOfStep ==
    ASSUME IInv, [Next]_vars
    PROVE  Traffic
<1>0. TypeOK
  BY DEF IInv
<1>1. CASE UNCHANGED vars
  BY <1>1 DEF vars, brokerVars, copyVars, Traffic
<1>2. CASE GatewayStep \/ Tick
  BY <1>2 DEF GatewayStep, EnqueueSelect, EnqueueInsert, Tick, brokerVars, copyVars, Traffic
<1>3. ASSUME NEW c \in Copies, PublicationStored(c) \/ PublicationRefused(c)
      PROVE  Traffic
  <2>1. place[c] = "transit" /\ (Store(c) \/ Remove(c))
    BY <1>3 DEF PublicationStored, PublicationRefused, Store, Drop
  <2>2. \A w \in Workers : ~(pc'[w] = "sent" /\ tx'[w].copy = c)
    BY <1>3 DEF PublicationStored, PublicationRefused, Reply
  <2> QED BY <2>1, <2>2 DEF Traffic
<1>4. ASSUME NEW w \in Workers, LoopStep(w)
      PROVE  Traffic
  <2>1. CASE DispatchSend(w)
    BY <2>1 DEF DispatchSend, Traffic
  <2>2. CASE \/ Consume(w) \/ LoopExit(w) \/ LoopThrow(w) \/ DispatchSelect(w)
             \/ DispatchNothing(w) \/ DispatchCommit(w) \/ DispatchAbort(w) \/ Wake(w)
             \/ MaintainRecover(w) \/ MaintainPurge(w)
    BY <2>2 DEF Consume, Register, LoopExit, LoopThrow, DispatchSelect, DispatchNothing,
                DispatchCommit, DispatchAbort, Wake, MaintainRecover, MaintainPurge,
                brokerVars, copyVars, Traffic
  <2> QED BY <1>4, <2>1, <2>2 DEF LoopStep
<1>5. ASSUME NEW w \in Workers, \/ ProcessStep(w) \/ LoopError(w) \/ Signal(w) \/ Crash(w)
                                \/ LoseConnection(w) \/ ActivateConsumer(w)
      PROVE  Traffic
  BY <1>5 DEF ProcessStep, Start, Connect, StopConsuming, Cancel, Close, Down, LoopError,
              Signal, Crash, LoseConnection, ActivateConsumer, Activate, brokerVars,
              copyVars, Traffic
<1>6. ASSUME NEW w \in Workers, NEW s \in Slots, TaskStep(w, s) \/ ExecuteError(w, s)
      PROVE  Traffic
  <2>1. CASE Acknowledge(w, s)
    <3>1. phase'[w][s] = "none"
      BY <1>0, <2>1 DEF Acknowledge, SetPhase, TypeOK
    <3> QED BY <2>1, <3>1 DEF Acknowledge, AckCopy, RejectCopy, brokerVars, copyVars, Traffic
  <2>2. CASE \/ ExecuteClaim(w, s) \/ ExecuteProcess(w, s) \/ ExecuteComplete(w, s)
             \/ ExecuteFail(w, s) \/ ExecuteError(w, s)
    BY <2>2 DEF ExecuteClaim, ExecuteProcess, ExecuteComplete, ExecuteFail, ExecuteError,
                brokerVars, copyVars, Traffic
  <2> QED BY <1>6, <2>1, <2>2 DEF TaskStep
<1>7. ASSUME NEW w \in Workers, NEW s \in Slots, NEW c \in Copies, Deliver(w, s, c)
      PROVE  Traffic
  BY <1>7 DEF Deliver, Traffic
<1> QED BY <1>1, <1>2, <1>3, <1>4, <1>5, <1>6, <1>7 DEF Next, FaultStep

(* The copies keep their types. *)
LEMMA CopyTypeStep ==
    ASSUME IInv, Traffic
    PROVE  /\ place' \in [Copies -> {"free", "transit", "ready", "held"}]
           /\ env' \in [Copies -> Envelopes \cup {None}]
           /\ holder' \in [Copies -> Workers \cup {None}]
<1>0. BrokerTypeOK
  BY DEF IInv, TypeOK
<1>1. CASE UNCHANGED copyVars
  BY <1>0, <1>1 DEF BrokerTypeOK, copyVars
<1>2. ASSUME NEW w \in Workers, NEW c \in Copies, pc[w] = "selected", Send(c, tx[w].env)
      PROVE  /\ place' \in [Copies -> {"free", "transit", "ready", "held"}]
             /\ env' \in [Copies -> Envelopes \cup {None}]
             /\ holder' \in [Copies -> Workers \cup {None}]
  <2>1. tx[w].env \in Envelopes
    BY <1>2, TxJob DEF InTx
  <2> QED BY <1>0, <1>2, <2>1 DEF BrokerTypeOK, Send
<1>3. ASSUME NEW c, Store(c) \/ Remove(c)
      PROVE  /\ place' \in [Copies -> {"free", "transit", "ready", "held"}]
             /\ env' \in [Copies -> Envelopes \cup {None}]
             /\ holder' \in [Copies -> Workers \cup {None}]
  BY <1>0, <1>3 DEF BrokerTypeOK, Store, Remove
<1>4. ASSUME NEW w \in Workers, NEW c \in Copies, PushTo(w, c)
      PROVE  /\ place' \in [Copies -> {"free", "transit", "ready", "held"}]
             /\ env' \in [Copies -> Envelopes \cup {None}]
             /\ holder' \in [Copies -> Workers \cup {None}]
  BY <1>0, <1>4 DEF BrokerTypeOK, PushTo
<1>5. ASSUME NEW w \in Workers, Disconnect(w)
      PROVE  /\ place' \in [Copies -> {"free", "transit", "ready", "held"}]
             /\ env' \in [Copies -> Envelopes \cup {None}]
             /\ holder' \in [Copies -> Workers \cup {None}]
  BY <1>0, <1>5 DEF BrokerTypeOK, Disconnect
<1> QED BY <1>1, <1>2, <1>3, <1>4, <1>5 DEF Traffic

(* The delivery of a held copy, while its connection lives. *)
LEMMA TaskCopy ==
    ASSUME IInv, NEW w \in Workers, NEW s \in Slots,
           phase[w][s] # "none", conn[w] # "closed"
    PROVE  /\ task[w][s].copy \in Copies
           /\ holder[task[w][s].copy] = w
           /\ place[task[w][s].copy] = "held"
           /\ env[task[w][s].copy] = task[w][s].env
<1>1. /\ task[w][s].copy \in Copies /\ holder[task[w][s].copy] = w
      /\ env[task[w][s].copy] = task[w][s].env
  BY SMTT(20) DEF IInv, TaskOK
<1> QED BY <1>1, WorkersAssumption DEF IInv, MessagesOK

(* Where one copy may go in a step. *)
LEMMA CopyStep ==
    ASSUME IInv, Traffic, NEW c \in Copies
    PROVE  \/ place'[c] = "free" /\ holder'[c] = None
           \/ /\ place[c] # "free" /\ place'[c] # "free" /\ env'[c] = env[c]
              /\ holder'[c] # None => place'[c] = "held"
           \/ /\ place'[c] = "transit" /\ holder'[c] = None
              /\ \E w \in Workers : pc[w] = "selected" /\ env'[c] = tx[w].env
<1> DEFINE G == \/ place'[c] = "free" /\ holder'[c] = None
                \/ /\ place[c] # "free" /\ place'[c] # "free" /\ env'[c] = env[c]
                   /\ holder'[c] # None => place'[c] = "held"
                \/ /\ place'[c] = "transit" /\ holder'[c] = None
                   /\ \E w \in Workers : pc[w] = "selected" /\ env'[c] = tx[w].env
<1>0. BrokerTypeOK /\ (holder[c] # None => place[c] = "held")
  BY DEF IInv, TypeOK, MessagesOK
<1>1. CASE UNCHANGED copyVars
  BY <1>0, <1>1 DEF copyVars
<1>2. ASSUME NEW w \in Workers, NEW d \in Copies, pc[w] = "selected", Send(d, tx[w].env)
      PROVE  G
  BY <1>0, <1>2 DEF Send, BrokerTypeOK
<1>3. ASSUME NEW d \in Copies, Store(d) \/ Remove(d)
      PROVE  G
  BY <1>0, <1>3 DEF Store, Remove, BrokerTypeOK
<1>4. ASSUME NEW w \in Workers, NEW d \in Copies, PushTo(w, d)
      PROVE  G
  BY <1>0, <1>4 DEF PushTo, BrokerTypeOK
<1>5. ASSUME NEW w \in Workers, NEW s \in Slots, phase[w][s] \in {"ack", "reject"},
             conn[w] # "closed", Remove(task[w][s].copy)
      PROVE  G
  BY <1>3, <1>5, TaskCopy
<1>6. ASSUME NEW w \in Workers, Disconnect(w)
      PROVE  G
  BY <1>0, <1>6, WorkersAssumption DEF Disconnect, BrokerTypeOK
<1> QED BY <1>1, <1>2, <1>3, <1>4, <1>5, <1>6 DEF Traffic

(* Every message stays justified. *)
LEMMA MessagesStep ==
    ASSUME IInv, Traffic, Statement
    PROVE  MessagesOK'
<1> SUFFICES ASSUME NEW c \in Copies
             PROVE  /\ place'[c] # "free" => env'[c] \in Envelopes /\ Justified(env[c])'
                    /\ holder'[c] # None => place'[c] = "held"
  BY DEF MessagesOK
<1>1. place[c] # "free" => env[c] \in Envelopes /\ Justified(env[c])
  BY DEF IInv, MessagesOK
<1>2. ASSUME NEW w \in Workers, pc[w] = "selected"
      PROVE  tx[w].env \in Envelopes /\ Justified(tx[w].env)
  <2>1. tx[w].env \in Envelopes
    BY <1>2, TxJob DEF InTx
  <2> QED BY <1>2, <2>1 DEF IInv, TxOK, InTx, Justified, Dispatchable, Waiting
<1> QED BY SMTT(20), <1>1, <1>2, CopyStep, EnvelopeStep DEF Justified, Past

(* A message for an attempt that has not been started is not removed: only *)
(* a delivery past its claim is acknowledged.                              *)
LEMMA InFlightKept ==
    ASSUME IInv, Traffic, NEW c \in Copies, NEW e \in Envelopes, InFlight(c, e), ~Past(e)
    PROVE  place'[c] \in {"ready", "held"} /\ env'[c] = e
<1>0. BrokerTypeOK /\ place[c] \in {"ready", "held"} /\ env[c] = e
  BY DEF IInv, TypeOK, InFlight
<1>1. CASE UNCHANGED copyVars
  BY <1>0, <1>1 DEF copyVars
<1>2. ASSUME NEW w \in Workers, NEW d \in Copies, Send(d, tx[w].env)
      PROVE  place'[c] \in {"ready", "held"} /\ env'[c] = e
  BY <1>0, <1>2 DEF Send, BrokerTypeOK
<1>3. ASSUME NEW d \in Copies, place[d] = "transit", Store(d) \/ Remove(d)
      PROVE  place'[c] \in {"ready", "held"} /\ env'[c] = e
  BY <1>0, <1>3 DEF Store, Remove, BrokerTypeOK
<1>4. ASSUME NEW w \in Workers, NEW d \in Copies, PushTo(w, d)
      PROVE  place'[c] \in {"ready", "held"} /\ env'[c] = e
  BY <1>0, <1>4 DEF PushTo, BrokerTypeOK
<1>5. ASSUME NEW w \in Workers, NEW s \in Slots, phase[w][s] \in {"ack", "reject"},
             conn[w] # "closed", Remove(task[w][s].copy)
      PROVE  place'[c] \in {"ready", "held"} /\ env'[c] = e
  <2>1. Past(task[w][s].env)
    BY <1>5 DEF IInv, TaskOK
  <2>2. env[task[w][s].copy] = task[w][s].env
    BY SMTT(20), <1>5, TaskCopy
  <2>3. task[w][s].copy # c
    BY <1>0, <2>1, <2>2
  <2> QED BY <1>0, <1>5, <2>3 DEF Remove, BrokerTypeOK
<1>6. ASSUME NEW w \in Workers, Disconnect(w)
      PROVE  place'[c] \in {"ready", "held"} /\ env'[c] = e
  BY <1>0, <1>6 DEF Disconnect, BrokerTypeOK
<1> QED BY <1>1, <1>2, <1>3, <1>4, <1>5, <1>6 DEF Traffic

(* A job that waits outside the outbox already had its message in flight,  *)
(* the message its dispatcher has just had confirmed included.             *)
LEMMA OutboxStep ==
    ASSUME IInv, Statement, NEW j \in Jobs,
           status'[j] \in Waiting, dispatch'[j] = "done"
    PROVE  /\ attempts'[j] = attempts[j]
           /\ \E c \in Copies : InFlight(c, Env(j, attempts[j] + 1))
<1> DEFINE Had == status[j] \in Waiting /\ dispatch[j] = "done" /\ attempts'[j] = attempts[j]
<1> USE DEF StoreTypeOK, Waiting, Retained, Envelopes
<1>0. StoreTypeOK /\ RowsOK
  BY DEF IInv, TypeOK
<1>1. ASSUME Had
      PROVE  \E c \in Copies : InFlight(c, Env(j, attempts[j] + 1))
  BY <1>1 DEF IInv, NoLostJob
<1>2. CASE UNCHANGED storeVars
  BY <1>1, <1>2 DEF storeVars
<1>3. ASSUME NEW i \in Jobs, NEW k \in Keys, NEW p \in Payloads, Insert(i, k, p)
      PROVE  Had
  BY <1>0, <1>3 DEF Insert
<1>4. ASSUME NEW w \in Workers, pc[w] = "stored", ClearPending(tx[w].env.job)
      PROVE  /\ attempts'[j] = attempts[j]
             /\ \E c \in Copies : InFlight(c, Env(j, attempts[j] + 1))
  <2>1. CASE tx[w].env.job # j
    BY <1>0, <1>1, <1>4, <2>1 DEF ClearPending
  <2>2. CASE tx[w].env.job = j
    <3>1. /\ tx[w].env \in Envelopes
          /\ attempts[j] + 1 = tx[w].env.attempt
          /\ \E c \in Copies : InFlight(c, tx[w].env)
      BY <1>4, <2>2 DEF IInv, TxOK, InTx
    <3>2. tx[w].env = Env(j, attempts[j] + 1)
      BY <2>2, <3>1 DEF Env
    <3> QED BY <1>4, <3>1, <3>2 DEF ClearPending
  <2> QED BY <2>1, <2>2
<1>5. ASSUME NEW e \in Envelopes, Claim(e.job, e.attempt)
      PROVE  Had
  BY SMTT(20), <1>0, <1>5 DEF Claim, storeVars
<1>6. ASSUME NEW e \in Envelopes, Complete(e.job, e.attempt)
      PROVE  Had
  BY SMTT(20), <1>0, <1>6 DEF Complete, storeVars
<1>7. ASSUME NEW e \in Envelopes, NEW b \in BOOLEAN, Fail(e.job, e.attempt, b)
      PROVE  Had
  BY SMTT(20), <1>0, <1>7 DEF Fail, storeVars
<1>8. CASE Recover
  BY <1>0, <1>1, <1>8 DEF Recover, OnExpired
<1>9. CASE Purge
  BY <1>0, <1>1, <1>9 DEF Purge
<1>10. ASSUME NEW i \in Jobs, BecomeDue(i) \/ ExpireLease(i) \/ GrowOld(i)
       PROVE  Had
  BY <1>0, <1>10 DEF BecomeDue, ExpireLease, GrowOld
<1> QED BY <1>1, <1>2, <1>3, <1>4, <1>5, <1>6, <1>7, <1>8, <1>9, <1>10 DEF Statement

(* No step loses a job. *)
LEMMA NoLostJobStep ==
    ASSUME IInv, Statement, Traffic
    PROVE  NoLostJob'
<1> SUFFICES ASSUME NEW j \in Jobs, status'[j] \in Waiting, dispatch'[j] = "done"
             PROVE  \E c \in Copies : InFlight(c, Env(j, attempts[j] + 1))'
  BY DEF NoLostJob, Waiting
<1>1. PICK c \in Copies : InFlight(c, Env(j, attempts[j] + 1))
  BY OutboxStep
<1>2. attempts'[j] = attempts[j]
  BY OutboxStep
<1>3. attempts[j] \in Nat
  BY SMTT(20), MaxAttemptsAssumption DEF IInv, TypeOK, StoreTypeOK
<1>4. Env(j, attempts[j] + 1) \in Envelopes
  BY <1>1 DEF IInv, MessagesOK, InFlight
<1>5. ~Past(Env(j, attempts[j] + 1))
  BY SMTT(20), <1>3 DEF Past, Env
<1>6. place'[c] \in {"ready", "held"} /\ env'[c] = Env(j, attempts[j] + 1)
  BY <1>1, <1>4, <1>5, InFlightKept
<1> QED BY <1>2, <1>6 DEF InFlight, Env

(* How a dispatcher comes to be inside a transaction: it was, and has      *)
(* moved on in it, or it has just locked a row nobody had locked.          *)
MovesOn(w) ==
    /\ pc[w] \in InTx /\ tx'[w].env = tx[w].env
    /\ pc'[w] = "sent" => \/ pc[w] = "sent" /\ tx'[w] = tx[w]
                          \/ /\ pc[w] = "selected" /\ tx'[w].copy \in Copies
                             /\ Send(tx'[w].copy, tx[w].env)
    /\ pc'[w] = "stored" => pc[w] = "stored" \/ (pc[w] = "sent" /\ Store(tx[w].copy))

Locks(w) ==
    /\ \E j \in Jobs : /\ Dispatchable(j) /\ ~Locked(j)
                       /\ tx'[w].env = Env(j, attempts[j] + 1)
    /\ pc'[w] = "selected"
    /\ \A v \in Workers \ {w} : pc'[v] = pc[v] /\ tx'[v] = tx[v]
    /\ UNCHANGED storeVars

(* Every step leaves a dispatcher outside a transaction or moves it so. *)
LEMMA DispatcherStep ==
    ASSUME IInv, [Next]_vars, NEW w \in Workers, pc'[w] \in InTx
    PROVE  MovesOn(w) \/ Locks(w)
<1>0. /\ pc \in [Workers -> InTx \cup {"off", "connected", "top", "purge", "dispatch", "sleep"}]
      /\ tx \in [Workers -> [env : Envelopes \cup {None}, copy : Copies \cup {None}]]
  BY DEF IInv, TypeOK
<1>1. ASSUME pc'[w] = pc[w], tx'[w] = tx[w]
      PROVE  MovesOn(w)
  BY <1>1 DEF MovesOn
<1>2. CASE UNCHANGED <<pc, tx>>
  BY <1>1, <1>2
<1>3. CASE UNCHANGED vars
  BY <1>2, <1>3 DEF vars, workerVars
<1>4. CASE GatewayStep \/ Tick
  BY <1>2, <1>4 DEF GatewayStep, EnqueueSelect, EnqueueInsert, Tick, workerVars
<1>5. ASSUME NEW c \in Copies, PublicationStored(c) \/ PublicationRefused(c)
      PROVE  MovesOn(w)
  BY <1>0, <1>5 DEF PublicationStored, PublicationRefused, Reply, MovesOn, InTx
<1>6. ASSUME NEW v \in Workers, LoopStep(v)
      PROVE  MovesOn(w) \/ Locks(w)
  <2>1. CASE DispatchSelect(v)
    <3>1. CASE v = w
      BY SMTT(20), <1>0, <2>1, <3>1 DEF DispatchSelect, Goto, Locks
    <3>2. CASE v # w
      BY <1>0, <1>1, <2>1, <3>2 DEF DispatchSelect, Goto
    <3> QED BY <3>1, <3>2
  <2>2. CASE DispatchSend(v)
    <3>1. CASE v = w
      BY SMTT(20), <1>0, <2>2, <3>1 DEF DispatchSend, Goto, MovesOn, InTx
    <3>2. CASE v # w
      BY <1>0, <1>1, <2>2, <3>2 DEF DispatchSend, Goto
    <3> QED BY <3>1, <3>2
  <2>3. CASE DispatchCommit(v) \/ DispatchAbort(v)
    BY <1>0, <1>1, <2>3 DEF DispatchCommit, DispatchAbort, StopLoop, GoOn, Goto, InTx
  <2>4. CASE \/ Consume(v) \/ LoopExit(v) \/ LoopThrow(v) \/ DispatchNothing(v) \/ Wake(v)
             \/ MaintainRecover(v) \/ MaintainPurge(v)
    BY <1>0, <1>1, <2>4 DEF Consume, LoopExit, LoopThrow, DispatchNothing, Wake,
          MaintainRecover, MaintainPurge, StopLoop, GoOn, Goto, InTx
  <2> QED BY <1>6, <2>1, <2>2, <2>3, <2>4 DEF LoopStep
<1>7. ASSUME NEW v \in Workers, \/ ProcessStep(v) \/ LoopError(v) \/ Signal(v) \/ Crash(v)
                                \/ LoseConnection(v) \/ ActivateConsumer(v)
      PROVE  MovesOn(w)
  <2>1. CASE Start(v) \/ LoopError(v)
    BY <1>0, <1>1, <2>1 DEF Start, LoopError, StopLoop, Goto, InTx
  <2>2. CASE Close(v) \/ Crash(v)
    BY <1>0, <1>1, <2>2 DEF Close, Crash, Down, InTx
  <2>3. CASE StopConsuming(v) \/ Signal(v) \/ LoseConnection(v) \/ ActivateConsumer(v)
    BY <1>1, <2>3 DEF StopConsuming, Signal, LoseConnection, ActivateConsumer, workerVars
  <2> QED BY <1>7, <2>1, <2>2, <2>3 DEF ProcessStep
<1>8. ASSUME NEW v \in Workers, NEW s \in Slots, TaskStep(v, s) \/ ExecuteError(v, s)
      PROVE  UNCHANGED <<pc, tx>>
  BY <1>8 DEF TaskStep, ExecuteClaim, ExecuteProcess, ExecuteComplete, ExecuteFail,
              ExecuteError, Acknowledge
<1>9. ASSUME NEW v \in Workers, NEW s \in Slots, NEW c \in Copies, Deliver(v, s, c)
      PROVE  UNCHANGED <<pc, tx>>
  BY <1>9 DEF Deliver
<1> QED BY <1>2, <1>3, <1>4, <1>5, <1>6, <1>7, <1>8, <1>9 DEF Next, FaultStep

(* The row a dispatcher has locked is nobody else's to change. *)
LEMMA LockedRow ==
    ASSUME IInv, Statement, NEW w \in Workers, pc[w] \in InTx, pc'[w] \in InTx
    PROVE  LET j == tx[w].env.job
           IN  /\ Dispatchable(j) /\ attempts'[j] = attempts[j]
               /\ status'[j] = status[j] /\ dispatch'[j] = dispatch[j]
               /\ available'[j] = available[j]
<1> DEFINE j == tx[w].env.job
           Same == /\ attempts'[j] = attempts[j] /\ status'[j] = status[j]
                   /\ dispatch'[j] = dispatch[j] /\ available'[j] = available[j]
<1> USE DEF StoreTypeOK, Waiting, Retained, Terminal, Envelopes
<1>0. StoreTypeOK /\ RowsOK
  BY DEF IInv, TypeOK
<1>1. j \in Jobs
  BY TxJob
<1>2. Dispatchable(j)
  BY DEF IInv, TxOK
<1> HIDE DEF j
<1>3. status[j] \in Waiting /\ available[j] = "due"
  BY <1>2 DEF Dispatchable
<1>4. ASSUME UNCHANGED storeVars
      PROVE  Same
  BY <1>4 DEF storeVars
<1>5. ASSUME NEW i \in Jobs, NEW k \in Keys, NEW p \in Payloads,
             status[i] = "absent", Insert(i, k, p)
      PROVE  Same
  BY <1>0, <1>1, <1>3, <1>5 DEF Insert
<1>6. ASSUME NEW v \in Workers, pc[v] = "stored", pc'[v] \notin InTx,
             ClearPending(tx[v].env.job)
      PROVE  Same
  <2>1. tx[v].env.job # j
    BY <1>6 DEF IInv, LocksExclusive, InTx, j
  <2> QED BY <1>0, <1>1, <1>6, <2>1 DEF ClearPending
<1>7. ASSUME NEW e \in Envelopes, Claimable(e.job, e.attempt) => ~Locked(e.job),
             Claim(e.job, e.attempt)
      PROVE  Same
  <2>1. CASE Claimable(e.job, e.attempt)
    <3>1. e.job # j
      BY <1>7, <2>1 DEF Locked, j
    <3> QED BY <1>0, <1>1, <1>7, <2>1, <3>1 DEF Claim
  <2> QED BY <1>4, <1>7, <2>1 DEF Claim
<1>8. ASSUME NEW e \in Envelopes, Complete(e.job, e.attempt)
      PROVE  Same
  BY <1>0, <1>1, <1>3, <1>8 DEF Complete, Current, storeVars
<1>9. ASSUME NEW e \in Envelopes, NEW b \in BOOLEAN, Fail(e.job, e.attempt, b)
      PROVE  Same
  BY SMTT(20), <1>0, <1>1, <1>3, <1>9 DEF Fail, Current, storeVars
<1>10. ASSUME Recover
       PROVE  Same
  BY <1>0, <1>1, <1>3, <1>10 DEF Recover, OnExpired, Expired
<1>11. ASSUME Purge
       PROVE  Same
  BY <1>0, <1>1, <1>3, <1>11 DEF Purge, RowsOK
<1>12. ASSUME NEW i \in Jobs, BecomeDue(i) \/ ExpireLease(i) \/ GrowOld(i)
       PROVE  Same
  BY <1>0, <1>1, <1>3, <1>12 DEF BecomeDue, ExpireLease, GrowOld
<1>13. Same
  BY <1>4, <1>5, <1>6, <1>7, <1>8, <1>9, <1>10, <1>11, <1>12 DEF Statement
<1> QED BY <1>2, <1>13 DEF j

(* Two dispatchers never hold the same row. *)
LEMMA LocksStep ==
    ASSUME IInv, [Next]_vars
    PROVE  LocksExclusive'
<1> SUFFICES ASSUME NEW v \in Workers, NEW w \in Workers,
                    pc'[v] \in InTx, pc'[w] \in InTx, v # w,
                    tx'[v].env.job = tx'[w].env.job
             PROVE  FALSE
  BY DEF LocksExclusive, InTx
<1>1. CASE MovesOn(v) /\ MovesOn(w)
  BY <1>1 DEF MovesOn, IInv, LocksExclusive
<1>2. ASSUME NEW u \in Workers, NEW x \in Workers, u # x, Locks(u),
             pc'[x] \in InTx, tx'[x].env.job = tx'[u].env.job
      PROVE  FALSE
  BY SMTT(20), <1>2 DEF Locks, Locked, Env
<1> QED BY <1>1, <1>2, DispatcherStep

(* What dispatchOne knows of its row and of its message stays true. *)
LEMMA TxStep ==
    ASSUME IInv, [Next]_vars, Statement, Traffic, NEW w \in Workers
    PROVE  TxOK(w)'
<1> SUFFICES ASSUME pc'[w] \in InTx
             PROVE  /\ tx'[w].env \in Envelopes
                    /\ Dispatchable(tx[w].env.job)'
                    /\ attempts'[tx'[w].env.job] + 1 = tx'[w].env.attempt
                    /\ pc'[w] = "sent" => /\ tx'[w].copy \in Copies
                                          /\ place'[tx'[w].copy] = "transit"
                                          /\ env'[tx'[w].copy] = tx'[w].env
                    /\ pc'[w] = "stored" => \E c \in Copies : InFlight(c, tx[w].env)'
  BY DEF TxOK, InTx
<1>1. CASE Locks(w)
  <2>1. PICK j \in Jobs : Dispatchable(j) /\ tx'[w].env = Env(j, attempts[j] + 1)
    BY <1>1 DEF Locks
  <2>2. attempts[j] \in 0..MaxAttempts /\ attempts[j] < MaxAttempts
    BY <2>1 DEF IInv, TypeOK, StoreTypeOK, RowsOK, Dispatchable
  <2>3. Env(j, attempts[j] + 1) \in Envelopes
    BY SMTT(20), <2>2, MaxAttemptsAssumption DEF Env, Envelopes, Attempts
  <2> QED BY SMTT(20), <1>1, <2>1, <2>3 DEF Locks, Env, Dispatchable, storeVars
<1>2. CASE MovesOn(w)
  <2>0. BrokerTypeOK
    BY DEF IInv, TypeOK
  <2>1. /\ pc[w] \in InTx /\ tx'[w].env = tx[w].env /\ tx[w].env \in Envelopes
        /\ attempts[tx[w].env.job] + 1 = tx[w].env.attempt
    BY <1>2 DEF MovesOn, IInv, TxOK
  <2>2. /\ Dispatchable(tx[w].env.job)'
        /\ attempts'[tx[w].env.job] = attempts[tx[w].env.job]
    BY <2>1, LockedRow DEF Dispatchable
  <2>3. ASSUME pc'[w] = "sent", pc[w] = "selected", tx'[w].copy \in Copies,
               Send(tx'[w].copy, tx[w].env)
        PROVE  place'[tx'[w].copy] = "transit" /\ env'[tx'[w].copy] = tx[w].env
    BY <2>0, <2>3 DEF Send, BrokerTypeOK
  <2>4. ASSUME pc'[w] = "sent", pc[w] = "sent", tx'[w] = tx[w]
        PROVE  /\ tx[w].copy \in Copies
               /\ place'[tx[w].copy] = "transit" /\ env'[tx[w].copy] = tx[w].env
    <3> DEFINE c == tx[w].copy
    <3>1. c \in Copies /\ place[c] = "transit" /\ env[c] = tx[w].env
      BY <2>1, <2>4 DEF IInv, TxOK
    <3>2. holder[c] = None
      BY <3>1 DEF IInv, MessagesOK
    <3> HIDE DEF c
    <3>3. CASE UNCHANGED copyVars
      BY <3>1, <3>3 DEF copyVars, c
    <3>4. ASSUME NEW v \in Workers, NEW d \in Copies, Send(d, tx[v].env)
          PROVE  place'[c] = place[c] /\ env'[c] = env[c]
      BY <2>0, <3>1, <3>4 DEF Send, BrokerTypeOK
    <3>5. ASSUME NEW d \in Copies, ~(pc'[w] = "sent" /\ tx'[w].copy = d), Store(d) \/ Remove(d)
          PROVE  place'[c] = place[c] /\ env'[c] = env[c]
      <4>1. d # c
        BY <2>4, <3>5 DEF c
      <4> QED BY <2>0, <3>1, <3>5, <4>1 DEF Store, Remove, BrokerTypeOK
    <3>6. ASSUME NEW v \in Workers, NEW d \in Copies, PushTo(v, d)
          PROVE  place'[c] = place[c] /\ env'[c] = env[c]
      BY <2>0, <3>1, <3>6 DEF PushTo, BrokerTypeOK
    <3>7. ASSUME NEW v \in Workers, NEW s \in Slots, phase[v][s] \in {"ack", "reject"},
                 conn[v] # "closed", Remove(task[v][s].copy)
          PROVE  place'[c] = place[c] /\ env'[c] = env[c]
      <4>1. task[v][s].copy # c
        BY <3>1, <3>7, TaskCopy
      <4> QED BY <2>0, <3>1, <3>7, <4>1 DEF Remove, BrokerTypeOK
    <3>8. ASSUME NEW v \in Workers, Disconnect(v)
          PROVE  place'[c] = place[c] /\ env'[c] = env[c]
      BY <2>0, <3>1, <3>2, <3>8, WorkersAssumption DEF Disconnect, BrokerTypeOK
    <3>9. place'[c] = place[c] /\ env'[c] = env[c]
      BY <3>3, <3>4, <3>5, <3>6, <3>7, <3>8 DEF Traffic, copyVars
    <3> QED BY <3>1, <3>9 DEF c
  <2>5. ASSUME pc'[w] = "stored", pc[w] = "sent", Store(tx[w].copy)
        PROVE  \E c \in Copies : place'[c] \in {"ready", "held"} /\ env'[c] = tx[w].env
    <3>1. tx[w].copy \in Copies /\ env[tx[w].copy] = tx[w].env
      BY <2>1, <2>5 DEF IInv, TxOK
    <3> QED BY <2>0, <2>5, <3>1 DEF Store, BrokerTypeOK
  <2>6. ASSUME pc'[w] = "stored", pc[w] = "stored"
        PROVE  \E c \in Copies : place'[c] \in {"ready", "held"} /\ env'[c] = tx[w].env
    <3>1. PICK c \in Copies : InFlight(c, tx[w].env)
      BY <2>1, <2>6 DEF IInv, TxOK
    <3>2. attempts[tx[w].env.job] \in Nat
      <4>1. tx[w].env.job \in Jobs /\ attempts \in [Jobs -> 0..MaxAttempts]
        BY <2>1, TxJob DEF IInv, TypeOK, StoreTypeOK
      <4> QED BY SMTT(20), <4>1, MaxAttemptsAssumption
    <3>3. ~Past(tx[w].env)
      BY SMTT(20), <2>1, <3>2 DEF Past
    <3> QED BY <2>1, <3>1, <3>3, InFlightKept
  <2>7. pc'[w] = "stored" => \E c \in Copies : InFlight(c, tx[w].env)'
    BY <1>2, <2>1, <2>5, <2>6 DEF MovesOn, InFlight
  <2>8. pc'[w] = "sent" => /\ tx'[w].copy \in Copies
                           /\ place'[tx'[w].copy] = "transit"
                           /\ env'[tx'[w].copy] = tx'[w].env
    BY SMTT(20), <1>2, <2>1, <2>3, <2>4 DEF MovesOn
  <2> QED BY <2>1, <2>2, <2>7, <2>8
<1> QED BY <1>1, <1>2, DispatcherStep

(* A delivery that is being handled after a step has just come in, or was  *)
(* already there with the same message on the same connection.             *)
Continues(w, s) ==
    /\ phase[w][s] # "none" /\ task'[w][s] = task[w][s]
    /\ mode'[w] # "down"
    /\ conn'[w] # "closed" => conn[w] # "closed"
    /\ phase'[w][s] = phase[w][s] \/ TaskStep(w, s) \/ ExecuteError(w, s)

(* Every step leaves a delivery slot empty, fills it or goes on with it. *)
LEMMA DeliveryStep ==
    ASSUME IInv, [Next]_vars, NEW w \in Workers, NEW s \in Slots, phase'[w][s] # "none"
    PROVE  (\E c \in Copies : Deliver(w, s, c)) \/ Continues(w, s)
<1>0. /\ mode \in [Workers -> {"down", "running", "draining"}]
      /\ conn \in [Workers -> {"closed", "open", "consuming"}]
      /\ phase \in [Workers -> [Slots -> Phases]]
      /\ task \in [Workers -> [Slots -> [env : Envelopes \cup {None}, copy : Copies \cup {None}]]]
  BY DEF IInv, TypeOK, BrokerTypeOK
<1>1. /\ phase[w][s] # "none" => mode[w] # "down"
      /\ mode[w] = "down" => conn[w] = "closed"
  BY DEF IInv, TaskOK
<1>2. ASSUME phase'[w][s] = phase[w][s], task'[w][s] = task[w][s],
             mode'[w] # "down" \/ mode'[w] = mode[w],
             conn'[w] = "closed" \/ conn'[w] = conn[w] \/ conn[w] # "closed"
      PROVE  Continues(w, s)
  BY <1>1, <1>2 DEF Continues
<1>3. CASE UNCHANGED vars
  BY <1>2, <1>3 DEF vars, workerVars, brokerVars
<1>4. CASE GatewayStep \/ Tick
  BY <1>2, <1>4 DEF GatewayStep, EnqueueSelect, EnqueueInsert, Tick, workerVars, brokerVars
<1>5. ASSUME NEW c \in Copies, PublicationStored(c) \/ PublicationRefused(c)
      PROVE  Continues(w, s)
  BY <1>2, <1>5 DEF PublicationStored, PublicationRefused, Store, Drop
<1>6. ASSUME NEW v \in Workers, LoopStep(v)
      PROVE  Continues(w, s)
  <2>1. UNCHANGED <<phase, task>>
    BY <1>6 DEF LoopStep, Consume, LoopExit, LoopThrow, DispatchSelect, DispatchNothing,
          DispatchSend, DispatchCommit, DispatchAbort, Wake, MaintainRecover, MaintainPurge
  <2>2. mode' = mode \/ mode' = [mode EXCEPT ![v] = "draining"]
    BY <1>6 DEF LoopStep, Consume, LoopExit, LoopThrow, DispatchSelect, DispatchNothing,
          DispatchSend, DispatchCommit, DispatchAbort, Wake, MaintainRecover, MaintainPurge,
          StopLoop
  <2>3. conn' = conn \/ (conn[v] = "open" /\ conn' = [conn EXCEPT ![v] = "consuming"])
    BY <1>6 DEF LoopStep, Consume, Register, LoopExit, LoopThrow, DispatchSelect,
          DispatchNothing, DispatchSend, Send, DispatchCommit, DispatchAbort, Wake,
          MaintainRecover, MaintainPurge, brokerVars
  <2> QED BY <1>0, <1>2, <2>1, <2>2, <2>3
<1>7. ASSUME NEW v \in Workers, \/ ProcessStep(v) \/ LoopError(v) \/ Signal(v) \/ Crash(v)
                                \/ LoseConnection(v) \/ ActivateConsumer(v)
      PROVE  Continues(w, s)
  <2>1. CASE Start(v)
    <3>1. v # w
      BY <1>0, <1>1, <2>1 DEF Start
    <3> QED BY <1>0, <1>2, <2>1, <3>1 DEF Start, Connect
  <2>2. CASE Close(v) \/ Crash(v)
    <3>1. v # w
      BY SMTT(20), <1>0, <2>2 DEF Close, Crash, Down
    <3> QED BY <1>0, <1>2, <2>2, <3>1 DEF Close, Crash, Down, Disconnect
  <2>3. CASE LoopError(v) \/ Signal(v)
    BY <1>0, <1>2, <2>3 DEF LoopError, Signal, StopLoop, brokerVars
  <2>4. CASE StopConsuming(v)
    BY <1>0, <1>2, <2>4 DEF StopConsuming, Cancel, workerVars
  <2>5. CASE LoseConnection(v) \/ ActivateConsumer(v)
    BY <1>0, <1>2, <2>5 DEF LoseConnection, Disconnect, ActivateConsumer, Activate, workerVars
  <2> QED BY <1>7, <2>1, <2>2, <2>3, <2>4, <2>5 DEF ProcessStep
<1>8. ASSUME NEW v \in Workers, NEW r \in Slots, TaskStep(v, r) \/ ExecuteError(v, r)
      PROVE  Continues(w, s)
  <2>1. UNCHANGED <<mode, conn>>
    BY <1>8 DEF TaskStep, ExecuteClaim, ExecuteProcess, ExecuteComplete, ExecuteFail,
          ExecuteError, Acknowledge, AckCopy, RejectCopy, brokerVars
  <2>2. CASE Acknowledge(v, r)
    BY <1>0, <1>2, <2>1, <2>2 DEF Acknowledge, SetPhase
  <2>3. CASE \/ ExecuteClaim(v, r) \/ ExecuteProcess(v, r) \/ ExecuteComplete(v, r)
             \/ ExecuteFail(v, r) \/ ExecuteError(v, r)
    <3>1. /\ task' = task /\ phase[v][r] # "none"
          /\ \E p : phase' = [phase EXCEPT ![v][r] = p]
      BY <2>3 DEF ExecuteClaim, ExecuteProcess, ExecuteComplete, ExecuteFail, ExecuteError,
            SetPhase, Outcomes
    <3>2. CASE v = w /\ r = s
      BY <1>1, <1>8, <2>1, <3>1, <3>2 DEF Continues
    <3>3. CASE ~(v = w /\ r = s)
      BY SMTT(20), <1>0, <1>2, <2>1, <3>1, <3>3
    <3> QED BY <3>2, <3>3
  <2> QED BY <1>8, <2>2, <2>3 DEF TaskStep
<1>9. ASSUME NEW v \in Workers, NEW r \in Slots, NEW c \in Copies, Deliver(v, r, c)
      PROVE  (\E d \in Copies : Deliver(w, s, d)) \/ Continues(w, s)
  <2>1. CASE v = w /\ r = s
    BY <1>9, <2>1
  <2>2. CASE ~(v = w /\ r = s)
    BY <1>0, <1>2, <1>9, <2>2 DEF Deliver, SetPhase, PushTo
  <2> QED BY <2>1, <2>2
<1> QED BY <1>3, <1>4, <1>5, <1>6, <1>7, <1>8, <1>9 DEF Next, FaultStep

(* The broker goes on counting a delivery as held while it is handled. *)
LEMMA HolderKept ==
    ASSUME IInv, Traffic, NEW w \in Workers, NEW s \in Slots,
           phase[w][s] # "none", phase'[w][s] # "none",
           conn[w] # "closed", conn'[w] # "closed"
    PROVE  /\ holder'[task[w][s].copy] = w
           /\ env'[task[w][s].copy] = task[w][s].env
<1> DEFINE c == task[w][s].copy
<1>0. BrokerTypeOK
  BY DEF IInv, TypeOK
<1>1. c \in Copies /\ holder[c] = w /\ place[c] = "held" /\ env[c] = task[w][s].env
  BY TaskCopy
<1> HIDE DEF c
<1>2. ASSUME UNCHANGED copyVars
      PROVE  holder'[c] = holder[c] /\ env'[c] = env[c]
  BY <1>2 DEF copyVars
<1>3. ASSUME NEW v \in Workers, NEW d \in Copies, Send(d, tx[v].env)
      PROVE  holder'[c] = holder[c] /\ env'[c] = env[c]
  BY <1>0, <1>1, <1>3 DEF Send, BrokerTypeOK
<1>4. ASSUME NEW d \in Copies, place[d] = "transit", Store(d) \/ Remove(d)
      PROVE  holder'[c] = holder[c] /\ env'[c] = env[c]
  BY <1>0, <1>1, <1>4 DEF Store, Remove, BrokerTypeOK
<1>5. ASSUME NEW v \in Workers, NEW d \in Copies, PushTo(v, d)
      PROVE  holder'[c] = holder[c] /\ env'[c] = env[c]
  BY <1>0, <1>1, <1>5 DEF PushTo, BrokerTypeOK
<1>6. ASSUME NEW v \in Workers, NEW r \in Slots, phase[v][r] \in {"ack", "reject"},
             phase'[v][r] = "none", conn[v] # "closed", Remove(task[v][r].copy)
      PROVE  holder'[c] = holder[c] /\ env'[c] = env[c]
  <2>1. task[v][r].copy \in Copies /\ holder[task[v][r].copy] = v
    BY <1>6, TaskCopy
  <2>2. task[v][r].copy # c
    <3> SUFFICES ASSUME task[v][r].copy = c
                 PROVE  FALSE
      OBVIOUS
    <3>1. v = w
      BY <1>1, <2>1
    <3>2. r = s
      BY <1>6, <3>1 DEF IInv, CopiesExclusive, c
    <3> QED BY <1>6, <3>1, <3>2
  <2> QED BY <1>0, <1>1, <1>6, <2>1, <2>2 DEF Remove, BrokerTypeOK
<1>7. ASSUME NEW v \in Workers, Disconnect(v)
      PROVE  holder'[c] = holder[c] /\ env'[c] = env[c]
  BY <1>0, <1>1, <1>7 DEF Disconnect, BrokerTypeOK
<1>8. holder'[c] = holder[c] /\ env'[c] = env[c]
  BY <1>2, <1>3, <1>4, <1>5, <1>6, <1>7 DEF Traffic
<1> QED BY <1>1, <1>8 DEF c

(* Only an active consumer gets deliveries, and its process is up. *)
LEMMA DeliverFacts ==
    ASSUME IInv, NEW w \in Workers, NEW s \in Slots, NEW c \in Copies, Deliver(w, s, c)
    PROVE  /\ activeConsumer = w /\ activeConsumer' = w
           /\ mode'[w] = mode[w] /\ mode[w] # "down"
           /\ place[c] = "ready" /\ holder'[c] = w /\ env'[c] = env[c]
           /\ env[c] \in Envelopes /\ Justified(env[c])
           /\ phase[w][s] = "none" /\ phase'[w][s] \in {"received", "ignored"}
           /\ task'[w][s].env = env[c] /\ task'[w][s].copy = c
<1>0. TypeOK /\ MessagesOK /\ (activeConsumer = w => conn[w] = "consuming")
      /\ (mode[w] = "down" => conn[w] = "closed")
  BY DEF IInv
<1> QED BY <1>0 DEF Deliver, PushTo, SetPhase, TypeOK, BrokerTypeOK, MessagesOK

(* A claim that finds nothing to start belongs to an attempt already       *)
(* started, and one that starts makes it so.                               *)
LEMMA ClaimStarts ==
    ASSUME IInv, NEW e \in Envelopes, Justified(e), Claim(e.job, e.attempt)
    PROVE  Past(e)'
<1>0. StoreTypeOK /\ RowsOK
  BY DEF IInv, TypeOK
<1>1. /\ e.job \in Jobs /\ e.attempt \in Nat /\ attempts[e.job] \in Nat
  BY SMTT(20), <1>0, MaxAttemptsAssumption DEF Envelopes, Attempts, StoreTypeOK
<1>2. CASE Claimable(e.job, e.attempt)
  BY SMTT(20), <1>0, <1>1, <1>2 DEF Claim, Past, StoreTypeOK
<1>3. CASE ~Claimable(e.job, e.attempt)
  <2>1. Past(e)
    BY SMTT(20), <1>0, <1>1, <1>3 DEF Justified, Claimable, RowsOK
  <2> QED BY <1>3, <2>1 DEF Claim, Past, storeVars
<1> QED BY <1>2, <1>3

(* Every delivery keeps what execute relies on. *)
LEMMA TaskStepKeeps ==
    ASSUME IInv, [Next]_vars, Statement, Traffic, NEW w \in Workers, NEW s \in Slots
    PROVE  TaskOK(w, s)'
<1> SUFFICES ASSUME phase'[w][s] # "none"
             PROVE  /\ mode'[w] # "down"
                    /\ task'[w][s].env \in Envelopes /\ task'[w][s].copy \in Copies
                    /\ Justified(task[w][s].env)'
                    /\ conn'[w] # "closed" => /\ holder'[task'[w][s].copy] = w
                                              /\ env'[task'[w][s].copy] = task'[w][s].env
                    /\ phase'[w][s] \in Owning \cup {"ack", "reject"} => Past(task[w][s].env)'
                    /\ phase'[w][s] = "reject" => FailedBy(task[w][s].env)'
  BY DEF TaskOK
<1>1. ASSUME NEW c \in Copies, Deliver(w, s, c)
      PROVE  TaskOK(w, s)'
  <2>0. env[c] \in Envelopes /\ Justified(env[c]) /\ task'[w][s].env = env[c]
    BY SMTT(20), <1>1, DeliverFacts
  <2>1. Justified(task[w][s].env)'
    BY <2>0, EnvelopeStep DEF Justified, Past
  <2>2. phase'[w][s] \notin Owning \cup {"ack", "reject"}
    BY <1>1, DeliverFacts DEF Owning, Outcomes
  <2>3. /\ mode'[w] # "down" /\ holder'[c] = w /\ env'[c] = env[c]
        /\ task'[w][s].copy = c
    BY SMTT(20), <1>1, DeliverFacts
  <2> QED BY <2>0, <2>1, <2>2, <2>3 DEF TaskOK
<1>2. CASE Continues(w, s)
  <2> DEFINE e == task[w][s].env
  <2>0. /\ phase \in [Workers -> [Slots -> Phases]]
        /\ phase[w][s] # "none" /\ task'[w][s] = task[w][s]
    BY <1>2 DEF IInv, TypeOK, Continues
  <2>1. /\ e \in Envelopes /\ task[w][s].copy \in Copies /\ Justified(e)
        /\ phase[w][s] \in Owning \cup {"ack", "reject"} => Past(e)
        /\ phase[w][s] = "reject" => FailedBy(e)
    BY <2>0 DEF IInv, TaskOK
  <2>2. Justified(task[w][s].env)'
    BY <2>0, <2>1, EnvelopeStep DEF Justified, Past
  <2>3. ASSUME phase'[w][s] \in Owning \cup {"ack", "reject"}
        PROVE  Past(e)'
    <3>1. CASE phase[w][s] \in Owning \cup {"ack", "reject"}
      BY <2>0, <2>1, <3>1, EnvelopeStep DEF Past
    <3>2. CASE phase[w][s] \notin Owning \cup {"ack", "reject"}
      <4>1. ~ExecuteError(w, s)
        BY <2>0, <2>3 DEF ExecuteError, SetPhase, Owning, Outcomes
      <4>2. ExecuteClaim(w, s)
        BY <1>2, <2>0, <2>3, <3>2, <4>1 DEF Continues, TaskStep, ExecuteProcess,
              ExecuteComplete, ExecuteFail, Acknowledge, Owning, Outcomes
      <4>3. Claim(e.job, e.attempt)
        BY <4>2 DEF ExecuteClaim
      <4> QED BY <2>0, <2>1, <4>3, ClaimStarts DEF Past
    <3> QED BY <3>1, <3>2
  <2>4. ASSUME phase'[w][s] = "reject"
        PROVE  FailedBy(e)'
    <3>1. CASE phase[w][s] = "reject"
      BY <2>0, <2>1, <3>1, EnvelopeStep DEF FailedBy
    <3>2. CASE phase[w][s] # "reject"
      <4>1. ExecuteFail(w, s)
        BY ZenonT(40), <1>2, <2>0, <2>4, <3>2 DEF Continues, TaskStep, ExecuteClaim, ExecuteProcess,
              ExecuteComplete, ExecuteError, Acknowledge, SetPhase, Outcomes
      <4>2. Current(e.job, e.attempt) /\ ~Retries(e.job, phase[w][s] = "retryable")
        BY <2>0, <2>4, <4>1 DEF ExecuteFail, SetPhase
      <4>3. StoreTypeOK /\ ResultOfLastAttempt /\ e.job \in Jobs
        BY <2>1 DEF IInv, TypeOK, Envelopes
      <4>4. response[e.job] = 0
        BY <4>2, <4>3 DEF Current, ResultOfLastAttempt
      <4>5. Fail(e.job, e.attempt, phase[w][s] = "retryable")
        BY <4>1 DEF ExecuteFail
      <4>6. /\ status'[e.job] = "failed" /\ attempts'[e.job] = e.attempt
            /\ response'[e.job] = 0
        BY <4>2, <4>3, <4>4, <4>5 DEF Fail, Current, StoreTypeOK
      <4> QED BY <2>0, <4>6 DEF FailedBy
    <3> QED BY <3>1, <3>2
  <2>5. ASSUME conn'[w] # "closed"
        PROVE  holder'[task[w][s].copy] = w /\ env'[task[w][s].copy] = e
    BY <1>2, <2>0, <2>5, HolderKept DEF Continues
  <2> QED BY <1>2, <2>0, <2>1, <2>2, <2>3, <2>4, <2>5 DEF Continues
<1> QED BY <1>1, <1>2, DeliveryStep DEF TaskOK

(* Two deliveries of a worker never share a copy. *)
LEMMA CopiesStep ==
    ASSUME IInv, [Next]_vars
    PROVE  CopiesExclusive'
<1> SUFFICES ASSUME NEW w \in Workers, NEW r \in Slots, NEW s \in Slots, r # s,
                    conn'[w] # "closed", phase'[w][r] # "none", phase'[w][s] # "none",
                    task'[w][r].copy = task'[w][s].copy
             PROVE  FALSE
  BY DEF CopiesExclusive
<1>1. CASE Continues(w, r) /\ Continues(w, s)
  <2>1. CopiesExclusive
    BY DEF IInv
  <2>2. /\ conn[w] # "closed" /\ phase[w][r] # "none" /\ phase[w][s] # "none"
        /\ task[w][r].copy = task[w][s].copy
    BY <1>1 DEF Continues
  <2> QED BY <2>1, <2>2 DEF CopiesExclusive
<1>2. ASSUME NEW x \in Slots, NEW y \in Slots, NEW c \in Copies, Deliver(w, x, c),
             x # y, phase'[w][y] # "none", task'[w][x].copy = task'[w][y].copy
      PROVE  FALSE
  <2>1. ~\E d \in Copies : Deliver(w, y, d)
    <3>1. phase'[w][y] = phase[w][y]
      BY <1>2 DEF Deliver, SetPhase, IInv, TypeOK
    <3> QED BY <1>2, <3>1 DEF Deliver
  <2>2. Continues(w, y)
    BY <1>2, <2>1, DeliveryStep
  <2>3. conn[w] # "closed"
    BY <2>2 DEF Continues
  <2>4. place[task[w][y].copy] = "held" /\ task'[w][y] = task[w][y]
    BY <2>2, <2>3, TaskCopy DEF Continues
  <2>5. place[c] = "ready" /\ task'[w][x].copy = c
    BY SMTT(20), <1>2, DeliverFacts
  <2> QED BY <1>2, <2>4, <2>5
<1> QED BY <1>1, <1>2, DeliveryStep

(* A delivery that starts to own an attempt is the only one whose phase    *)
(* changes, and the row was waiting for exactly that attempt.              *)
LEMMA StartsOwning ==
    ASSUME IInv, NEW v \in Workers, NEW r \in Slots, Continues(v, r),
           phase[v][r] \notin Owning, phase'[v][r] \in Owning
    PROVE  /\ \A w \in Workers, s \in Slots : ~(v = w /\ r = s) => phase'[w][s] = phase[w][s]
           /\ Claimable(task[v][r].env.job, task[v][r].env.attempt)
<1>0. phase \in [Workers -> [Slots -> Phases]]
  BY DEF IInv, TypeOK
<1>1. ExecuteClaim(v, r)
  BY ZenonT(40), <1>0 DEF Continues, TaskStep, ExecuteProcess, ExecuteComplete, ExecuteFail, ExecuteError,
        Acknowledge, SetPhase, Owning, Outcomes
<1>2. Claimable(task[v][r].env.job, task[v][r].env.attempt)
  BY <1>0, <1>1 DEF ExecuteClaim, SetPhase, Owning, Outcomes
<1> QED BY <1>0, <1>1, <1>2 DEF ExecuteClaim, SetPhase

(* No attempt gets a second owner. *)
LEMMA AttemptOnceStep ==
    ASSUME IInv, [Next]_vars
    PROVE  AttemptExecutedOnce'
<1> SUFFICES ASSUME NEW v \in Workers, NEW w \in Workers, NEW r \in Slots, NEW s \in Slots,
                    phase'[v][r] \in Owning, phase'[w][s] \in Owning,
                    task'[v][r].env = task'[w][s].env, ~(v = w /\ r = s)
             PROVE  FALSE
  BY SMTT(20) DEF AttemptExecutedOnce, Owning, Outcomes
<1>1. ASSUME NEW x \in Workers, NEW y \in Slots, phase'[x][y] \in Owning
      PROVE  Continues(x, y)
  BY SMTT(20), <1>1, DeliveryStep, DeliverFacts DEF Owning, Outcomes
<1>2. Continues(v, r) /\ Continues(w, s)
  BY <1>1
<1>3. task[v][r].env = task[w][s].env
  BY <1>2 DEF Continues
<1>4. ASSUME NEW x \in Workers, NEW y \in Slots, NEW a \in Workers, NEW b \in Slots,
             ~(x = a /\ y = b), Continues(x, y), phase[x][y] \notin Owning,
             phase'[x][y] \in Owning, phase'[a][b] \in Owning,
             task[x][y].env = task[a][b].env
      PROVE  FALSE
  <2> DEFINE e == task[x][y].env
  <2>1. Claimable(e.job, e.attempt) /\ phase[a][b] \in Owning
    BY SMTT(20), <1>4, StartsOwning
  <2>2. TaskOK(a, b) /\ "none" \notin Owning
    BY DEF IInv, Owning, Outcomes
  <2>3. task[a][b].env \in Envelopes /\ Past(task[a][b].env)
    BY <2>1, <2>2 DEF TaskOK
  <2> QED BY <1>4, <2>1, <2>3, ClaimableNotPast
<1>5. CASE phase[v][r] \in Owning /\ phase[w][s] \in Owning
  <2>1. AttemptExecutedOnce
    BY DEF IInv
  <2> QED BY <1>3, <1>5, <2>1 DEF AttemptExecutedOnce
<1> QED BY <1>2, <1>3, <1>4, <1>5

(* The active consumer changes only from nobody, after a drain, or with    *)
(* the end of its connection; a consumer that is active is registered, and *)
(* a process that is down has no connection.                               *)
LEMMA ConsumerStep ==
    ASSUME IInv, [Next]_vars, NEW w \in Workers
    PROVE  /\ activeConsumer = w => activeConsumer' = w \/ Drained(w) \/ conn'[w] = "closed"
           /\ activeConsumer' = w => conn'[w] = "consuming"
           /\ mode'[w] = "down" => conn'[w] = "closed"
           /\ conn' \in [Workers -> {"closed", "open", "consuming"}]
           /\ activeConsumer' \in Workers \cup {None}
           /\ mode' \in [Workers -> {"down", "running", "draining"}]
<1> DEFINE G == /\ activeConsumer = w => activeConsumer' = w \/ Drained(w) \/ conn'[w] = "closed"
                /\ activeConsumer' = w => conn'[w] = "consuming"
                /\ mode'[w] = "down" => conn'[w] = "closed"
                /\ conn' \in [Workers -> {"closed", "open", "consuming"}]
                /\ activeConsumer' \in Workers \cup {None}
                /\ mode' \in [Workers -> {"down", "running", "draining"}]
<1>0. /\ conn \in [Workers -> {"closed", "open", "consuming"}]
      /\ activeConsumer \in Workers \cup {None}
      /\ mode \in [Workers -> {"down", "running", "draining"}]
      /\ activeConsumer = w => conn[w] = "consuming"
      /\ mode[w] = "down" => conn[w] = "closed"
  BY DEF IInv, TypeOK, BrokerTypeOK
<1> USE WorkersAssumption
<1>1. ASSUME UNCHANGED <<conn, activeConsumer>>,
             mode' = mode \/ \E v \in Workers : mode' = [mode EXCEPT ![v] = "draining"]
      PROVE  G
  BY <1>0, <1>1
<1>2. CASE UNCHANGED vars
  BY <1>1, <1>2 DEF vars, workerVars, brokerVars
<1>3. CASE GatewayStep \/ Tick
  BY <1>1, <1>3 DEF GatewayStep, EnqueueSelect, EnqueueInsert, Tick, workerVars, brokerVars
<1>4. CASE \E c \in Copies : PublicationStored(c) \/ PublicationRefused(c)
  BY <1>1, <1>4 DEF PublicationStored, PublicationRefused, Store, Drop
<1>5. ASSUME NEW v \in Workers, LoopStep(v)
      PROVE  G
  <2>1. CASE Consume(v)
    BY <1>0, <2>1 DEF Consume, Register
  <2>2. CASE LoopThrow(v) \/ DispatchAbort(v)
    BY <1>1, <2>2 DEF LoopThrow, DispatchAbort, StopLoop, brokerVars
  <2>3. CASE \/ LoopExit(v) \/ DispatchSelect(v) \/ DispatchNothing(v) \/ DispatchSend(v)
             \/ DispatchCommit(v) \/ Wake(v) \/ MaintainRecover(v) \/ MaintainPurge(v)
    BY <1>1, <2>3 DEF LoopExit, DispatchSelect, DispatchNothing, DispatchSend, Send,
          DispatchCommit, Wake, MaintainRecover, MaintainPurge, brokerVars
  <2> QED BY <1>5, <2>1, <2>2, <2>3 DEF LoopStep
<1>6. ASSUME NEW v \in Workers, \/ ProcessStep(v) \/ LoopError(v) \/ Signal(v) \/ Crash(v)
                                \/ LoseConnection(v) \/ ActivateConsumer(v)
      PROVE  G
  <2>1. CASE Start(v)
    BY <1>0, <2>1 DEF Start, Connect
  <2>2. CASE StopConsuming(v)
    BY <1>0, <2>2 DEF StopConsuming, Cancel, Without, workerVars
  <2>3. CASE Close(v) \/ Crash(v)
    BY SMTT(20), <1>0, <2>3 DEF Close, Crash, Down, Disconnect, Without
  <2>4. CASE LoopError(v) \/ Signal(v)
    BY <1>1, <2>4 DEF LoopError, StopLoop, Signal, brokerVars
  <2>5. CASE LoseConnection(v)
    BY <1>0, <2>5 DEF LoseConnection, Disconnect, Without
  <2>6. CASE ActivateConsumer(v)
    BY <1>0, <2>6 DEF ActivateConsumer, Activate, workerVars
  <2> QED BY <1>6, <2>1, <2>2, <2>3, <2>4, <2>5, <2>6 DEF ProcessStep
<1>7. ASSUME NEW v \in Workers, NEW s \in Slots, TaskStep(v, s) \/ ExecuteError(v, s)
      PROVE  G
  BY <1>1, <1>7 DEF TaskStep, ExecuteClaim, ExecuteProcess, ExecuteComplete, ExecuteFail,
        ExecuteError, Acknowledge, AckCopy, RejectCopy, brokerVars
<1>8. ASSUME NEW v \in Workers, NEW s \in Slots, NEW c \in Copies, Deliver(v, s, c)
      PROVE  G
  BY <1>1, <1>8 DEF Deliver, PushTo
<1> QED BY <1>2, <1>3, <1>4, <1>5, <1>6, <1>7, <1>8 DEF Next, FaultStep

(* A consumer that runs calls stays the active one. *)
LEMMA HandoverStep ==
    ASSUME IInv, [Next]_vars
    PROVE  HandoverRunsOneConsumer'
<1> SUFFICES ASSUME NEW w \in Workers, NEW s \in Slots,
                    phase'[w][s] \notin Settled, conn'[w] # "closed"
             PROVE  activeConsumer' = w
  BY DEF HandoverRunsOneConsumer, Settled
<1>1. CASE \E c \in Copies : Deliver(w, s, c)
  BY <1>1, DeliverFacts
<1>2. CASE Continues(w, s)
  <2>1. phase[w][s] \notin Settled
    BY <1>2 DEF Continues, TaskStep, ExecuteClaim, ExecuteProcess, ExecuteComplete,
          ExecuteFail, ExecuteError, Acknowledge, Settled, Outcomes
  <2>2. activeConsumer = w
    BY <1>2, <2>1 DEF Continues, IInv, HandoverRunsOneConsumer
  <2>3. ~Drained(w)
    BY <2>1 DEF Drained
  <2> QED BY <2>2, <2>3, ConsumerStep
<1>3. phase'[w][s] # "none"
  BY DEF Settled
<1> QED BY <1>1, <1>2, <1>3, DeliveryStep

(* Only a final failure is dead-lettered. *)
LEMMA DeadLettersStep ==
    ASSUME IInv, [Next]_vars, Statement
    PROVE  dead' \subseteq Envelopes /\ DeadLettersFailed'
<1>0. /\ dead \subseteq Envelopes
      /\ \A e \in dead : FailedBy(e)
  BY DEF IInv, TypeOK, BrokerTypeOK, DeadLettersFailed
<1>1. \A e \in dead' : e \in Envelopes /\ FailedBy(e)
  <2>1. CASE UNCHANGED dead
    BY <1>0, <2>1
  <2>2. CASE UNCHANGED vars
    BY <2>1, <2>2 DEF vars, brokerVars
  <2>3. CASE GatewayStep \/ Tick
    BY <2>1, <2>3 DEF GatewayStep, EnqueueSelect, EnqueueInsert, Tick, brokerVars
  <2>4. CASE \E c \in Copies : PublicationStored(c) \/ PublicationRefused(c)
    BY <2>1, <2>4 DEF PublicationStored, PublicationRefused, Store, Drop
  <2>5. ASSUME NEW w \in Workers, LoopStep(w)
        PROVE  UNCHANGED dead
    BY <2>5 DEF LoopStep, Consume, Register, LoopExit, LoopThrow, DispatchSelect,
          DispatchNothing, DispatchSend, Send, DispatchCommit, DispatchAbort, Wake,
          MaintainRecover, MaintainPurge, brokerVars
  <2>6. ASSUME NEW w \in Workers, \/ ProcessStep(w) \/ LoopError(w) \/ Signal(w) \/ Crash(w)
                                  \/ LoseConnection(w) \/ ActivateConsumer(w)
        PROVE  UNCHANGED dead
    BY <2>6 DEF ProcessStep, Start, Connect, StopConsuming, Cancel, Close, Down, LoopError,
          Signal, Crash, LoseConnection, Disconnect, ActivateConsumer, Activate, brokerVars
  <2>7. ASSUME NEW w \in Workers, NEW s \in Slots, TaskStep(w, s) \/ ExecuteError(w, s)
        PROVE  \A e \in dead' : e \in Envelopes /\ FailedBy(e)
    <3>1. CASE phase[w][s] = "reject" /\ conn[w] # "closed" /\ RejectCopy(task[w][s].copy)
      <4>1. /\ task[w][s].env \in Envelopes /\ FailedBy(task[w][s].env)
        BY <3>1 DEF IInv, TaskOK
      <4>2. env[task[w][s].copy] = task[w][s].env
        BY SMTT(20), <3>1, TaskCopy
      <4> QED BY <1>0, <3>1, <4>1, <4>2 DEF RejectCopy
    <3>2. CASE ~(phase[w][s] = "reject" /\ conn[w] # "closed" /\ RejectCopy(task[w][s].copy))
      BY <2>1, <2>7, <3>2 DEF TaskStep, ExecuteClaim, ExecuteProcess, ExecuteComplete,
            ExecuteFail, ExecuteError, Acknowledge, AckCopy, brokerVars
    <3> QED BY <3>1, <3>2
  <2>8. ASSUME NEW w \in Workers, NEW s \in Slots, NEW c \in Copies, Deliver(w, s, c)
        PROVE  UNCHANGED dead
    BY <2>8 DEF Deliver, PushTo
  <2> QED BY <2>1, <2>2, <2>3, <2>4, <2>5, <2>6, <2>7, <2>8 DEF Next, FaultStep
<1> QED BY <1>1, EnvelopeStep DEF DeadLettersFailed, FailedBy

(* The rest of the type invariant. *)
LEMMA WorkerTypeStep ==
    ASSUME IInv, [Next]_vars
    PROVE  /\ failed' \subseteq Workers
           /\ pc' \in [Workers -> InTx \cup {"off", "connected", "top", "purge", "dispatch", "sleep"}]
           /\ tx' \in [Workers -> [env : Envelopes \cup {None}, copy : Copies \cup {None}]]
           /\ phase' \in [Workers -> [Slots -> Phases]]
           /\ task' \in [Workers -> [Slots -> [env : Envelopes \cup {None}, copy : Copies \cup {None}]]]
           /\ client' \in [Gateways -> [key : Keys, payload : Payloads] \cup {Idle}]
           /\ receipts' \subseteq [id : Jobs, key : Keys, payload : Payloads]
           /\ faults' \in 0..MaxFaults
<1> DEFINE Messages == [env : Envelopes \cup {None}, copy : Copies \cup {None}]
           Steps == InTx \cup {"off", "connected", "top", "purge", "dispatch", "sleep"}
           D == /\ failed' \subseteq Workers
                /\ pc' \in [Workers -> Steps]
                /\ tx' \in [Workers -> Messages]
           T == /\ phase' \in [Workers -> [Slots -> Phases]]
                /\ task' \in [Workers -> [Slots -> Messages]]
           C == /\ client' \in [Gateways -> [key : Keys, payload : Payloads] \cup {Idle}]
                /\ receipts' \subseteq [id : Jobs, key : Keys, payload : Payloads]
           F == faults' \in 0..MaxFaults
<1>0. /\ failed \subseteq Workers
      /\ pc \in [Workers -> Steps]
      /\ tx \in [Workers -> Messages]
      /\ phase \in [Workers -> [Slots -> Phases]]
      /\ task \in [Workers -> [Slots -> Messages]]
      /\ client \in [Gateways -> [key : Keys, payload : Payloads] \cup {Idle}]
      /\ receipts \subseteq [id : Jobs, key : Keys, payload : Payloads]
      /\ faults \in 0..MaxFaults
      /\ env \in [Copies -> Envelopes \cup {None}]
  BY DEF IInv, TypeOK, BrokerTypeOK
<1>a. Nothing \in Messages
  BY DEF Nothing
<1>b. \A e \in Envelopes \cup {None}, c \in Copies \cup {None} : [env |-> e, copy |-> c] \in Messages
  OBVIOUS
<1>c. {"off", "connected", "top", "purge", "dispatch", "sleep", "selected", "sent", "stored",
       "refused"} \subseteq Steps
  BY DEF InTx
<1>d. {"none", "ignored", "stuck", "running", "succeeded", "retryable", "permanent",
       "received", "ack", "reject"} \subseteq Phases
  BY DEF Phases, Settled, Owning, Outcomes
<1> HIDE DEF Messages, Steps
<1>1. ASSUME UNCHANGED <<failed, pc, tx>> PROVE D
  BY <1>0, <1>1
<1>2. ASSUME UNCHANGED <<phase, task>> PROVE T
  BY <1>0, <1>2
<1>3. ASSUME UNCHANGED clientVars PROVE C
  BY <1>0, <1>3 DEF clientVars
<1>4. ASSUME UNCHANGED faults \/ Fault PROVE F
  BY SMTT(20), <1>0, <1>4, MaxFaultsAssumption DEF Fault
<1>5. CASE UNCHANGED vars
  BY <1>1, <1>2, <1>3, <1>4, <1>5 DEF vars, workerVars, Messages, Steps
<1>6. CASE GatewayStep
  <2>1. ASSUME NEW g \in Gateways, EnqueueSelect(g)
        PROVE  C
    <3>1. client[g] \in [key : Keys, payload : Payloads]
      BY <1>0, <2>1 DEF EnqueueSelect
    <3> QED BY SMTT(20), <1>0, <2>1, <3>1 DEF EnqueueSelect, Receipt, Holders
  <2>2. ASSUME NEW g \in Gateways, NEW k \in Keys, NEW p \in Payloads, EnqueueInsert(g, k, p)
        PROVE  C
    BY SMTT(20), <1>0, <2>2 DEF EnqueueInsert, Receipt
  <2>3. C
    BY <1>6, <2>1, <2>2 DEF GatewayStep
  <2>4. UNCHANGED workerVars /\ UNCHANGED faults
    BY <1>6 DEF GatewayStep, EnqueueSelect, EnqueueInsert
  <2> QED BY <1>1, <1>2, <1>4, <2>3, <2>4 DEF workerVars, Messages, Steps
<1>7. CASE Tick
  BY <1>1, <1>2, <1>3, <1>4, <1>7 DEF Tick, workerVars, Messages, Steps
<1>8. ASSUME NEW c \in Copies, PublicationStored(c) \/ PublicationRefused(c)
      PROVE  D /\ T /\ C /\ F
  <2>1. D
    BY <1>0, <1>8, <1>c DEF PublicationStored, PublicationRefused, Reply
  <2> QED BY <1>2, <1>3, <1>4, <1>8, <2>1 DEF PublicationStored, PublicationRefused
<1>9. ASSUME NEW w \in Workers, LoopStep(w)
      PROVE  D /\ T /\ C /\ F
  <2>1. CASE DispatchSelect(w)
    <3>1. PICK j \in Jobs : /\ Dispatchable(j)
                            /\ tx' = [tx EXCEPT ![w] = [env |-> Env(j, attempts[j] + 1),
                                                        copy |-> None]]
      BY <2>1 DEF DispatchSelect
    <3>2. attempts[j] \in 0..MaxAttempts /\ attempts[j] < MaxAttempts
      BY <3>1 DEF IInv, TypeOK, StoreTypeOK, RowsOK, Dispatchable
    <3>3. Env(j, attempts[j] + 1) \in Envelopes
      BY SMTT(20), <3>2, MaxAttemptsAssumption DEF Env, Envelopes, Attempts
    <3>4. D
      BY <1>0, <1>b, <1>c, <2>1, <3>1, <3>3 DEF DispatchSelect, Goto
    <3> QED BY <1>2, <1>3, <1>4, <2>1, <3>4 DEF DispatchSelect
  <2>2. CASE DispatchSend(w)
    <3>1. tx[w].env \in Envelopes
      BY <2>2, TxJob DEF DispatchSend, InTx
    <3>2. D
      BY SMTT(20), <1>0, <1>b, <1>c, <2>2, <3>1 DEF DispatchSend, Goto
    <3> QED BY <1>2, <1>3, <1>4, <2>2, <3>2 DEF DispatchSend
  <2>3. CASE DispatchCommit(w)
    <3>1. D
      BY SMTT(20), <1>0, <1>a, <1>c, <2>3 DEF DispatchCommit, GoOn, Goto
    <3> QED BY <1>2, <1>3, <1>4, <2>3, <3>1 DEF DispatchCommit
  <2>4. CASE DispatchAbort(w)
    <3>1. D
      BY <1>0, <1>a, <1>c, <2>4 DEF DispatchAbort, StopLoop, Goto
    <3> QED BY <1>2, <1>3, <1>4, <2>4, <3>1 DEF DispatchAbort, NoFault
  <2>5. CASE \/ Consume(w) \/ LoopExit(w) \/ LoopThrow(w) \/ DispatchNothing(w) \/ Wake(w)
             \/ MaintainRecover(w) \/ MaintainPurge(w)
    <3>1. D
      BY ZenonT(40), <1>0, <1>c, <2>5 DEF Consume, LoopExit, LoopThrow, DispatchNothing, Wake,
            MaintainRecover, MaintainPurge, StopLoop, GoOn, Goto
    <3> QED BY <1>2, <1>3, <1>4, <2>5, <3>1 DEF Consume, LoopExit, LoopThrow,
            DispatchNothing, Wake, MaintainRecover, MaintainPurge
  <2> QED BY <1>9, <2>1, <2>2, <2>3, <2>4, <2>5 DEF LoopStep
<1>10. ASSUME NEW w \in Workers, \/ ProcessStep(w) \/ LoopError(w) \/ Signal(w) \/ Crash(w)
                                 \/ LoseConnection(w) \/ ActivateConsumer(w)
       PROVE  D /\ T /\ C /\ F
  <2>1. CASE Close(w) \/ Crash(w)
    <3>1. Down(w)
      BY <2>1 DEF Close, Crash
    <3>2. D
      BY <1>0, <1>a, <1>c, <3>1 DEF Down
    <3>3. /\ [s \in Slots |-> "none"] \in [Slots -> Phases]
          /\ [s \in Slots |-> Nothing] \in [Slots -> Messages]
      BY <1>a, <1>d
    <3>4. T
      BY <1>0, <3>1, <3>3 DEF Down
    <3> QED BY <1>3, <1>4, <2>1, <3>1, <3>2, <3>4 DEF Close, Crash, Down, NoFault
  <2>2. CASE Start(w) \/ LoopError(w) \/ Signal(w) \/ LoseConnection(w)
    <3>1. D
      BY <1>0, <1>c, <2>2 DEF Start, LoopError, StopLoop, Signal, LoseConnection, Goto
    <3> QED BY <1>2, <1>3, <1>4, <2>2, <3>1 DEF Start, LoopError, Signal, LoseConnection
  <2>3. CASE StopConsuming(w) \/ ActivateConsumer(w)
    BY <1>1, <1>2, <1>3, <1>4, <2>3 DEF StopConsuming, ActivateConsumer, workerVars
  <2> QED BY <1>10, <2>1, <2>2, <2>3 DEF ProcessStep
<1>11. ASSUME NEW w \in Workers, NEW s \in Slots, TaskStep(w, s) \/ ExecuteError(w, s)
       PROVE  D /\ T /\ C /\ F
  <2>1. CASE Acknowledge(w, s)
    <3>1. D /\ T
      BY <1>0, <1>a, <1>d, <2>1 DEF Acknowledge, SetPhase
    <3> QED BY <1>3, <1>4, <2>1, <3>1 DEF Acknowledge
  <2>2. CASE \/ ExecuteClaim(w, s) \/ ExecuteProcess(w, s) \/ ExecuteComplete(w, s)
             \/ ExecuteFail(w, s) \/ ExecuteError(w, s)
    <3>0. PICK p \in Phases : phase' = [phase EXCEPT ![w][s] = p]
      <4>1. CASE ExecuteClaim(w, s) \/ ExecuteComplete(w, s)
        BY <1>d, <4>1 DEF ExecuteClaim, ExecuteComplete, SetPhase
      <4>2. CASE ExecuteProcess(w, s)
        BY <1>d, <4>2 DEF ExecuteProcess, SetPhase, Outcomes
      <4>3. CASE ExecuteFail(w, s) \/ ExecuteError(w, s)
        BY <1>d, <4>3 DEF ExecuteFail, ExecuteError, SetPhase
      <4> QED BY <2>2, <4>1, <4>2, <4>3
    <3>a. UNCHANGED task
      BY <2>2 DEF ExecuteClaim, ExecuteProcess, ExecuteComplete, ExecuteFail, ExecuteError
    <3>1. T
      BY <1>0, <3>0, <3>a
    <3>2. D
      BY <1>0, <2>2 DEF ExecuteClaim, ExecuteProcess, ExecuteComplete, ExecuteFail,
            ExecuteError
    <3> QED BY <1>3, <1>4, <2>2, <3>1, <3>2 DEF ExecuteClaim, ExecuteProcess,
            ExecuteComplete, ExecuteFail, ExecuteError
  <2> QED BY <1>11, <2>1, <2>2 DEF TaskStep
<1>12. ASSUME NEW w \in Workers, NEW s \in Slots, NEW c \in Copies, Deliver(w, s, c)
       PROVE  D /\ T /\ C /\ F
  <2>1. T
    BY <1>0, <1>b, <1>d, <1>12 DEF Deliver, SetPhase
  <2> QED BY <1>1, <1>3, <1>4, <1>12, <2>1 DEF Deliver
<1> QED BY <1>5, <1>6, <1>7, <1>8, <1>9, <1>10, <1>11, <1>12
        DEF Next, FaultStep, Messages, Steps

(* The inductive invariant holds initially. *)
LEMMA InitIInv ==
    ASSUME Init
    PROVE  IInv
<1> USE MaxAttemptsAssumption, MaxFaultsAssumption, WorkersAssumption
        DEF Init, StoreInit, BrokerInit
<1>1. StoreTypeOK
  BY SMTT(20) DEF StoreTypeOK
<1>2. BrokerTypeOK
  BY DEF BrokerTypeOK
<1>3. TypeOK
  <2>1. Nothing \in [env : Envelopes \cup {None}, copy : Copies \cup {None}]
    BY DEF Nothing
  <2> QED BY SMTT(20), <1>1, <1>2, <2>1 DEF TypeOK, Phases, Settled
<1>4. RowsOK /\ MessagesOK /\ NoLostJob /\ ResultOfLastAttempt /\ DeadLettersFailed
  BY SMTT(20) DEF RowsOK, MessagesOK, NoLostJob, ResultOfLastAttempt, DeadLettersFailed, Waiting
<1>5. LocksExclusive /\ CopiesExclusive
  BY DEF LocksExclusive, CopiesExclusive, InTx
<1>6. AttemptExecutedOnce /\ HandoverRunsOneConsumer
  BY DEF AttemptExecutedOnce, HandoverRunsOneConsumer, Owning, Outcomes, Settled
<1>7. ASSUME NEW w \in Workers
      PROVE  /\ TxOK(w) /\ (mode[w] = "down" => conn[w] = "closed")
             /\ activeConsumer = w => conn[w] = "consuming"
             /\ \A s \in Slots : TaskOK(w, s)
  BY <1>7 DEF TxOK, TaskOK, InTx
<1> QED BY <1>3, <1>4, <1>5, <1>6, <1>7 DEF IInv

(* Every step keeps the inductive invariant. *)
LEMMA NextIInv ==
    ASSUME IInv, [Next]_vars
    PROVE  IInv'
<1>1. Statement /\ Traffic
  BY StatementOfStep, TrafficOfStep
<1>2. BrokerTypeOK'
  <2>1. /\ conn' \in [Workers -> {"closed", "open", "consuming"}]
        /\ activeConsumer' \in Workers \cup {None}
    <3>1. CASE Workers = {}
      <4>1. activeConsumer' = activeConsumer /\ conn' = conn
        BY <3>1 DEF Next, vars, GatewayStep, EnqueueSelect, EnqueueInsert, Tick,
              PublicationStored, PublicationRefused, Store, Drop, brokerVars
      <4> QED BY <4>1 DEF IInv, TypeOK, BrokerTypeOK
    <3>2. CASE Workers # {}
      BY <3>2, ConsumerStep
    <3> QED BY <3>1, <3>2
  <2> QED BY <1>1, <2>1, CopyTypeStep, DeadLettersStep DEF BrokerTypeOK
<1>3. mode' \in [Workers -> {"down", "running", "draining"}]
  <2>1. CASE Workers = {}
    <3>1. mode' = mode
      BY <2>1 DEF Next, vars, GatewayStep, EnqueueSelect, EnqueueInsert, Tick,
            PublicationStored, PublicationRefused, workerVars
    <3> QED BY <3>1 DEF IInv, TypeOK
  <2>2. CASE Workers # {}
    BY <2>2, ConsumerStep
  <2> QED BY <2>1, <2>2
<1>4. TypeOK'
  BY <1>1, <1>2, <1>3, StoreTypeStep, WorkerTypeStep DEF TypeOK
<1>5. RowsOK' /\ ResultOfLastAttempt' /\ MessagesOK' /\ NoLostJob'
  BY <1>1, RowsStep, MessagesStep, NoLostJobStep
<1>6. LocksExclusive' /\ CopiesExclusive' /\ AttemptExecutedOnce' /\ HandoverRunsOneConsumer'
  BY LocksStep, CopiesStep, AttemptOnceStep, HandoverStep
<1>7. DeadLettersFailed'
  BY <1>1, DeadLettersStep
<1>8. \A w \in Workers : /\ TxOK(w)'
                         /\ mode'[w] = "down" => conn'[w] = "closed"
                         /\ activeConsumer' = w => conn'[w] = "consuming"
                         /\ \A s \in Slots : TaskOK(w, s)'
  BY <1>1, TxStep, TaskStepKeeps, ConsumerStep
<1> QED BY <1>4, <1>5, <1>6, <1>7, <1>8 DEF IInv

(* The inductive invariant: the system never leaves it, for any number of  *)
(* jobs, workers, slots, copies, attempts and faults.                      *)
THEOREM Inductive == Spec => []IInv
  BY InitIInv, NextIInv, PTL DEF Spec

(* Every variable keeps its type. *)
THEOREM TypeCorrect == Spec => []TypeOK
<1>1. IInv => TypeOK
  BY DEF IInv
<1> QED BY <1>1, Inductive, PTL

(* No accepted job is lost: what dispatchOne took out of the outbox is in  *)
(* the broker until an attempt starts.                                     *)
THEOREM NoJobLost == Spec => []NoLostJob
<1>1. IInv => NoLostJob
  BY DEF IInv
<1> QED BY <1>1, Inductive, PTL

(* claim gives an attempt to one delivery only. *)
THEOREM OneOwner == Spec => []AttemptExecutedOnce
<1>1. IInv => AttemptExecutedOnce
  BY DEF IInv
<1> QED BY <1>1, Inductive, PTL

(* complete stores the response of the last attempt started. *)
THEOREM LastResult == Spec => []ResultOfLastAttempt
<1>1. IInv => ResultOfLastAttempt
  BY DEF IInv
<1> QED BY <1>1, Inductive, PTL

(* stopConsuming drains before it hands the queue over. *)
THEOREM OneConsumer == Spec => []HandoverRunsOneConsumer
<1>1. IInv => HandoverRunsOneConsumer
  BY DEF IInv
<1> QED BY <1>1, Inductive, PTL

(* Only a job's final failure is dead-lettered. *)
THEOREM DeadLetters == Spec => []DeadLettersFailed
<1>1. IInv => DeadLettersFailed
  BY DEF IInv
<1> QED BY <1>1, Inductive, PTL

----------------------------------------------------------------------------
(* Submissions. *)

(* Two retained rows never share a key: the unique constraint. *)
UniqueKeys == \A i, j \in Jobs : i # j /\ status[i] \in Retained /\ status[j] \in Retained
                                   => submitted[i].key # submitted[j].key

(* What a statement may do to one row, as far as submissions go: it is     *)
(* inserted under a free key, or keeps its submission and does not come    *)
(* back.                                                                   *)
KeepsRow(j) == /\ submitted'[j] = submitted[j]
               /\ status'[j] \in Retained => status[j] \in Retained
               /\ status[j] # "absent" => status'[j] # "absent"
LEMMA SubmissionOfRow ==
    ASSUME IInv, Statement
    PROVE  \/ \A j \in Jobs : KeepsRow(j)
           \/ \E j \in Jobs, k \in Keys, p \in Payloads :
                 /\ status[j] = "absent" /\ Holders(k) = {}
                 /\ submitted'[j].key = k /\ status'[j] # "absent"
                 /\ \A i \in Jobs \ {j} : KeepsRow(i)
<1> USE DEF StoreTypeOK, Retained, KeepsRow
<1>0. StoreTypeOK /\ RowsOK
  BY DEF IInv, TypeOK
<1>1. CASE UNCHANGED storeVars
  BY <1>1 DEF storeVars
<1>2. ASSUME NEW j \in Jobs, NEW k \in Keys, NEW p \in Payloads,
             status[j] = "absent", Holders(k) = {}, Insert(j, k, p)
      PROVE  /\ submitted'[j].key = k /\ status'[j] # "absent"
             /\ \A i \in Jobs \ {j} : KeepsRow(i)
  BY SMTT(20), <1>0, <1>2 DEF Insert
<1>3. ASSUME NEW w \in Workers, ClearPending(tx[w].env.job)
      PROVE  \A j \in Jobs : KeepsRow(j)
  BY <1>3 DEF ClearPending
<1>4. ASSUME NEW e \in Envelopes, Claim(e.job, e.attempt)
      PROVE  \A j \in Jobs : KeepsRow(j)
  BY SMTT(20), <1>0, <1>4 DEF Claim, Claimable, storeVars, Waiting
<1>5. ASSUME NEW e \in Envelopes, Complete(e.job, e.attempt)
      PROVE  \A j \in Jobs : KeepsRow(j)
  BY SMTT(20), <1>0, <1>5 DEF Complete, Current, storeVars
<1>6. ASSUME NEW e \in Envelopes, NEW b \in BOOLEAN, Fail(e.job, e.attempt, b)
      PROVE  \A j \in Jobs : KeepsRow(j)
  BY SMTT(20), <1>0, <1>6 DEF Fail, Current, storeVars
<1>7. CASE Recover
  BY SMTT(20), <1>0, <1>7 DEF Recover, OnExpired, Expired
<1>8. CASE Purge
  BY SMTT(20), <1>0, <1>8 DEF Purge
<1>9. ASSUME NEW j \in Jobs, BecomeDue(j) \/ ExpireLease(j) \/ GrowOld(j)
      PROVE  \A i \in Jobs : KeepsRow(i)
  BY <1>9 DEF BecomeDue, ExpireLease, GrowOld
<1> QED BY <1>1, <1>2, <1>3, <1>4, <1>5, <1>6, <1>7, <1>8, <1>9 DEF Statement

LEMMA UniqueKeysStep ==
    ASSUME IInv, Statement, UniqueKeys
    PROVE  UniqueKeys'
<1>1. CASE \A j \in Jobs : KeepsRow(j)
  BY <1>1 DEF UniqueKeys, KeepsRow, Retained
<1>2. ASSUME NEW j \in Jobs, NEW k \in Keys, Holders(k) = {}, submitted'[j].key = k,
             \A i \in Jobs \ {j} : KeepsRow(i)
      PROVE  UniqueKeys'
  <2>1. ASSUME NEW i \in Jobs \ {j}, status'[i] \in Retained
        PROVE  submitted'[i].key # k
    BY <1>2, <2>1 DEF KeepsRow, Holders, Retained
  <2> QED BY <1>2, <2>1 DEF UniqueKeys, KeepsRow, Retained
<1> QED BY <1>1, <1>2, SubmissionOfRow

(* The receipts a step hands out. *)
LEMMA NewReceipts ==
    ASSUME IInv, [Next]_vars, NEW r \in receipts', r \notin receipts
    PROVE  /\ submitted'[r.id].key = r.key /\ submitted'[r.id].payload = r.payload
           /\ status'[r.id] # "absent"
<1>0. StoreTypeOK
  BY DEF IInv, TypeOK
<1>1. GatewayStep
  <2>1. ASSUME NEW w \in Workers, LoopStep(w) \/ ProcessStep(w) \/ ActivateConsumer(w)
        PROVE  UNCHANGED clientVars
    BY <2>1 DEF LoopStep, Consume, LoopExit, LoopThrow, DispatchSelect, DispatchNothing,
          DispatchSend, DispatchCommit, DispatchAbort, Wake, MaintainRecover, MaintainPurge,
          ProcessStep, Start, StopConsuming, Close, Down, ActivateConsumer
  <2>2. ASSUME NEW w \in Workers, LoopError(w) \/ Signal(w) \/ Crash(w) \/ LoseConnection(w)
        PROVE  UNCHANGED clientVars
    BY <2>2 DEF LoopError, Signal, Crash, Down, LoseConnection
  <2>3. ASSUME NEW w \in Workers, NEW s \in Slots, TaskStep(w, s) \/ ExecuteError(w, s)
        PROVE  UNCHANGED clientVars
    BY <2>3 DEF TaskStep, ExecuteClaim, ExecuteProcess, ExecuteComplete, ExecuteFail,
          ExecuteError, Acknowledge
  <2>4. ASSUME NEW w \in Workers, NEW s \in Slots, NEW c \in Copies, Deliver(w, s, c)
        PROVE  UNCHANGED clientVars
    BY <2>4 DEF Deliver
  <2>5. ASSUME \/ Tick \/ UNCHANGED vars
               \/ \E c \in Copies : PublicationStored(c) \/ PublicationRefused(c)
        PROVE  UNCHANGED clientVars
    BY <2>5 DEF Tick, vars, PublicationStored, PublicationRefused
  <2> QED BY <2>1, <2>2, <2>3, <2>4, <2>5 DEF Next, FaultStep, clientVars
<1>2. ASSUME NEW j \in Jobs, NEW k \in Keys, NEW p \in Payloads, Insert(j, k, p),
             receipts' = receipts \cup {Receipt(j, k, p)}
      PROVE  /\ submitted'[r.id].key = r.key /\ submitted'[r.id].payload = r.payload
             /\ status'[r.id] # "absent"
  <2>1. r = Receipt(j, k, p)
    BY <1>2
  <2>2. submitted'[j] = [key |-> k, payload |-> p] /\ status'[j] = "queued"
    BY <1>0, <1>2 DEF Insert, StoreTypeOK
  <2> QED BY SMTT(20), <2>1, <2>2 DEF Receipt
<1>3. ASSUME NEW g \in Gateways, EnqueueSelect(g)
      PROVE  /\ submitted'[r.id].key = r.key /\ submitted'[r.id].payload = r.payload
             /\ status'[r.id] # "absent"
  <2>1. PICK j \in Holders(client[g].key) :
           /\ submitted[j].payload = client[g].payload
           /\ r = Receipt(j, client[g].key, client[g].payload)
    BY <1>3 DEF EnqueueSelect
  <2>2. /\ submitted[j].key = client[g].key /\ status[j] # "absent"
        /\ UNCHANGED <<submitted, status>>
    BY <1>3, <2>1 DEF EnqueueSelect, Holders, Retained, storeVars
  <2> QED BY SMTT(20), <2>1, <2>2 DEF Receipt
<1> QED BY <1>1, <1>2, <1>3 DEF GatewayStep, EnqueueInsert

LEMMA ReceiptStep ==
    ASSUME IInv, ReceiptInv, [Next]_vars
    PROVE  ReceiptInv'
<1>0. Statement
  BY StatementOfStep
<1>1. UniqueKeys
  BY DEF ReceiptInv, ReceiptsFaithful, UniqueKeys
<1>2. UniqueKeys'
  BY <1>0, <1>1, UniqueKeysStep
<1>3. ASSUME NEW r \in receipts, status[r.id] # "absent"
      PROVE  submitted'[r.id] = submitted[r.id] /\ status'[r.id] # "absent"
  <2>1. r.id \in Jobs
    BY SMTT(20) DEF IInv, TypeOK
  <2> QED BY <1>0, <1>3, <2>1, SubmissionOfRow DEF KeepsRow
<1>4. ASSUME NEW r \in receipts'
      PROVE  /\ submitted'[r.id].key = r.key /\ submitted'[r.id].payload = r.payload
             /\ status'[r.id] # "absent"
  <2>1. CASE r \in receipts
    BY <1>3, <2>1 DEF ReceiptInv, ReceiptsFaithful
  <2> QED BY <2>1, NewReceipts
<1> QED BY <1>2, <1>4 DEF ReceiptInv, ReceiptsFaithful, UniqueKeys, Retained

(* A receipt names a job with the key and the payload that were submitted, *)
(* whoever inserted the row and whatever was purged between the two        *)
(* statements of enqueue, and no two retained jobs have one key.           *)
THEOREM FaithfulReceipts == Spec => []ReceiptsFaithful
<1>1. ASSUME Init PROVE ReceiptInv
  <2>1. \A j \in Jobs : status[j] \notin Retained
    BY <1>1 DEF Init, StoreInit, Retained
  <2>2. receipts = {}
    BY <1>1 DEF Init
  <2> QED BY <2>1, <2>2 DEF ReceiptInv, ReceiptsFaithful
<1>2. IInv /\ ReceiptInv /\ [Next]_vars => ReceiptInv'
  BY ReceiptStep
<1>3. ReceiptInv => ReceiptsFaithful
  BY DEF ReceiptInv
<1> QED BY <1>1, <1>2, <1>3, Inductive, PTL DEF Spec

----------------------------------------------------------------------------
(* The contract. *)

(* What a statement may do to one row, as far as getJob shows it. *)
RowMoves(j) ==
    \/ /\ status'[j] = status[j] /\ attempts'[j] = attempts[j] /\ response'[j] = response[j]
    \/ status[j] = "absent" /\ status'[j] = "queued" /\ attempts'[j] = 0
    \/ /\ status[j] \in Waiting /\ attempts[j] < MaxAttempts
       /\ status'[j] = "active" /\ attempts'[j] = attempts[j] + 1
    \/ /\ status[j] = "active" /\ status'[j] = "completed"
       /\ attempts'[j] = attempts[j] /\ response'[j] = attempts[j]
    \/ /\ status[j] = "active" /\ attempts[j] < MaxAttempts
       /\ status'[j] \in Waiting /\ attempts'[j] = attempts[j]
    \/ status[j] = "active" /\ status'[j] = "failed" /\ attempts'[j] = attempts[j]
    \/ status[j] \in Terminal /\ status'[j] = "deleted"

LEMMA RowMovesStep ==
    ASSUME IInv, Statement, NEW j \in Jobs
    PROVE  RowMoves(j)
<1> USE MaxAttemptsAssumption DEF StoreTypeOK, Retained, Waiting, Terminal, Attempts,
        Envelopes, RowsOK, RowMoves
<1>0. StoreTypeOK /\ RowsOK
  BY DEF IInv, TypeOK
<1>1. CASE UNCHANGED storeVars
  BY <1>1 DEF storeVars
<1>2. ASSUME NEW i \in Jobs, NEW k \in Keys, NEW p \in Payloads,
             status[i] = "absent", Insert(i, k, p)
      PROVE  RowMoves(j)
  BY SMTT(20), <1>0, <1>2 DEF Insert
<1>3. ASSUME NEW w \in Workers, ClearPending(tx[w].env.job)
      PROVE  RowMoves(j)
  BY <1>3 DEF ClearPending
<1>4. ASSUME NEW e \in Envelopes, Claim(e.job, e.attempt)
      PROVE  RowMoves(j)
  BY SMTT(20), <1>0, <1>4 DEF Claim, Claimable, storeVars
<1>5. ASSUME NEW e \in Envelopes, Complete(e.job, e.attempt)
      PROVE  RowMoves(j)
  BY SMTT(20), <1>0, <1>5 DEF Complete, Current, storeVars
<1>6. ASSUME NEW e \in Envelopes, NEW b \in BOOLEAN, Fail(e.job, e.attempt, b)
      PROVE  RowMoves(j)
  BY SMTT(20), <1>0, <1>6 DEF Fail, Current, Retries, storeVars
<1>7. CASE Recover
  BY SMTT(20), <1>0, <1>7 DEF Recover, OnExpired, Expired
<1>8. CASE Purge
  BY SMTT(20), <1>0, <1>8 DEF Purge
<1>9. ASSUME NEW i \in Jobs, BecomeDue(i) \/ ExpireLease(i) \/ GrowOld(i)
      PROVE  RowMoves(j)
  BY <1>9 DEF BecomeDue, ExpireLease, GrowOld
<1> QED BY <1>1, <1>2, <1>3, <1>4, <1>5, <1>6, <1>7, <1>8, <1>9 DEF Statement

(* Each of these is a move of the contract. *)
LEMMA ContractMove ==
    ASSUME NEW j \in Jobs, RowMoves(j)
    PROVE  View(j)' = View(j) \/ Contract!Moves(View(j), View(j)')
<1>1. CASE /\ status'[j] = status[j] /\ attempts'[j] = attempts[j] /\ response'[j] = response[j]
  BY <1>1 DEF View, Retained
<1>2. CASE status[j] = "absent" /\ status'[j] = "queued" /\ attempts'[j] = 0
  <2>1. Contract!Submit(View(j), View(j)')
    BY SMTT(20), <1>2 DEF Contract!Submit, View, Retained, Waiting, Terminal, Contract!State
  <2> QED BY <2>1 DEF Contract!Moves
<1>3. CASE /\ status[j] \in Waiting /\ attempts[j] < MaxAttempts
           /\ status'[j] = "active" /\ attempts'[j] = attempts[j] + 1
  <2>1. Contract!Begin(View(j), View(j)')
    BY SMTT(20), <1>3 DEF Contract!Begin, View, Retained, Waiting, Terminal, Contract!State
  <2> QED BY <2>1 DEF Contract!Moves
<1>4. CASE /\ status[j] = "active" /\ status'[j] = "completed"
           /\ attempts'[j] = attempts[j] /\ response'[j] = attempts[j]
  <2>1. Contract!Succeed(View(j), View(j)')
    BY SMTT(20), <1>4 DEF Contract!Succeed, View, Retained, Waiting, Terminal, Contract!State
  <2> QED BY <2>1 DEF Contract!Moves
<1>5. CASE /\ status[j] = "active" /\ attempts[j] < MaxAttempts
           /\ status'[j] \in Waiting /\ attempts'[j] = attempts[j]
  <2>1. Contract!TryAgain(View(j), View(j)')
    BY SMTT(20), <1>5 DEF Contract!TryAgain, View, Retained, Waiting, Terminal, Contract!State
  <2> QED BY <2>1 DEF Contract!Moves
<1>6. CASE status[j] = "active" /\ status'[j] = "failed" /\ attempts'[j] = attempts[j]
  <2>1. Contract!GiveUp(View(j), View(j)')
    BY SMTT(20), <1>6 DEF Contract!GiveUp, View, Retained, Waiting, Terminal, Contract!State
  <2> QED BY <2>1 DEF Contract!Moves
<1>7. CASE status[j] \in Terminal /\ status'[j] = "deleted"
  <2>1. Contract!Forget(View(j), View(j)')
    BY SMTT(20), <1>7 DEF Contract!Forget, View, Retained, Waiting, Terminal, Contract!State
  <2> QED BY <2>1 DEF Contract!Moves
<1> QED BY <1>1, <1>2, <1>3, <1>4, <1>5, <1>6, <1>7 DEF RowMoves

(* The workers, the broker and the table together implement the contract   *)
(* of the job interfaces: projected to what getJob shows, every step of    *)
(* the system is a step of JobContract or changes nothing.                 *)
THEOREM ContractImplemented == Spec => ImplementsContract
<1>1. Init => Contract!ContractInit
  BY SMTT(20) DEF Init, StoreInit, Contract!ContractInit, Contract!State, View, Retained
<1>2. IInv /\ [Next]_vars => [Contract!ContractNext]_[j \in Jobs |-> View(j)]
  <2> SUFFICES ASSUME IInv, [Next]_vars
               PROVE  Contract!ContractNext
    OBVIOUS
  <2>1. ASSUME NEW j \in Jobs
        PROVE  View(j)' = View(j) \/ Contract!Moves(View(j), View(j)')
    BY StatementOfStep, RowMovesStep, ContractMove
  <2> QED BY <2>1 DEF Contract!ContractNext
<1> QED BY <1>1, <1>2, Inductive, PTL DEF Spec, ImplementsContract, Contract!ContractSpec
=============================================================================
