-------------------------- MODULE PostgresJobStore --------------------------
(***************************************************************************)
(* The inference_jobs table and the statements PostgresJobStore runs on    *)
(* it.  Postgres executes one statement atomically on each row, so every   *)
(* statement is one step; the two statements of enqueue and the            *)
(* transaction of dispatchOne, between which others run, are put together  *)
(* from these in JobSystem.                                                *)
(*                                                                         *)
(* Each column is a function on the ids randomUUID can draw; an id is      *)
(* never drawn twice.  Timestamps are abstracted to what the WHERE         *)
(* clauses ask of them: available_at is due or later than NOW(),           *)
(* lease_until is NULL, held or expired, finished_at is NULL, recent or    *)
(* older than 24 hours.  A response is the attempt it came from, 0 for     *)
(* NULL.                                                                   *)
(***************************************************************************)
EXTENDS JobEnvelope

CONSTANTS Keys,     \* the (owner, idempotency key) pairs
          Payloads  \* the payload hashes

VARIABLES status, attempts, dispatch, available, lease, finished, response,
          submitted \* owner and key, and payload hash

storeVars == <<status, attempts, dispatch, available, lease, finished, response,
               submitted>>

Waiting  == {"queued", "retrying"}
Terminal == {"completed", "failed"}
Retained == {"queued", "retrying", "active", "completed", "failed"}

NoSubmission == [key |-> None, payload |-> None]

StoreTypeOK ==
    /\ status    \in [Jobs -> Retained \cup {"absent", "deleted"}]
    /\ attempts  \in [Jobs -> 0..MaxAttempts]
    /\ dispatch  \in [Jobs -> {"pending", "done"}]
    /\ available \in [Jobs -> {"later", "due"}]
    /\ lease     \in [Jobs -> {"null", "held", "expired"}]
    /\ finished  \in [Jobs -> {"null", "recent", "old"}]
    /\ response  \in [Jobs -> 0..MaxAttempts]
    /\ submitted \in [Jobs -> [key : Keys, payload : Payloads] \cup {NoSubmission}]

StoreInit ==
    /\ status    = [j \in Jobs |-> "absent"]
    /\ attempts  = [j \in Jobs |-> 0]
    /\ dispatch  = [j \in Jobs |-> "done"]
    /\ available = [j \in Jobs |-> "later"]
    /\ lease     = [j \in Jobs |-> "null"]
    /\ finished  = [j \in Jobs |-> "null"]
    /\ response  = [j \in Jobs |-> 0]
    /\ submitted = [j \in Jobs |-> NoSubmission]

(* The rows the unique constraint on (owner, key) sees. *)
Holders(k) == {j \in Jobs : status[j] \in Retained /\ submitted[j].key = k}

(* INSERT: the column defaults are queued, no attempts, publication        *)
(* pending, available now.                                                 *)
Insert(j, k, p) ==
    /\ status'    = [status EXCEPT ![j] = "queued"]
    /\ dispatch'  = [dispatch EXCEPT ![j] = "pending"]
    /\ available' = [available EXCEPT ![j] = "due"]
    /\ submitted' = [submitted EXCEPT ![j] = [key |-> k, payload |-> p]]
    /\ UNCHANGED <<attempts, lease, finished, response>>

Dispatchable(j) == /\ dispatch[j] = "pending"
                   /\ status[j] \in Waiting
                   /\ available[j] = "due"

ClearPending(j) == /\ dispatch' = [dispatch EXCEPT ![j] = "done"]
                   /\ UNCHANGED <<status, attempts, available, lease, finished,
                                  response, submitted>>

ClaimableAgain(j, n) == /\ status[j] \in Waiting \* mutant: any attempt may claim
                        /\ available[j] = "due"
Claimable(j, n) == /\ status[j] \in Waiting
                   /\ attempts[j] = n - 1
                   /\ attempts[j] < MaxAttempts
                   /\ available[j] = "due"

Claim(j, n) ==
    \/ /\ Claimable(j, n)
       /\ status'   = [status EXCEPT ![j] = "active"]
       /\ attempts' = [attempts EXCEPT ![j] = n]
       /\ lease'    = [lease EXCEPT ![j] = "held"]
       /\ UNCHANGED <<dispatch, available, finished, response, submitted>>
    \/ ~Claimable(j, n) /\ UNCHANGED storeVars

(* The fence of complete and fail: the attempt still owns the row. *)
CurrentStatus(j, n) == status[j] = "active"   \* mutant
CurrentAttempt(j, n) == attempts[j] = n       \* mutant
Current(j, n) == status[j] = "active" /\ attempts[j] = n

Complete(j, n) ==
    \/ /\ Current(j, n)
       /\ status'   = [status EXCEPT ![j] = "completed"]
       /\ response' = [response EXCEPT ![j] = n]
       /\ finished' = [finished EXCEPT ![j] = "recent"]
       /\ lease'    = [lease EXCEPT ![j] = "null"]
       /\ dispatch' = [dispatch EXCEPT ![j] = "done"]
       /\ UNCHANGED <<attempts, available, submitted>>
    \/ ~Current(j, n) /\ UNCHANGED storeVars

(* fail retries while the budget lasts; the backoff puts available_at in   *)
(* the future.                                                             *)
Retries(j, retryable) == retryable /\ attempts[j] < MaxAttempts

Fail(j, n, retryable) ==
    \/ /\ Current(j, n)
       /\ status'    = [status EXCEPT ![j] = IF Retries(j, retryable) THEN "retrying" ELSE "failed"]
       /\ dispatch'  = [dispatch EXCEPT ![j] = IF Retries(j, retryable) THEN "pending" ELSE "done"]
       /\ available' = [available EXCEPT ![j] = "later"]
       /\ lease'     = [lease EXCEPT ![j] = "null"]
       /\ finished'  = [finished EXCEPT ![j] = IF Retries(j, retryable) THEN "null" ELSE "recent"]
       /\ UNCHANGED <<attempts, response, submitted>>
    \/ ~Current(j, n) /\ UNCHANGED storeVars

(* maintain's UPDATE: an expired attempt is queued again, or fails if it   *)
(* was the last.                                                           *)
ExpiredWithBudget(j) == \* mutant: an exhausted job is not failed
    status[j] = "active" /\ lease[j] = "expired" /\ attempts[j] < MaxAttempts
Expired(j) == status[j] = "active" /\ lease[j] = "expired"
OnExpired(column, again, last) ==
    [j \in Jobs |-> IF ~Expired(j) THEN column[j]
                    ELSE IF attempts[j] < MaxAttempts THEN again ELSE last]

Recover ==
    /\ status'    = OnExpired(status, "queued", "failed")
    /\ dispatch'  = OnExpired(dispatch, "pending", "done")
    /\ available' = OnExpired(available, "due", "due")
    /\ lease'     = OnExpired(lease, "null", "null")
    /\ finished'  = OnExpired(finished, "null", "recent")
    /\ UNCHANGED <<attempts, response, submitted>>

(* maintain's DELETE.  The attempts and the submission of a deleted row    *)
(* are remembered, for dead letters and receipts to be compared with.      *)
Purge ==
    /\ status'   = [j \in Jobs |-> IF finished[j] = "old" THEN "deleted" ELSE status[j]]
    /\ finished' = [j \in Jobs |-> IF finished[j] = "old" THEN "null" ELSE finished[j]]
    /\ UNCHANGED <<attempts, dispatch, available, lease, response, submitted>>

(* NOW() moves past one of the timestamps of a row. *)
BecomeDue(j) == /\ status[j] \in Waiting /\ available[j] = "later"
                /\ available' = [available EXCEPT ![j] = "due"]
                /\ UNCHANGED <<status, attempts, dispatch, lease, finished, response,
                               submitted>>
ExpireLease(j) == /\ lease[j] = "held"
                  /\ lease' = [lease EXCEPT ![j] = "expired"]
                  /\ UNCHANGED <<status, attempts, dispatch, available, finished,
                                 response, submitted>>
GrowOld(j) == /\ finished[j] = "recent"
              /\ finished' = [finished EXCEPT ![j] = "old"]
              /\ UNCHANGED <<status, attempts, dispatch, available, lease, response,
                             submitted>>

(* What getJob shows of a row: the response only once completed, and       *)
(* nothing of a row that does not exist.                                   *)
View(j) == [status       |-> status[j],
            attemptsMade |-> IF status[j] \in Retained THEN attempts[j] ELSE 0,
            response     |-> IF status[j] = "completed" THEN response[j] ELSE 0]
=============================================================================
