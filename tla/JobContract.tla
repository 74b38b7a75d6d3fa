----------------------------- MODULE JobContract -----------------------------
(***************************************************************************)
(* What the JobQueue and JobWorker interfaces promise about a job, in      *)
(* terms of what getJob shows: a job is submitted once, is worked on in    *)
(* numbered attempts of which at most MaxAttempts start, ends completed    *)
(* with the response of its last attempt or failed, and then never changes *)
(* until it is forgotten.  Nothing is said of workers, messages or leases. *)
(***************************************************************************)
EXTENDS Naturals

CONSTANTS Jobs, MaxAttempts

VARIABLE view   \* what getJob shows of every job

State(st, n, r) == [status |-> st, attemptsMade |-> n, response |-> r]

Submit(v, u) == /\ v.status = "absent"
                /\ u = State("queued", 0, 0)

Begin(v, u) == /\ v.status \in {"queued", "retrying"}
               /\ v.attemptsMade < MaxAttempts
               /\ u = State("active", v.attemptsMade + 1, 0)

Succeed(v, u) == /\ v.status = "active"
                 /\ u = State("completed", v.attemptsMade, v.attemptsMade)

TryAgain(v, u) == /\ v.status = "active"
                  /\ v.attemptsMade < MaxAttempts
                  /\ \E st \in {"queued", "retrying"} : u = State(st, v.attemptsMade, 0)

GiveUp(v, u) == /\ v.status = "active"
                /\ u = State("failed", v.attemptsMade, 0)

Forget(v, u) == /\ v.status \in {"completed", "failed"}
                /\ u = State("deleted", 0, 0)

Moves(v, u) == \/ Submit(v, u) \/ Begin(v, u) \/ Succeed(v, u)
               \/ TryAgain(v, u) \/ GiveUp(v, u) \/ Forget(v, u)

ContractInit == view = [j \in Jobs |-> State("absent", 0, 0)]

(* Maintenance may move several jobs in one step. *)
ContractNext == /\ view' = [j \in Jobs |-> view'[j]]
                /\ \A j \in Jobs : view'[j] = view[j] \/ Moves(view[j], view'[j])

ContractSpec == ContractInit /\ [][ContractNext]_view
=============================================================================
