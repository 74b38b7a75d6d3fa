----------------------------- MODULE StreamRoute -----------------------------
(***************************************************************************)
(* POST /v1/chat/stream: one request whose answer is passed on as server-  *)
(* sent events.  Its handler and writeSse run against a provider that may  *)
(* fail or reach its deadline at any time, a client that may stop reading  *)
(* or disconnect, a shutdown, and the 15 second timer of a stalled write.  *)
(* A step is what runs between two awaits, or one event.                   *)
(***************************************************************************)
EXTENDS Naturals, Sequences, Functions

CONSTANT MaxDeltas \* bound: the deltas of an answer

ASSUME MaxDeltasAssumption == MaxDeltas \in Nat

VARIABLES stage,    \* queue, streaming, closing (done is written), erroring, done
          permit,   \* the handler holds a permit of the limiter
          aborted,  \* the cancellation signal
          gone,     \* the socket is closed, whether the handler knows or not
          started,  \* the SSE headers are sent
          out,      \* the events written
          full,     \* writableNeedDrain
          pending,  \* the provider waits for the write of a delta
          complete, \* the provider's stream has ended normally
          reply,    \* how the response ended
          outcome   \* the metric

vars == <<stage, permit, aborted, gone, started, out, full, pending, complete, reply,
          outcome>>

(* The end of the handler; finally releases the permit and aborts the      *)
(* signal, which ends a pending write before its timer or the close of the *)
(* socket would.                                                           *)
Finish(r, o) == /\ stage' = "done" /\ reply' = r /\ outcome' = o
                /\ permit' = FALSE /\ pending' = FALSE

Enter(s) == stage' = s /\ UNCHANGED <<permit, pending, reply, outcome>>

(* writeSse of the last event: written at once, or waiting for drain. *)
WriteLast(event, waiting, o) ==
    /\ out' = Append(out, event)
    /\ \/ full' = FALSE /\ Finish("ended", o)
       \/ full' = TRUE /\ Enter(waiting)

Admitted ==
    /\ stage = "queue" /\ ~aborted
    /\ stage' = "streaming" /\ permit' = TRUE
    /\ UNCHANGED <<aborted, gone, started, out, full, pending, complete, reply, outcome>>

(* No permit, or no streaming provider. *)
Refused ==
    /\ stage = "queue" /\ ~aborted
    /\ Finish("json", "failed")
    /\ UNCHANGED <<aborted, gone, started, out, full, complete>>

(* onDelta: the headers, then the event.  On a socket that is closed       *)
(* writeSse rejects, and the callback aborts the request.                  *)
Delta ==
    /\ stage = "streaming" /\ ~pending /\ ~aborted /\ Len(out) < MaxDeltas
    /\ started' = TRUE
    /\ \/ /\ gone
          /\ aborted' = TRUE
          /\ UNCHANGED <<out, full, pending>>
       \/ /\ ~gone
          /\ out' = Append(out, "delta")
          /\ full' \in BOOLEAN /\ pending' = full'
          /\ UNCHANGED aborted
    /\ UNCHANGED <<stage, permit, gone, complete, reply, outcome>>

(* provider.stream resolves: the done event. *)
ProviderEnds ==
    /\ stage = "streaming" /\ ~pending /\ ~aborted
    /\ complete' = TRUE /\ started' = TRUE
    /\ \/ gone /\ Finish("destroyed", "cancelled") /\ UNCHANGED <<out, full>>
       \/ ~gone /\ WriteLast("done", "closing", "completed")
    /\ UNCHANGED <<aborted, gone>>

(* provider.stream rejects, by its deadline even while a write is pending. *)
(* Before any output the error is an ordinary HTTP reply; after it, the    *)
(* error event, unless that would be queued behind a blocked write.        *)
BlockedIgnored == FALSE \* mutant
Blocked == full

StartedForgotten == FALSE \* mutant
Started == started

ProviderFails ==
    /\ stage = "streaming" /\ ~aborted
    /\ \/ ~Started /\ Finish("json", "failed") /\ UNCHANGED <<out, full>>
       \/ /\ Started /\ (Blocked \/ gone)
          /\ Finish("destroyed", "failed")
          /\ UNCHANGED <<out, full>>
       \/ /\ Started /\ ~Blocked /\ ~gone
          /\ WriteLast("error", "erroring", "failed")
    /\ UNCHANGED <<aborted, gone, started, complete>>

(* The socket drains; the waiting write resolves. *)
Drain ==
    /\ full /\ ~gone /\ stage # "done"
    /\ full' = FALSE
    /\ \/ /\ stage = "streaming"
          /\ pending' = FALSE
          /\ UNCHANGED <<stage, permit, reply, outcome>>
       \/ stage = "closing" /\ Finish("ended", "completed")
       \/ stage = "erroring" /\ Finish("ended", "failed")
    /\ UNCHANGED <<aborted, gone, started, out, complete>>

(* The last event could not be delivered, or the request was cancelled. *)
GiveUpCompleted == Finish("destroyed", IF stage = "closing" THEN "completed" \* mutant
                                       ELSE IF stage = "erroring" THEN "failed" ELSE "cancelled")
GiveUp == Finish("destroyed", IF stage = "erroring" THEN "failed" ELSE "cancelled")

(* The timer of a stalled write: a delta's aborts the request. *)
StallOfDelta == \* mutant: the last event is written without a timer
    /\ pending
    /\ aborted' = TRUE /\ pending' = FALSE
    /\ UNCHANGED <<stage, permit, reply, outcome, gone, started, out, full, complete>>
Stall ==
    /\ \/ /\ pending
          /\ aborted' = TRUE /\ pending' = FALSE
          /\ UNCHANGED <<stage, permit, reply, outcome>>
       \/ /\ stage \in {"closing", "erroring"}
          /\ GiveUp
          /\ UNCHANGED aborted
    /\ UNCHANGED <<gone, started, out, full, complete>>

Cancelled ==
    /\ aborted /\ stage # "done"
    /\ GiveUp
    /\ UNCHANGED <<aborted, gone, started, out, full, complete>>

(* The client closes its side; the handler learns of it by the close       *)
(* event, and of a shutdown by preClose.                                   *)
Disconnect ==
    /\ ~gone /\ stage # "done"
    /\ gone' = TRUE
    /\ UNCHANGED <<stage, permit, aborted, started, out, full, pending, complete, reply,
                   outcome>>

Abort ==
    /\ ~aborted /\ stage # "done"
    /\ aborted' = TRUE /\ pending' = FALSE
    /\ UNCHANGED <<stage, permit, gone, started, out, full, complete, reply, outcome>>

Init == /\ stage = "queue" /\ reply = "none" /\ outcome = "failed"
        /\ permit = FALSE /\ aborted = FALSE /\ gone = FALSE /\ started = FALSE
        /\ full = FALSE /\ pending = FALSE /\ complete = FALSE
        /\ out = <<>>

Next == \/ Admitted \/ Refused \/ Delta \/ ProviderEnds \/ ProviderFails \/ Drain
        \/ Stall \/ Cancelled \/ Disconnect \/ Abort

Spec == Init /\ [][Next]_vars

(* The limiter decides, the provider's deadline ends its call, the timer   *)
(* of a write fires and an abort is noticed.  Nothing is asked of the      *)
(* client: it need neither read nor disconnect.                            *)
FairSpec == /\ Spec
            /\ WF_vars(Admitted \/ Refused) /\ WF_vars(ProviderEnds \/ ProviderFails)
            /\ WF_vars(Stall) /\ WF_vars(Cancelled)

----------------------------------------------------------------------------
(* Properties. *)

(* What the client sees: deltas and then at most one done or error; a      *)
(* response that is ended has one of them, and done is sent only after the *)
(* provider's stream ended normally.  An HTTP error reply never follows    *)
(* SSE output.                                                             *)
StreamWellFormed ==
    /\ \A i \in 1..Len(out) - 1 : out[i] = "delta"
    /\ reply = "ended" => out # <<>> /\ out[Len(out)] # "delta"
    /\ "done" \in Range(out) => complete
    /\ out # <<>> => started
    /\ reply = "json" => ~started

(* No event is queued behind a write that waits for drain, even if the     *)
(* provider's deadline interrupts that write.                              *)
NothingBehindBlockedWrite == [][out' # out => ~full]_vars

(* The metric tells the truth: a stream counts as completed exactly when   *)
(* its done event was written and the response ended.                      *)
OutcomeTruthful ==
    stage = "done" => (outcome = "completed" <=> reply = "ended" /\ "done" \in Range(out))

(* The inductive invariant behind the three: what has been written at each *)
(* stage, and that a write nobody has given up waits on a full socket.     *)
Ends(event) == out # <<>> /\ out[Len(out)] = event
RouteInv ==
    /\ out \in Seq({"delta", "done", "error"})
    /\ stage \in {"queue", "streaming", "closing", "erroring", "done"}
    /\ \A i \in 1..Len(out) - 1 : out[i] = "delta"
    /\ stage = "queue" => out = <<>> /\ ~full /\ ~started
    /\ stage = "streaming" => /\ \A i \in 1..Len(out) : out[i] = "delta"
                              /\ full /\ ~aborted => pending
    /\ stage = "closing" => Ends("done")
    /\ stage = "erroring" => Ends("error")
    /\ stage # "done" => reply = "none"
    /\ reply = "ended" => Ends("done") \/ Ends("error")
    /\ reply = "json" => ~started
    /\ out # <<>> => started
    /\ Ends("done") => complete
    /\ stage = "done" => (outcome = "completed" <=> reply = "ended" /\ Ends("done"))
=============================================================================
