--------------------------- MODULE StreamExchange ---------------------------
(***************************************************************************)
(* A streamed answer from end to end: the /v1/chat/stream handler of       *)
(* StreamRoute, ProviderRouter.stream with its consume callback, and the   *)
(* calls of ProviderCall to the primary and the fallback target.  The      *)
(* handler's signal is the parent of both calls', onDelta of an adapter is *)
(* consume and through it the handler's writeSse.  A circuit that rejects  *)
(* a call is a call that ends at once with a transient error.              *)
(***************************************************************************)
EXTENDS StreamRoute

CONSTANTS Sent,      \* bound: the kinds of events the providers send
          MaxEvents, \* bound: the events of a provider's body
          Mapped     \* the fallback maps the requested model

VARIABLES form, op, lines, finished, reason, result, wire, given, \* of ProviderCall
          target \* the target of the router's current call

Targets == {"primary", "fallback"}

Call == INSTANCE ProviderCall WITH Calls <- Targets

callVars == <<form, op, lines, finished, reason, result, wire, given>>
exchangeVars == <<vars, callVars, target>>

CallsUnchanged == UNCHANGED <<callVars, target>>
RouteUnchanged == UNCHANGED vars

(* Aborting the handler's signal aborts the running call's. *)
SignalFollows ==
    \/ /\ ~aborted /\ aborted'
       /\ Call!Interrupt(Targets, "parent", "cancelled")
       /\ UNCHANGED <<form, op, lines, finished, wire, given, target>>
    \/ aborted' = aborted /\ CallsUnchanged

(* ProviderRouter.call: rejected by the circuit, or started. *)
StartCall(t) ==
    /\ target' = t
    /\ \/ Call!Begin(t)
       \/ op[t] = "idle" /\ Call!Settle(t, "transient") /\ UNCHANGED lines

Admission == Admitted /\ StartCall("primary")
Refusal == Refused /\ CallsUnchanged

(* consume passes a text of target t to the handler, unless cancelled. *)
Consume(t) ==
    /\ Call!Offer(t)
    /\ \/ aborted /\ RouteUnchanged /\ UNCHANGED <<reason, result, target>>
       \/ /\ Delta
          /\ IF aborted' THEN Call!Interrupt(Targets, "parent", "cancelled")
                         ELSE UNCHANGED <<reason, result>>
          /\ UNCHANGED target

(* The write, and with it onDelta, settles: the socket has drained, or the *)
(* signal is aborted, by finally at the latest.                            *)
OnDeltaSettles(t) ==
    /\ ~pending
    /\ \/ Call!Consumed(t)
       \/ (aborted \/ stage = "done") /\ Call!ConsumerThrows(t)
    /\ RouteUnchanged /\ UNCHANGED target

CallStep(t) ==
    /\ Call!Deadline(t) \/ Call!Code(t) \/ Call!Provider(t)
    /\ RouteUnchanged /\ UNCHANGED target

(* route's catch: the fallback, or the error. *)
RetryableCode == {"timeout", "connection", "transient"}
CanFallbackMidway == result[target] \in RetryableCode /\ Mapped /\ target = "primary" \* mutant
CanFallback == /\ result[target] \in RetryableCode /\ Mapped /\ target = "primary"
               /\ given[target] = <<>> \* ~emitted

FallBack ==
    /\ stage = "streaming" /\ ~aborted /\ CanFallback
    /\ StartCall("fallback")
    /\ RouteUnchanged

RouterEnds == result[target] = "ok" /\ ProviderEnds /\ CallsUnchanged
RouterFails ==
    /\ result[target] \notin {"none", "ok"} /\ ~CanFallback
    /\ ProviderFails /\ CallsUnchanged

Others == (Drain \/ Stall \/ Cancelled \/ Disconnect \/ Abort) /\ SignalFollows

ExchangeInit == /\ Init /\ Call!CallInit
                /\ form = [t \in Targets |-> [adapter |-> IF t = "primary" THEN "ollama" ELSE "openai",
                                             mode |-> "stream"]]
                /\ target = "primary"

Router == FallBack \/ RouterEnds \/ RouterFails

ExchangeNext == \/ Admission \/ Refusal \/ Router \/ Others
                \/ \E t \in Targets : Consume(t) \/ OnDeltaSettles(t) \/ CallStep(t)

(* Timers fire and promises are settled.  The provider may stay silent and *)
(* the client may stop reading for ever.                                   *)
ExchangeSpec ==
    /\ ExchangeInit /\ [][ExchangeNext]_exchangeVars
    /\ WF_exchangeVars(Admission \/ Refusal) /\ WF_exchangeVars(Router)
    /\ WF_exchangeVars(Stall /\ SignalFollows) /\ WF_exchangeVars(Cancelled /\ SignalFollows)
    /\ \A t \in Targets : /\ WF_exchangeVars(Call!Deadline(t) /\ RouteUnchanged /\ UNCHANGED target)
                          /\ WF_exchangeVars(Call!Code(t) /\ RouteUnchanged /\ UNCHANGED target)
                          /\ WF_exchangeVars(Consume(t)) /\ WF_exchangeVars(OnDeltaSettles(t))

----------------------------------------------------------------------------
(* Properties. *)

(* What the client reads as a completed answer is one: a done event is     *)
(* preceded by the whole text of one complete answer, from one target,     *)
(* piece for piece.                                                        *)
DoneMeansWholeAnswer ==
    "done" \in Range(out) =>
        /\ result[target] = "ok" /\ Call!AnswersComplete
        /\ Len(out) = Len(given[target]) + 1
        /\ \A t \in Targets \ {target} : given[t] = <<>>

(* With its providers behind it the route is still the one StreamRoute     *)
(* describes, whose provider ends by itself: the deadlines make it do so.  *)
ImplementsRoute == FairSpec

(* Nothing is left behind.  The permit is released in the end without any  *)
(* help from a client that stops reading.  An operation whose call a       *)
(* deadline, a client that went away or a shutdown has ended comes to its  *)
(* end as well, even when it waits for a write that nobody will ever read. *)
NothingLeftBehind == /\ permit ~> ~permit
                     /\ \A t \in Targets : (op[t] # "idle") ~> (op[t] = "end")

(* The inductive invariant behind the whole answer.  Only the current      *)
(* target has passed on text, the other one waits or has returned; and the *)
(* client has been written all of that text, as long as nothing is         *)
(* cancelled.                                                              *)
ExchangeInv ==
    /\ RouteInv /\ Call!AnswerInv /\ Call!SilenceInv
    /\ target \in Targets
    /\ \A t \in Targets \ {target} : given[t] = <<>>
    /\ IF target = "primary" THEN op["fallback"] = "idle" ELSE result["primary"] # "none"
    /\ stage = "queue" => target = "primary" /\ op["primary"] = "idle" /\ given["primary"] = <<>>
    /\ stage = "streaming" /\ ~aborted => Len(out) = Len(given[target])
    /\ Ends("done") => result[target] = "ok" /\ Len(out) = Len(given[target]) + 1
=============================================================================
