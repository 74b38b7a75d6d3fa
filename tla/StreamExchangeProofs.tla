------------------------ MODULE StreamExchangeProofs ------------------------
(***************************************************************************)
(* The safety of a streamed answer: first the route by itself, whose       *)
(* provider may end in any way at any time, for an answer of any length;   *)
(* then that the exchange with two providers, a router and their deadlines *)
(* takes no step the route does not, so that the results carry over; and   *)
(* last what needs both, that a done event ends the whole of an answer.    *)
(***************************************************************************)
EXTENDS StreamExchange, TLAPS

(* Most leaves are first-order; those with arithmetic or records name SMT. *)
USE Zenon

LEMMA Written ==
    ASSUME RouteInv, NEW e \in {"delta", "done", "error"}, out' = Append(out, e),
           \A i \in 1..Len(out) : out[i] = "delta"
    PROVE  /\ out' \in Seq({"delta", "done", "error"}) /\ out' # <<>>
           /\ \A i \in 1..Len(out') - 1 : out'[i] = "delta"
           /\ e = "delta" => \A i \in 1..Len(out') : out'[i] = "delta"
           /\ out'[Len(out')] = e
BY SMTT(20) DEF RouteInv

(* The last event is written while the route is still streaming. *)
LEMMA LastWritten ==
    ASSUME RouteInv, stage = "streaming", started',
           NEW e \in {"done", "error"}, NEW waiting \in {"closing", "erroring"},
           NEW o \in {"completed", "failed"}, WriteLast(e, waiting, o),
           waiting = "closing" <=> e = "done", o = "completed" <=> e = "done",
           e = "done" => complete'
    PROVE  RouteInv'
<1>1. \A i \in 1..Len(out) : out[i] = "delta"
  BY DEF RouteInv
<1>2. /\ out' \in Seq({"delta", "done", "error"}) /\ out' # <<>>
      /\ \A i \in 1..Len(out') - 1 : out'[i] = "delta"
      /\ out'[Len(out')] = e
  BY <1>1, Written DEF WriteLast
<1>3. Ends(e)' /\ \A f \in {"done", "error"} : Ends(f)' => f = e
  BY <1>2 DEF Ends
<1>4. \/ stage' = "done" /\ reply' = "ended" /\ outcome' = o
      \/ stage' = waiting /\ reply' = "none"
  BY DEF WriteLast, Finish, Enter, RouteInv
<1> QED BY <1>2, <1>3, <1>4 DEF RouteInv

LEMMA RouteStep == RouteInv /\ [Next]_vars => RouteInv'
<1> SUFFICES ASSUME RouteInv, [Next]_vars PROVE RouteInv'
  OBVIOUS
<1>1. CASE UNCHANGED vars
  BY <1>1 DEF vars, RouteInv, Ends
<1>2. CASE Admitted
  <2>1. /\ stage = "queue" /\ stage' = "streaming" /\ out = <<>> /\ ~full
        /\ UNCHANGED <<aborted, started, out, full, pending, complete, reply, outcome>>
    BY <1>2 DEF Admitted, RouteInv
  <2>2. ~full' /\ \A i \in 1..Len(out') : out'[i] = "delta"
    BY SMTT(20), <2>1
  <2> QED BY <2>1, <2>2 DEF RouteInv, Ends
<1>3. CASE Refused
  BY <1>3 DEF Refused, Finish, RouteInv, Ends
<1>4. CASE Delta
  <2>1. CASE gone
    BY <1>4, <2>1 DEF Delta, RouteInv, Ends
  <2>2. CASE ~gone
    <3>1. /\ \A i \in 1..Len(out) : out[i] = "delta"
          /\ out' = Append(out, "delta") /\ started' /\ stage = "streaming"
          /\ UNCHANGED <<stage, complete, reply, outcome, aborted>> /\ pending' = full'
      BY <1>4, <2>2 DEF Delta, RouteInv
    <3>2. /\ out' \in Seq({"delta", "done", "error"}) /\ out' # <<>>
          /\ \A i \in 1..Len(out') - 1 : out'[i] = "delta"
          /\ \A i \in 1..Len(out') : out'[i] = "delta"
          /\ out'[Len(out')] = "delta"
      BY <3>1, Written
    <3>3. ~Ends("done")' /\ reply' = "none"
      BY <3>1, <3>2 DEF Ends, RouteInv
    <3> QED BY <3>1, <3>2, <3>3 DEF RouteInv
  <2> QED BY <2>1, <2>2
<1>5. CASE ProviderEnds
  <2>1. CASE gone
    <3>1. ~Ends("done")
      BY SMTT(20), <1>5 DEF ProviderEnds, RouteInv, Ends
    <3> QED BY <1>5, <2>1, <3>1 DEF ProviderEnds, Finish, RouteInv, Ends
  <2>2. CASE ~gone
    BY <1>5, <2>2, LastWritten DEF ProviderEnds
  <2> QED BY <2>1, <2>2
<1>6. CASE ProviderFails
  <2>1. CASE started /\ ~full /\ ~gone
    BY <1>6, <2>1, LastWritten DEF ProviderFails, Started, Blocked
  <2>2. CASE ~(started /\ ~full /\ ~gone)
    BY <1>6, <2>2 DEF ProviderFails, Started, Blocked, Finish, RouteInv, Ends
  <2> QED BY <2>1, <2>2
<1>7. CASE Drain
  BY <1>7 DEF Drain, Finish, RouteInv, Ends
<1>8. CASE Stall \/ Cancelled
  <2>1. CASE pending /\ aborted' /\ UNCHANGED <<stage, reply, outcome, started, out, full, complete>>
    BY <2>1 DEF RouteInv, Ends
  <2>2. CASE /\ stage # "done" /\ GiveUp /\ UNCHANGED <<started, out, full, complete>>
             /\ aborted' = aborted
    BY <2>2 DEF GiveUp, Finish, RouteInv, Ends
  <2> QED BY <1>8, <2>1, <2>2 DEF Stall, Cancelled
<1>9. CASE Disconnect \/ Abort
  BY SMTT(20), <1>9 DEF Disconnect, Abort, RouteInv, Ends
<1> QED BY <1>1, <1>2, <1>3, <1>4, <1>5, <1>6, <1>7, <1>8, <1>9 DEF Next

LEMMA RouteInductive == Spec => []RouteInv
<1>1. Init => RouteInv
  BY SMTT(20) DEF Init, RouteInv, Ends
<1> QED BY <1>1, RouteStep, PTL DEF Spec

(* A done event is the last one. *)
LEMMA DoneIsLast ==
    ASSUME RouteInv
    PROVE  "done" \in Range(out) <=> Ends("done")
<1>1. Range(out) = {out[i] : i \in 1..Len(out)} /\ Len(out) \in Nat
  BY SMTT(20) DEF RouteInv, Range
<1>2. out # <<>> <=> Len(out) > 0
  BY SMTT(20), <1>1 DEF RouteInv
<1>3. ASSUME NEW i \in 1..Len(out), out[i] = "done" PROVE Ends("done")
  <2>1. i = Len(out)
    BY SMTT(20), <1>1, <1>3 DEF RouteInv
  <2> QED BY SMTT(20), <1>1, <1>2, <1>3, <2>1 DEF Ends
<1> QED BY SMTT(20), <1>1, <1>2, <1>3 DEF Ends

LEMMA InvMeans == RouteInv => StreamWellFormed /\ OutcomeTruthful
<1> SUFFICES ASSUME RouteInv PROVE StreamWellFormed /\ OutcomeTruthful
  OBVIOUS
<1>1. "done" \in Range(out) <=> Ends("done")
  BY DoneIsLast
<1> QED BY <1>1 DEF RouteInv, StreamWellFormed, OutcomeTruthful, Ends

LEMMA NothingBehindStep ==
    ASSUME RouteInv, [Next]_vars, out' # out
    PROVE  ~full
<1>1. Delta \/ ProviderEnds \/ ProviderFails
  BY DEF Next, vars, Admitted, Refused, Drain, Stall, Cancelled, Disconnect, Abort
<1>2. CASE Delta \/ ProviderEnds
  BY <1>2 DEF Delta, ProviderEnds, RouteInv
<1>3. CASE ProviderFails
  BY <1>3 DEF ProviderFails, Blocked
<1> QED BY <1>1, <1>2, <1>3

LEMMA ExchangeStepsAreRoutes == [ExchangeNext]_exchangeVars => [Next]_vars
  BY DEF ExchangeNext, exchangeVars, Admission, Refusal, Router, FallBack, RouterEnds,
         RouterFails, Others, Consume, OnDeltaSettles, CallStep, RouteUnchanged, Next

(* The exchange takes only steps of the route: the router, the two calls   *)
(* and their deadlines do to the response what StreamRoute lets a provider *)
(* do, or nothing (the safety half of ImplementsRoute).                    *)
THEOREM ExchangeImplementsRoute == ExchangeSpec => Spec
<1>1. ExchangeInit => Init
  BY DEF ExchangeInit
<1> QED BY <1>1, ExchangeStepsAreRoutes, PTL DEF ExchangeSpec, Spec

(* What the client sees is well formed, however many deltas there are and  *)
(* whatever the two providers send (the handler of /v1/chat/stream).       *)
THEOREM StreamsWellFormed == ExchangeSpec => []StreamWellFormed
BY ExchangeImplementsRoute, RouteInductive, InvMeans, PTL

(* And so is the outcome that the metrics count. *)
THEOREM OutcomesTruthful == ExchangeSpec => []OutcomeTruthful
BY ExchangeImplementsRoute, RouteInductive, InvMeans, PTL

(* No event is written behind a blocked one, whoever interrupts the wait   *)
(* for it (writableNeedDrain in the handler's catch).                      *)
THEOREM BlockedWritesLast == ExchangeSpec => NothingBehindBlockedWrite
<1>1. RouteInv /\ [Next]_vars => [out' # out => ~full]_vars
  BY NothingBehindStep
<1> QED BY <1>1, ExchangeImplementsRoute, RouteInductive, PTL DEF Spec, NothingBehindBlockedWrite

----------------------------------------------------------------------------
(* The text of the targets and the events written: the conjuncts of        *)
(* ExchangeInv that relate the two.                                        *)
Shown ==
    /\ target \in Targets
    /\ \A t \in Targets \ {target} : given[t] = <<>>
    /\ IF target = "primary" THEN op["fallback"] = "idle" ELSE result["primary"] # "none"
    /\ stage = "queue" => target = "primary" /\ op["primary"] = "idle" /\ given["primary"] = <<>>
    /\ stage = "streaming" /\ ~aborted => Len(out) = Len(given[target])
    /\ Ends("done") => result[target] = "ok" /\ Len(out) = Len(given[target]) + 1

Settled == \A t \in Targets : result[t] # "none" => result'[t] = result[t]

(* No text is passed on and no event written. *)
LEMMA QuietKeeps ==
    ASSUME Shown, UNCHANGED <<given, target, out>>, Settled,
           stage' = "queue" => stage = "queue" /\ op' = op,
           stage' = "streaming" /\ ~aborted' => stage = "streaming" /\ ~aborted,
           op["fallback"] = "idle" => op'["fallback"] = "idle"
    PROVE  Shown'
<1>1. Ends("done")' = Ends("done")
  BY DEF Ends
<1> QED BY <1>1 DEF Shown, Settled, Targets

LEMMA NotDoneYet ==
    ASSUME RouteInv, stage \in {"queue", "streaming"}
    PROVE  ~Ends("done")
BY SMTT(20) DEF RouteInv, Ends

LEMMA AdmissionKeeps ==
    ASSUME RouteInv, Shown, Admitted, target' = "primary", given' = given,
           op'["fallback"] = op["fallback"]
    PROVE  Shown'
<1>1. /\ stage = "queue" /\ stage' = "streaming" /\ out' = out /\ out = <<>>
      /\ target = "primary" /\ given["primary"] = <<>> /\ ~Ends("done")
  BY NotDoneYet DEF Admitted, RouteInv, Shown
<1>2. ~Ends("done")'
  BY <1>1 DEF Ends
<1> QED BY <1>1, <1>2 DEF Shown, Targets

LEMMA FallBackKeeps ==
    ASSUME RouteInv, Shown, stage = "streaming", ~aborted, CanFallback, target' = "fallback",
           given' = given, Settled, RouteUnchanged
    PROVE  Shown'
<1>1. /\ target = "primary" /\ given["primary"] = <<>> /\ given["fallback"] = <<>>
      /\ result["primary"] # "none" /\ ~Ends("done")
  BY NotDoneYet DEF CanFallback, RetryableCode, Shown, Targets
<1>2. UNCHANGED <<stage, aborted, out>> /\ Ends("done")' = Ends("done")
  BY DEF RouteUnchanged, vars, Ends
<1>3. Len(out) = Len(given["fallback"])
  BY <1>1 DEF Shown
<1>4. result'["primary"] # "none"
  BY <1>1 DEF Settled, Targets
<1> QED BY <1>1, <1>2, <1>3, <1>4 DEF Shown, Targets

(* The last event is written, or the response ends without one. *)
LEMMA RouterEndsKeeps ==
    ASSUME RouteInv, Shown, RouterEnds
    PROVE  Shown'
<1>1. /\ stage = "streaming" /\ ~aborted /\ stage' # "streaming" /\ stage' # "queue"
      /\ UNCHANGED <<op, result, given, target>> /\ result[target] = "ok"
      /\ out' = out \/ out' = Append(out, "done")
  BY DEF RouterEnds, ProviderEnds, Finish, WriteLast, Enter, CallsUnchanged, callVars
<1>2. ~Ends("done")
  BY <1>1, NotDoneYet
<1>3. Ends("done")' => Len(out') = Len(given[target]) + 1
  <2>1. CASE out' = out
    BY <1>2, <2>1 DEF Ends
  <2>2. CASE out' = Append(out, "done")
    <3>1. Len(out') = Len(out) + 1
      BY SMTT(20), <2>2 DEF RouteInv
    <3> QED BY <1>1, <3>1 DEF Shown
  <2> QED BY <1>1, <2>1, <2>2
<1> QED BY <1>1, <1>3 DEF Shown

LEMMA RouterFailsKeeps ==
    ASSUME RouteInv, Shown, RouterFails
    PROVE  Shown'
<1>1. /\ stage = "streaming" /\ stage' # "streaming" /\ stage' # "queue"
      /\ UNCHANGED <<op, result, given, target>>
      /\ out' = out \/ out' = Append(out, "error")
  BY DEF RouterFails, ProviderFails, Finish, WriteLast, Enter, CallsUnchanged, callVars
<1>2. ~Ends("done")
  BY <1>1, NotDoneYet
<1>3. ~Ends("done")'
  <2>1. CASE out' = out
    BY <1>2, <2>1 DEF Ends
  <2>2. CASE out' = Append(out, "error")
    <3>1. out'[Len(out')] = "error"
      BY SMTT(20), <2>2 DEF RouteInv
    <3> QED BY <3>1 DEF Ends
  <2> QED BY <1>1, <2>1, <2>2
<1> QED BY <1>1, <1>3 DEF Shown

(* A text is passed on: by the current target, for the other one waits or  *)
(* has returned; and it is written, unless the request is cancelled.       *)
LEMMA ConsumeKeeps ==
    ASSUME RouteInv, Shown, NEW t \in Targets, NEW place \in Nat,
           op[t] = "scan", result[t] = "none", DOMAIN op = Targets,
           DOMAIN given = Targets, given[t] \in Seq(Nat),
           given' = [given EXCEPT ![t] = Append(given[t], place)],
           op' = [op EXCEPT ![t] = "delta"], Settled, target' = target,
           (aborted /\ RouteUnchanged) \/ Delta
    PROVE  Shown'
<1>1. t = target
  BY DEF Shown, Targets
<1>2. /\ Len(given'[t]) = Len(given[t]) + 1
      /\ \A d \in Targets \ {t} : given'[d] = given[d] /\ op'[d] = op[d]
  BY SMTT(20)
<1>3. IF target = "primary" THEN op'["fallback"] = "idle" ELSE result'["primary"] # "none"
  BY <1>1, <1>2 DEF Shown, Targets, Settled
<1>4. stage # "queue"
  BY <1>1 DEF Shown
<1>5. ~Ends("done")
  BY <1>1 DEF Shown
<1>6. CASE aborted /\ RouteUnchanged
  <2>1. UNCHANGED <<stage, aborted>> /\ ~Ends("done")'
    BY <1>5, <1>6 DEF RouteUnchanged, vars, Ends
  <2> QED BY <1>1, <1>2, <1>3, <1>4, <1>6, <2>1 DEF Shown
<1>7. CASE Delta
  <2>1. stage = "streaming" /\ stage' = stage /\ ~aborted
    BY <1>7 DEF Delta
  <2>2. CASE aborted' /\ out' = out
    <3>1. ~Ends("done")'
      BY <1>5, <2>2 DEF Ends
    <3> QED BY <1>1, <1>2, <1>3, <2>1, <2>2, <3>1 DEF Shown
  <2>3. CASE aborted' = aborted /\ out' = Append(out, "delta")
    <3>1. Len(out') = Len(out) + 1 /\ out'[Len(out')] = "delta"
      BY SMTT(20), <2>3 DEF RouteInv
    <3>2. ~Ends("done")'
      BY <3>1 DEF Ends
    <3>3. Len(out') = Len(given'[target'])
      BY <1>1, <1>2, <2>1, <3>1 DEF Shown
    <3> QED BY <1>1, <1>2, <1>3, <2>1, <3>2, <3>3 DEF Shown
  <2> QED BY <1>7, <2>2, <2>3 DEF Delta
<1> QED BY <1>6, <1>7

----------------------------------------------------------------------------
(* The calls keep what ProviderCallProofs shows of them. *)
CP == INSTANCE ProviderCallProofs WITH Calls <- Targets

LEMMA SameCalls ==
    ASSUME NEW t \in Targets
    PROVE  /\ Call!Begin(t) <=> CP!Begin(t)
           /\ Call!Offer(t) <=> CP!Offer(t)
           /\ Call!Deadline(t) <=> CP!Deadline(t)
           /\ Call!Code(t) <=> CP!Code(t)
           /\ Call!Provider(t) <=> CP!Provider(t)
           /\ Call!Consumed(t) <=> CP!Consumed(t)
           /\ Call!ConsumerThrows(t) <=> CP!ConsumerThrows(t)
           /\ \A o : Call!Settle(t, o) <=> CP!Settle(t, o)
<1>1. \A o : Call!Settle(t, o) <=> CP!Settle(t, o)
  BY DEF Call!Settle, CP!Settle
<1>2. \A o : Call!Goto(t, o) <=> CP!Goto(t, o)
  BY DEF Call!Goto, CP!Goto
<1>3. Call!Running(t) <=> CP!Running(t)
  BY DEF Call!Running, CP!Running
<1>4. Call!Begin(t) <=> CP!Begin(t)
  BY <1>1, <1>2 DEF Call!Begin, CP!Begin
<1>5. \A e : /\ Call!Stopped(t, e) <=> CP!Stopped(t, e)
             /\ Call!Misplaced(t, e) <=> CP!Misplaced(t, e)
             /\ Call!Conclude(t, e) <=> CP!Conclude(t, e)
  BY <1>1, <1>2 DEF Call!Stopped, CP!Stopped, Call!Misplaced, CP!Misplaced, Call!WithChoice,
     CP!WithChoice, Call!Conclude, CP!Conclude
<1>6. Call!At(t) <=> CP!At(t)
  BY DEF Call!At, CP!At
<1>7. Call!Offer(t) <=> CP!Offer(t)
  BY <1>5, <1>6 DEF Call!Offer, CP!Offer, Call!WithText, CP!WithText
<1>8. Call!Deadline(t) <=> CP!Deadline(t)
  BY DEF Call!Deadline, CP!Deadline, Call!Interrupt, CP!Interrupt, Call!Running, CP!Running
<1>9. Call!Handle(t) <=> CP!Handle(t)
  BY <1>1, <1>5, <1>6 DEF Call!Handle, CP!Handle, Call!WithText, CP!WithText
<1>10. Call!Code(t) <=> CP!Code(t)
  BY <1>1, <1>2, <1>9 DEF Call!Code, CP!Code, Call!Notice, CP!Notice, Call!NextRead, CP!NextRead
<1>11. Call!Events(t) = CP!Events(t)
  BY DEF Call!Events, CP!Events, Call!AllEvents, CP!AllEvents, Call!OpenAIEvents,
     CP!OpenAIEvents, Call!OllamaEvents, CP!OllamaEvents
<1>12. \A chunk : Call!Read(t, chunk) <=> CP!Read(t, chunk)
  BY DEF Call!Read, CP!Read
<1>13. Call!Provider(t) <=> CP!Provider(t)
  BY <1>1, <1>2, <1>11, <1>12 DEF Call!Provider, CP!Provider, Call!Respond, CP!Respond,
     Call!Detail, CP!Detail, Call!Json, CP!Json, Call!ReadEnds, CP!ReadEnds
<1>14. /\ Call!Consumed(t) <=> CP!Consumed(t)
       /\ Call!ConsumerThrows(t) <=> CP!ConsumerThrows(t)
  BY <1>1, <1>5 DEF Call!Consumed, CP!Consumed, Call!ConsumerThrows, CP!ConsumerThrows
<1> QED BY <1>1, <1>4, <1>7, <1>8, <1>10, <1>13, <1>14

LEMMA SameInterrupt ==
    \A cs, why, o : Call!Interrupt(cs, why, o) <=> CP!Interrupt(cs, why, o)
BY DEF Call!Interrupt, CP!Interrupt, Call!Running, CP!Running

LEMMA SameInvariants == /\ Call!AnswersComplete <=> CP!AnswersComplete
                        /\ Call!AnswerInv <=> CP!AnswerInv
                        /\ Call!SilenceInv <=> CP!SilenceInv
<1>1. \A w, n : /\ Call!Unfinished(w, n) <=> CP!Unfinished(w, n)
                /\ Call!Finished(w, n) <=> CP!Finished(w, n)
                /\ Call!Unended(w, n) <=> CP!Unended(w, n)
  BY DEF Call!Unfinished, CP!Unfinished, Call!Finished, CP!Finished, Call!Unended, CP!Unended
<1>2. \A a, w, n : Call!LegalAnswer(a, w, n) <=> CP!LegalAnswer(a, w, n)
  BY <1>1 DEF Call!LegalAnswer, CP!LegalAnswer
<1>3. \A g, w, n : Call!AreTextPlaces(g, w, n) <=> CP!AreTextPlaces(g, w, n)
  BY DEF Call!AreTextPlaces, CP!AreTextPlaces, Call!Range, CP!Range, Call!WithText, CP!WithText
<1>4. Call!AnswersComplete <=> CP!AnswersComplete
  BY <1>2, <1>3 DEF Call!AnswersComplete, CP!AnswersComplete
<1>5. \A c \in Targets : /\ Call!AllEvents(c) = CP!AllEvents(c)
                         /\ Call!Known(c) <=> CP!Known(c)
                         /\ Call!Whole(c) <=> CP!Whole(c)
  BY <1>1, <1>3 DEF Call!AllEvents, CP!AllEvents, Call!OpenAIEvents, CP!OpenAIEvents,
     Call!OllamaEvents, CP!OllamaEvents, Call!Known, CP!Known, Call!Misplaced, CP!Misplaced,
     Call!WithText, CP!WithText, Call!WithChoice, CP!WithChoice, Call!Whole, CP!Whole
<1>6. Call!AnswerInv <=> CP!AnswerInv
  BY <1>4, <1>5 DEF Call!AnswerInv, CP!AnswerInv, Call!Forms, CP!Forms
<1> QED BY <1>4, <1>6 DEF Call!SilenceInv, CP!SilenceInv

CallsOK == CP!AnswerInv /\ CP!SilenceInv

LEMMA ExchangeInvParts == ExchangeInv <=> RouteInv /\ CallsOK /\ Shown
  BY SameInvariants DEF ExchangeInv, CallsOK, Shown

LEMMA ExchangeInvNext == ExchangeInv' <=> (RouteInv /\ CallsOK /\ Shown)'
  BY ExchangeInvParts, PTL

LEMMA CallsUntouched ==
    ASSUME CallsOK, CallsUnchanged
    PROVE  CallsOK'
BY SMTT(20) DEF CallsUnchanged, callVars, CallsOK, CP!AnswerInv, CP!SilenceInv, CP!AllEvents, CP!Known,
       CP!Whole, CP!Misplaced, CP!AnswersComplete

LEMMA StepOfCall ==
    ASSUME CallsOK, NEW t \in Targets,
           \/ Call!Deadline(t) \/ Call!Code(t) \/ Call!Provider(t)
           \/ Call!Consumed(t) \/ Call!ConsumerThrows(t)
    PROVE  /\ CallsOK' /\ given' = given /\ Settled
           /\ op["fallback"] = "idle" => op'["fallback"] = "idle"
<1>1. \/ CP!Deadline(t) \/ CP!Code(t) \/ CP!Provider(t)
      \/ CP!Consumed(t) \/ CP!ConsumerThrows(t)
  BY SameCalls
<1>2. CP!AnswerInv' /\ CP!SilenceInv' /\ given' = given
  BY <1>1, CP!OperationKeeps, CP!SilentStep DEF CallsOK
<1>3. Settled /\ \A d \in Targets \ {t} : op'[d] = op[d]
  BY <1>1, CP!ResultsStay DEF CallsOK, Settled
<1>4. op[t] # "idle"
  BY <1>1, CP!OnlyStarted
<1> QED BY <1>2, <1>3, <1>4 DEF CallsOK, Targets

LEMMA StartOfCall ==
    ASSUME CallsOK, NEW t \in Targets, StartCall(t)
    PROVE  /\ CallsOK' /\ given' = given /\ Settled /\ target' = t
           /\ \A d \in Targets \ {t} : op'[d] = op[d]
<1>1. CASE CP!Begin(t)
  <2>1. CP!AnswerInv' /\ CP!SilenceInv' /\ given' = given
    BY <1>1, CP!OperationKeeps, CP!SilentStep DEF CallsOK
  <2>2. Settled /\ \A d \in Targets \ {t} : op'[d] = op[d]
    BY <1>1, CP!ResultsStay DEF CallsOK, Settled
  <2> QED BY <2>1, <2>2 DEF CallsOK, StartCall
<1>2. CASE CP!Settle(t, "transient") /\ lines' = lines
  <2>1. CP!Shape' /\ \A d \in Targets : CP!CallOK(d)'
    BY <1>2, CP!SettleKeeps DEF CallsOK
  <2>2. CP!AnswerInv'
    BY <2>1, CP!AnswerInvNext
  <2>3. CP!SilenceInv'
    BY <1>2, CP!SettleStep DEF CallsOK
  <2>4. DOMAIN op = Targets /\ DOMAIN result = Targets
    BY DEF CallsOK, CP!AnswerInv
  <2>5. given' = given /\ Settled /\ \A d \in Targets \ {t} : op'[d] = op[d]
    BY <1>2, <2>4 DEF CP!Settle, Settled
  <2> QED BY <2>2, <2>3, <2>5 DEF CallsOK, StartCall
<1> QED BY <1>1, <1>2, SameCalls DEF StartCall

LEMMA SignalOfCalls ==
    ASSUME CallsOK, SignalFollows
    PROVE  /\ CallsOK' /\ UNCHANGED <<given, op, target>> /\ Settled
           /\ aborted => aborted'
<1>1. CASE aborted' = aborted /\ CallsUnchanged
  BY <1>1, CallsUntouched DEF CallsUnchanged, callVars, Settled
<1>2. CASE /\ ~aborted /\ CP!Interrupt(Targets, "parent", "cancelled")
           /\ UNCHANGED <<form, op, lines, finished, wire, given, target>>
  <2>1. CP!Shape' /\ \A d \in Targets : CP!CallOK(d)'
    BY <1>2, CP!InterruptKeeps DEF CallsOK
  <2>2. CP!AnswerInv'
    BY <2>1, CP!AnswerInvNext
  <2>3. CP!SilenceInv'
    BY <1>2, CP!InterruptStep DEF CallsOK
  <2>4. Settled
    BY <1>2, CP!InterruptStays DEF Settled
  <2> QED BY <1>2, <2>2, <2>3, <2>4 DEF CallsOK
<1> QED BY <1>1, <1>2, SameInterrupt DEF SignalFollows

(* A text is offered; the write may find the socket closed and abort the   *)
(* request, which interrupts the call.                                     *)
LEMMA OfferOfCall ==
    ASSUME CallsOK, NEW t \in Targets, Consume(t)
    PROVE  CallsOK' /\ Settled
<1>1. CP!Offer(t)
  BY SameCalls DEF Consume
<1>2. DOMAIN given' = DOMAIN given /\ DOMAIN result = Targets
  BY <1>1 DEF CP!Offer, CallsOK, CP!AnswerInv
<1>3. CASE UNCHANGED <<reason, result>>
  <2>1. CP!SilenceInv' /\ Settled
    BY <1>1, <1>3, CP!OfferStep DEF CallsOK, Settled
  <2>2. CP!Shape' /\ \A d \in Targets : CP!CallOK(d)'
    BY <1>1, <1>2, <1>3, CP!OfferKeeps DEF CallsOK
  <2> QED BY <2>1, <2>2, CP!AnswerInvNext DEF CallsOK
<1>4. CASE CP!Interrupt(Targets, "parent", "cancelled")
  <2>1. CP!SilenceInv'
    BY <1>2, <1>4, CP!InterruptStep DEF CallsOK
  <2>2. Settled
    BY <1>4, CP!InterruptStays DEF Settled
  <2>3. /\ DOMAIN result' = Targets
        /\ \A d \in Targets : result'[d] = result[d] \/ result'[d] \notin {"ok", "response"}
    BY <1>4 DEF CP!Interrupt
  <2>4. CP!Shape' /\ \A d \in Targets : CP!CallOK(d)'
    BY <1>1, <2>3, CP!OfferKeeps DEF CallsOK
  <2> QED BY <2>1, <2>2, <2>4, CP!AnswerInvNext DEF CallsOK
<1> QED BY <1>3, <1>4, SameInterrupt DEF Consume

LEMMA OthersKeep ==
    ASSUME Shown, CallsOK, Others
    PROVE  CallsOK' /\ Shown'
<1>1. CallsOK' /\ UNCHANGED <<given, op, target>> /\ Settled
  BY SignalOfCalls DEF Others
<1>2. /\ out' = out /\ stage' \in {stage, "done"}
      /\ stage' = "streaming" /\ ~aborted' => ~aborted
  BY SMTT(20) DEF Others, Drain, Stall, Cancelled, Disconnect, Abort, GiveUp, Finish
<1> QED BY <1>1, <1>2, QuietKeeps

LEMMA ConsumeStep ==
    ASSUME RouteInv, Shown, CallsOK, NEW t \in Targets, Consume(t)
    PROVE  CallsOK' /\ Shown'
<1>1. CP!Offer(t)
  BY SameCalls DEF Consume
<1>2. op[t] = "scan" /\ result[t] = "none"
  BY <1>1, CP!OffersWhileWaiting DEF CallsOK
<1> DEFINE place == Len(wire[t]) - Len(lines[t]) + 1
<1>3. /\ DOMAIN op = Targets /\ DOMAIN given = Targets /\ given[t] \in Seq(Nat)
      /\ form \in [Targets -> CP!Forms] /\ CP!CallOK(t)
  BY CP!AnswerInvParts DEF CallsOK, CP!Shape, CP!CallOK, CP!Typed
<1>4. place \in Nat
  <2>1. CP!Known(t)
    BY <1>2, <1>3 DEF CP!CallOK, CP!Whole, CP!Forms
  <2> QED BY SMTT(20), <2>1 DEF CP!Known
<1>5. /\ given' = [given EXCEPT ![t] = Append(given[t], place)]
      /\ op' = [op EXCEPT ![t] = "delta"]
  BY <1>1 DEF CP!Offer
<1>6. CallsOK' /\ Settled
  BY OfferOfCall
<1>7. target' = target /\ ((aborted /\ RouteUnchanged) \/ Delta)
  BY DEF Consume
<1> HIDE DEF place
<1> QED BY <1>2, <1>3, <1>4, <1>5, <1>6, <1>7, ConsumeKeeps

(* Steps that pass nothing on: of the calls, and of the router. *)
LEMMA CallsStep ==
    ASSUME Shown, CallsOK, NEW t \in Targets, OnDeltaSettles(t) \/ CallStep(t)
    PROVE  CallsOK' /\ Shown'
<1>1. /\ CallsOK' /\ given' = given /\ Settled
      /\ op["fallback"] = "idle" => op'["fallback"] = "idle"
  BY StepOfCall DEF OnDeltaSettles, CallStep
<1>2. UNCHANGED <<stage, aborted, out, target>>
  BY DEF OnDeltaSettles, CallStep, RouteUnchanged, vars
<1>3. stage = "queue" => op' = op
  <2>1. op[t] # "idle"
    BY SameCalls, CP!OnlyStarted DEF OnDeltaSettles, CallStep
  <2> QED BY <2>1 DEF Shown, Targets
<1> QED BY <1>1, <1>2, <1>3, QuietKeeps

LEMMA RouterStep ==
    ASSUME RouteInv, Shown, CallsOK, Router
    PROVE  CallsOK' /\ Shown'
<1>1. CASE FallBack
  <2>1. CallsOK' /\ given' = given /\ Settled /\ target' = "fallback"
    BY <1>1, StartOfCall DEF FallBack, Targets
  <2> QED BY <1>1, <2>1, FallBackKeeps DEF FallBack
<1>2. CASE RouterEnds
  BY <1>2, CallsUntouched, RouterEndsKeeps DEF RouterEnds
<1>3. CASE RouterFails
  BY <1>3, CallsUntouched, RouterFailsKeeps DEF RouterFails
<1> QED BY <1>1, <1>2, <1>3 DEF Router

LEMMA ExchangeStep ==
    ASSUME ExchangeInv, [ExchangeNext]_exchangeVars
    PROVE  ExchangeInv'
<1>0. RouteInv /\ CallsOK /\ Shown
  BY ExchangeInvParts
<1>1. RouteInv'
  BY <1>0, ExchangeStepsAreRoutes, RouteStep
<1> SUFFICES CallsOK' /\ Shown'
  BY <1>1, ExchangeInvNext
<1>2. CASE UNCHANGED exchangeVars
  <2>1. CallsOK'
    BY <1>0, <1>2, CallsUntouched DEF exchangeVars, CallsUnchanged
  <2>2. UNCHANGED <<given, target, out, stage, op, aborted>> /\ Settled
    BY <1>2 DEF exchangeVars, callVars, vars, Settled
  <2> QED BY <1>0, <2>1, <2>2, QuietKeeps
<1>3. CASE Admission
  <2>1. /\ CallsOK' /\ given' = given /\ target' = "primary"
        /\ op'["fallback"] = op["fallback"]
    BY <1>0, <1>3, StartOfCall DEF Admission, Targets
  <2> QED BY <1>0, <1>3, <2>1, AdmissionKeeps DEF Admission
<1>4. CASE Refusal
  <2>1. CallsOK'
    BY <1>0, <1>4, CallsUntouched DEF Refusal
  <2>2. UNCHANGED <<given, target, out, op>> /\ Settled /\ stage' = "done"
    BY <1>4 DEF Refusal, Refused, Finish, CallsUnchanged, callVars, Settled
  <2> QED BY <1>0, <2>1, <2>2, QuietKeeps
<1>5. CASE Router \/ Others
  BY <1>0, <1>5, RouterStep, OthersKeep
<1>6. ASSUME NEW t \in Targets, Consume(t) \/ OnDeltaSettles(t) \/ CallStep(t)
      PROVE  CallsOK' /\ Shown'
  BY <1>0, <1>6, ConsumeStep, CallsStep
<1> QED BY <1>2, <1>3, <1>4, <1>5, <1>6 DEF ExchangeNext

LEMMA ExchangeStart == ExchangeInit => ExchangeInv
<1> SUFFICES ASSUME ExchangeInit PROVE RouteInv /\ CallsOK /\ Shown
  BY ExchangeInvParts
<1>1. RouteInv
  BY SMTT(20) DEF ExchangeInit, Init, RouteInv, Ends
<1>2. CP!CallInit /\ form \in [Targets -> CP!Forms]
  BY DEF ExchangeInit, Call!CallInit, CP!CallInit, CP!Forms
<1>3. CP!AnswerInv
  BY <1>2, CP!AnswerStart
<1>4. CP!SilenceInv
  BY <1>2 DEF CP!CallInit, CP!SilenceInv
<1>5. Shown
  BY <1>2 DEF ExchangeInit, Init, CP!CallInit, Shown, Ends, Targets
<1> QED BY <1>1, <1>3, <1>4, <1>5 DEF CallsOK

(* From end to end: the client reads a done event only behind the whole    *)
(* text of one complete answer of one target, piece for piece, whatever    *)
(* the two providers send, for bodies of any length, however deadlines,    *)
(* the fallback, a blocked socket and cancellations interleave             *)
(* (ProviderRouter.stream, consume and the handler of /v1/chat/stream).    *)
THEOREM DoneIsWholeAnswer == ExchangeSpec => []DoneMeansWholeAnswer
<1>1. ExchangeInv => DoneMeansWholeAnswer
  <2> SUFFICES ASSUME ExchangeInv, "done" \in Range(out) PROVE DoneMeansWholeAnswer
    BY DEF DoneMeansWholeAnswer
  <2>1. Ends("done") /\ Call!AnswersComplete
    BY DoneIsLast DEF ExchangeInv, Call!AnswerInv
  <2> QED BY <2>1 DEF ExchangeInv, DoneMeansWholeAnswer
<1>2. ExchangeInv /\ [ExchangeNext]_exchangeVars => ExchangeInv'
  BY ExchangeStep
<1> QED BY <1>1, <1>2, ExchangeStart, PTL DEF ExchangeSpec
=============================================================================
