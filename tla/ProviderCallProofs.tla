-------------------------- MODULE ProviderCallProofs --------------------------
(***************************************************************************)
(* A call that has returned is silent, and a stream that succeeds was      *)
(* complete, for any number of calls and any bodies.                       *)
(***************************************************************************)
EXTENDS ProviderCall, TLAPS

(* Most leaves are first-order; those with arithmetic or records name SMT. *)
USE Zenon

(* Every way of ending an operation leaves the signal aborted. *)
LEMMA SettleStep ==
    ASSUME SilenceInv, NEW c \in Calls, NEW outcome, Settle(c, outcome)
    PROVE  SilenceInv'
BY DEF SilenceInv, Settle

LEMMA OtherStep ==
    ASSUME SilenceInv, UNCHANGED <<reason, result, given>>
    PROVE  SilenceInv'
BY DEF SilenceInv

LEMMA ConcludeStep ==
    ASSUME SilenceInv, NEW c \in Calls, NEW e, Conclude(c, e)
    PROVE  SilenceInv' /\ given' = given
BY SettleStep, OtherStep DEF Conclude, Goto, Settle

LEMMA InterruptStep ==
    ASSUME SilenceInv, NEW cs \in SUBSET Calls, NEW why, why # "none", NEW outcome,
           Interrupt(cs, why, outcome), DOMAIN given' = DOMAIN given
    PROVE  SilenceInv'
BY DEF SilenceInv, Interrupt

(* What is left of the handling of an event once onDelta has been offered. *)
LEMMA SilentStep ==
    ASSUME SilenceInv, NEW c \in Calls,
           \/ Begin(c) \/ Deadline(c) \/ Code(c) \/ Provider(c) \/ Consumed(c) \/ ConsumerThrows(c)
    PROVE  SilenceInv' /\ given' = given
<1>1. CASE Begin(c)
  BY <1>1, SettleStep, OtherStep DEF Begin, Goto, Settle
<1>2. CASE Deadline(c)
  BY <1>2, InterruptStep DEF Deadline
<1>3. CASE Notice(c) \/ ConsumerThrows(c)
  BY <1>3, SettleStep DEF Notice, ConsumerThrows, Settle
<1>4. CASE Handle(c)
  <2>1. CASE \E e : Conclude(c, e)
    BY <2>1, ConcludeStep
  <2>2. CASE \E o : Settle(c, o)
    BY <2>2, SettleStep DEF Settle
  <2> QED BY <1>4, <2>1, <2>2 DEF Handle
<1>5. CASE NextRead(c)
  BY <1>5, OtherStep DEF NextRead, Goto
<1>6. CASE Consumed(c)
  BY <1>6, ConcludeStep DEF Consumed
<1>7. CASE Respond(c) \/ Detail(c) \/ Json(c) \/ ReadEnds(c)
  <2>1. CASE \E o : Settle(c, o)
    BY <2>1, SettleStep DEF Settle
  <2>2. CASE \E o : Goto(c, o)
    BY <2>2, OtherStep DEF Goto
  <2> QED BY <1>7, <2>1, <2>2 DEF Respond, Detail, Json, ReadEnds
<1>8. ASSUME NEW chunk, Read(c, chunk)
      PROVE  SilenceInv' /\ given' = given
  BY <1>8, OtherStep DEF Read
<1> QED BY <1>1, <1>2, <1>3, <1>4, <1>5, <1>6, <1>7, <1>8 DEF Code, Provider

LEMMA OfferStep ==
    ASSUME SilenceInv, NEW c \in Calls, Offer(c), UNCHANGED <<reason, result>>
    PROVE  SilenceInv' /\ \A d \in Calls : result[d] # "none" => given'[d] = given[d]
<1>1. Head(lines[c]) # "blank"
  BY DEF Offer, WithText
<1>2. result[c] = "none"
  BY <1>1 DEF Offer, Stopped, SilenceInv
<1>3. \E v : given' = [given EXCEPT ![c] = v]
  BY DEF Offer
<1> QED BY <1>2, <1>3 DEF SilenceInv

(* For any number of calls and any bodies: a call that has returned passes *)
(* on no more text, although its operation goes on (withProviderDeadline,  *)
(* abortable and the throwIfAborted of the two adapters).                  *)
THEOREM ReturnedAreSilent == FairSpec => SilentAfterReturn
<1>1. Init => SilenceInv
  BY DEF Init, CallInit, SilenceInv
<1>2. SilenceInv /\ [Next]_vars
         => SilenceInv' /\ [\A c \in Calls : result[c] # "none" => given'[c] = given[c]]_vars
  <2> SUFFICES ASSUME SilenceInv, [Next]_vars
               PROVE  SilenceInv' /\ \A c \in Calls : result[c] # "none" => given'[c] = given[c]
    OBVIOUS
  <2>1. CASE UNCHANGED vars
    BY <2>1, OtherStep DEF vars, callVars
  <2>2. CASE ParentAborts /\ UNCHANGED <<form, op, lines, finished, wire, given>>
    BY <2>2, InterruptStep DEF ParentAborts
  <2>3. ASSUME NEW c \in Calls, Offer(c), UNCHANGED <<reason, result>>
        PROVE  SilenceInv' /\ \A d \in Calls : result[d] # "none" => given'[d] = given[d]
    BY <2>3, OfferStep
  <2>4. ASSUME NEW c \in Calls,
               \/ Begin(c) \/ Deadline(c) \/ Code(c) \/ Provider(c)
               \/ Consumed(c) \/ ConsumerThrows(c)
        PROVE  SilenceInv' /\ given' = given
    BY <2>4, SilentStep
  <2> QED BY <2>1, <2>2, <2>3, <2>4 DEF Next
<1> QED BY <1>1, <1>2, PTL DEF FairSpec, SilentAfterReturn

----------------------------------------------------------------------------
(* Answers under way, as facts about a body w and its first n events. *)

Progress(a, fin, w, n) == IF a = "ollama" THEN Unended(w, n)
                          ELSE IF fin THEN Finished(w, n) ELSE Unfinished(w, n)

(* The next event is one the protocol allows here. *)
LEMMA ProgressNext ==
    ASSUME NEW a, NEW fin \in BOOLEAN, NEW w, NEW n \in Nat, Progress(a, fin, w, n)
    PROVE  /\ a = "ollama" /\ w[n + 1] \in {"text", "empty", "blank"} => Progress(a, fin, w, n + 1)
           /\ a # "ollama" /\ ~fin /\ w[n + 1] \in {"text", "role", "usage"}
                 => Progress(a, fin, w, n + 1)
           /\ a # "ollama" /\ ~fin /\ w[n + 1] \in {"finish", "text+finish"}
                 => Progress(a, TRUE, w, n + 1)
           /\ a # "ollama" /\ fin /\ w[n + 1] = "usage" => Progress(a, fin, w, n + 1)
<1>1. CASE a = "ollama"
  BY SMTT(20), <1>1 DEF Progress, Unended
<1>2. CASE a # "ollama" /\ ~fin
  <2>1. Unfinished(w, n)
    BY <1>2 DEF Progress
  <2>2. w[n + 1] \in {"text", "role", "usage"} => Unfinished(w, n + 1)
    BY SMTT(20), <2>1 DEF Unfinished
  <2>3. ASSUME w[n + 1] \in {"finish", "text+finish"} PROVE Finished(w, n + 1)
    <3>1. Unfinished(w, (n + 1) - 1) /\ \A i \in (n + 1) + 1..n + 1 : w[i] = "usage"
      BY SMTT(20), <2>1 DEF Unfinished
    <3> QED BY SMTT(20), <2>3, <3>1 DEF Finished
  <2> QED BY <1>2, <2>2, <2>3 DEF Progress
<1>3. CASE a # "ollama" /\ fin
  <2>1. Finished(w, n)
    BY <1>3 DEF Progress
  <2>2. w[n + 1] = "usage" => Finished(w, n + 1)
    BY SMTT(20), <2>1 DEF Finished
  <2> QED BY <1>3, <2>2 DEF Progress
<1> QED BY <1>1, <1>2, <1>3

LEMMA PlacesNext ==
    ASSUME NEW g \in Seq(Nat), NEW w, NEW n \in Nat, AreTextPlaces(g, w, n)
    PROVE  /\ w[n + 1] \notin WithText => AreTextPlaces(g, w, n + 1)
           /\ w[n + 1] \in WithText => AreTextPlaces(Append(g, n + 1), w, n + 1)
<1>1. {i \in 1..n + 1 : w[i] \in WithText}
        = {i \in 1..n : w[i] \in WithText} \cup (IF w[n + 1] \in WithText THEN {n + 1} ELSE {})
  BY SMTT(20)
<1>2. ASSUME w[n + 1] \notin WithText PROVE AreTextPlaces(g, w, n + 1)
  BY <1>1, <1>2 DEF AreTextPlaces
<1>3. ASSUME w[n + 1] \in WithText PROVE AreTextPlaces(Append(g, n + 1), w, n + 1)
  <2> DEFINE h == Append(g, n + 1)
  <2>1. /\ Len(g) \in Nat /\ DOMAIN g = 1..Len(g) /\ DOMAIN h = 1..Len(g) + 1
        /\ h[Len(g) + 1] = n + 1 /\ \A i \in 1..Len(g) : h[i] = g[i]
    BY SMTT(20)
  <2> HIDE DEF h
  <2>2. Range(h) = Range(g) \cup {n + 1}
    BY SMTT(20), <2>1 DEF Range
  <2>3. \A i \in 1..Len(g) : g[i] \in Nat /\ g[i] < n + 1
    <3> SUFFICES ASSUME NEW i \in 1..Len(g) PROVE g[i] \in Nat /\ g[i] < n + 1
      OBVIOUS
    <3>1. g[i] \in Range(g)
      BY <2>1 DEF Range
    <3> QED BY SMTT(20), <3>1 DEF AreTextPlaces
  <2>4. ASSUME NEW i \in DOMAIN h, NEW k \in DOMAIN h, i < k PROVE h[i] < h[k]
    <3>1. i \in 1..Len(g)
      BY SMTT(20), <2>1, <2>4
    <3>2. CASE k = Len(g) + 1
      BY <2>1, <2>3, <3>1, <3>2
    <3>3. CASE k \in 1..Len(g)
      BY <2>1, <2>4, <3>1, <3>3 DEF AreTextPlaces
    <3> QED BY SMTT(20), <2>1, <3>2, <3>3
  <2>5. Range(h) = {i \in 1..n + 1 : w[i] \in WithText}
    BY <1>1, <1>3, <2>2 DEF AreTextPlaces
  <2>6. AreTextPlaces(h, w, n + 1)
    BY <2>4, <2>5 DEF AreTextPlaces
  <2> QED BY <2>6 DEF h
<1> QED BY <1>2, <1>3

(* What is known of the first n events does not depend on those after them. *)
LEMMA SamePrefix ==
    ASSUME NEW w, NEW u, NEW n \in Nat, \A i \in 1..n : u[i] = w[i]
    PROVE  /\ \A a, fin : Progress(a, fin, w, n) => Progress(a, fin, u, n)
           /\ \A g : AreTextPlaces(g, w, n) => AreTextPlaces(g, u, n)
<1>1. Unended(w, n) => Unended(u, n)
  BY DEF Unended
<1>2. Unfinished(w, n) => Unfinished(u, n)
  BY DEF Unfinished
<1>3. Finished(w, n) => Finished(u, n)
  BY SMTT(20) DEF Finished, Unfinished
<1>4. {i \in 1..n : w[i] \in WithText} = {i \in 1..n : u[i] \in WithText}
  OBVIOUS
<1> QED BY <1>1, <1>2, <1>3, <1>4 DEF Progress, AreTextPlaces

(* An answer under way that ends as its protocol says is complete; one     *)
(* that has not ended is not; and one that goes on with an event that is   *)
(* refused never will be.                                                  *)
LEMMA LegalNext ==
    ASSUME NEW a, NEW fin, NEW w, NEW n \in Nat, Progress(a, fin, w, n),
           \/ a = "ollama" /\ w[n + 1] \in {"done", "text+done"}
           \/ a = "openai" /\ fin /\ w[n + 1] = "[DONE]"
    PROVE  LegalAnswer(a, w, n + 1)
<1>1. (n + 1) - 1 = n
  BY SMTT(20)
<1> QED BY <1>1 DEF LegalAnswer, Progress

LEMMA NoneYet ==
    ASSUME NEW a, NEW fin, NEW w, NEW n \in Nat, Progress(a, fin, w, n), NEW m \in 1..n
    PROVE  ~LegalAnswer(a, w, m)
<1>1. CASE a = "ollama"
  BY <1>1 DEF Progress, Unended, LegalAnswer
<1>2. CASE a # "ollama"
  <2>1. w[m] \in {"text", "role", "usage", "finish", "text+finish"}
    <3>1. CASE fin
      BY SMTT(20), <1>2, <3>1 DEF Progress, Finished, Unfinished
    <3>2. CASE ~fin
      BY <1>2, <3>2 DEF Progress, Unfinished
    <3> QED BY <3>1, <3>2
  <2> QED BY <1>2, <2>1 DEF LegalAnswer
<1> QED BY <1>1, <1>2

Refused(a, fin, e) == \/ e \in {"bad", "text+bad"}
                      \/ a = "openai" /\ ~fin /\ e = "[DONE]"
                      \/ a = "openai" /\ fin /\ e \in WithChoice

LEMMA NeverLegal ==
    ASSUME NEW a \in {"openai", "ollama"}, NEW fin \in BOOLEAN, NEW w, NEW n \in Nat,
           Progress(a, fin, w, n), Refused(a, fin, w[n + 1]), NEW m \in Nat \ {0}
    PROVE  ~LegalAnswer(a, w, m)
<1> SUFFICES ASSUME m > n, LegalAnswer(a, w, m) PROVE FALSE
  BY SMTT(20), NoneYet
<1>1. CASE a = "ollama"
  BY SMTT(20), <1>1 DEF Refused, LegalAnswer, Unended
<1>2. CASE a = "openai"
  <2>1. Finished(w, m - 1) /\ w[m] = "[DONE]"
    BY <1>2 DEF LegalAnswer
  <2>2. PICK f \in 1..m - 1 : /\ \A i \in 1..f - 1 : w[i] \in {"text", "role", "usage"}
                              /\ w[f] \in {"finish", "text+finish"}
                              /\ \A i \in f + 1..m - 1 : w[i] = "usage"
    BY <2>1 DEF Finished, Unfinished
  <2>3. w[n + 1] \in {"text", "role", "usage", "finish", "text+finish", "[DONE]"}
    BY SMTT(20), <2>1, <2>2
  <2>4. w[n + 1] \notin {"bad", "text+bad"}
    BY <2>3
  <2>5. CASE ~fin /\ w[n + 1] = "[DONE]"
    <3>1. \A i \in 1..n : w[i] \in {"text", "role", "usage"}
      BY <1>2, <2>5 DEF Progress, Unfinished
    <3>2. ~(f \in 1..n)
      BY <2>2, <3>1
    <3>3. n + 1 \in 1..f
      BY SMTT(20), <3>2
    <3>4. w[n + 1] \in {"text", "role", "usage", "finish", "text+finish"}
      BY SMTT(20), <2>2, <3>3
    <3> QED BY <2>5, <3>4
  <2>6. CASE fin /\ w[n + 1] \in WithChoice
    <3>1. PICK k \in 1..n : w[k] \in {"finish", "text+finish"}
      BY <1>2, <2>6 DEF Progress, Finished
    <3>2. ~(k \in 1..f - 1)
      BY <2>2, <3>1
    <3>3. n + 1 \in f + 1..m
      BY SMTT(20), <3>2
    <3>4. w[n + 1] \in {"usage", "[DONE]"}
      BY SMTT(20), <2>1, <2>2, <3>3
    <3> QED BY <2>6, <3>4 DEF WithChoice
  <2> QED BY <1>2, <2>4, <2>5, <2>6 DEF Refused
<1> QED BY <1>1, <1>2

----------------------------------------------------------------------------
(* The invariant, call by call. *)

Shape == /\ form \in [Calls -> Forms] /\ finished \in [Calls -> BOOLEAN]
         /\ DOMAIN op = Calls /\ DOMAIN lines = Calls /\ DOMAIN result = Calls
         /\ DOMAIN wire = Calls /\ DOMAIN given = Calls
Typed(c) == /\ wire[c] \in Seq(AllEvents(c)) /\ lines[c] \in Seq(AllEvents(c))
            /\ given[c] \in Seq(Nat)
Complete(c) == \E n \in 1..Len(wire[c]) : /\ LegalAnswer(form[c].adapter, wire[c], n)
                                          /\ AreTextPlaces(given[c], wire[c], n)
Malformed(c) == \A n \in 1..Len(wire[c]) : ~LegalAnswer(form[c].adapter, wire[c], n)
Answered(c) == (result[c] = "ok" => Complete(c)) /\ (result[c] = "response" => Malformed(c))
CallOK(c) == /\ Typed(c)
             /\ form[c].mode = "stream" => (op[c] # "end" => Known(c)) /\ Answered(c)
             /\ form[c].mode = "chat" => Whole(c)

LEMMA AnswerInvParts == AnswerInv <=> Shape /\ \A c \in Calls : CallOK(c)
  BY DEF AnswerInv, AnswersComplete, Shape, CallOK, Typed, Answered, Complete, Malformed

(* A call that a step leaves alone but for its result, which is at most    *)
(* that of an interruption.                                                *)
LeftAlone(d) == /\ form'[d] = form[d] /\ op'[d] = op[d] /\ lines'[d] = lines[d]
                /\ finished'[d] = finished[d] /\ wire'[d] = wire[d] /\ given'[d] = given[d]
                /\ result'[d] = result[d] \/ result'[d] \notin {"ok", "response"}

LEMMA LeftAloneKeeps ==
    ASSUME NEW d \in Calls, CallOK(d), LeftAlone(d)
    PROVE  CallOK(d)'
<1>1. Typed(d)'
  BY DEF CallOK, LeftAlone, Typed, AllEvents
<1>2. Answered(d) => Answered(d)'
  BY DEF LeftAlone, Answered, Complete, Malformed
<1>3. Known(d) => Known(d)'
  BY DEF LeftAlone, Known, Misplaced
<1>4. Whole(d) => Whole(d)'
  BY DEF LeftAlone, Whole
<1> QED BY <1>1, <1>2, <1>3, <1>4 DEF CallOK, LeftAlone

(* A step of one call. *)
LEMMA OneCall ==
    ASSUME AnswerInv, NEW c \in Calls, Shape', CallOK(c)', \A d \in Calls \ {c} : LeftAlone(d)
    PROVE  Shape' /\ \A d \in Calls : CallOK(d)'
  BY AnswerInvParts, LeftAloneKeeps

(* The operation ends; what it returns, if the call still waits, is right. *)
LEMMA SettleKeeps ==
    ASSUME AnswerInv, NEW c \in Calls, NEW o, Settle(c, o),
           lines' = lines \/ (/\ form[c].mode = "stream"
                              /\ \E l \in Seq(AllEvents(c)) : lines' = [lines EXCEPT ![c] = l]),
           form[c].mode = "stream" => /\ o = "ok" => Complete(c)
                                      /\ o = "response" => Malformed(c)
    PROVE  Shape' /\ \A d \in Calls : CallOK(d)'
<1>0. Shape /\ CallOK(c)
  BY AnswerInvParts
<1>1. Shape'
  BY <1>0 DEF Shape, Settle
<1>2. /\ op'[c] = "end" /\ lines'[c] \in Seq(AllEvents(c))
      /\ form[c].mode # "stream" => lines' = lines
      /\ UNCHANGED <<form, finished, wire, given>>
      /\ result'[c] \in {result[c], o}
      /\ \A d \in Calls \ {c} : LeftAlone(d)
  BY <1>0 DEF Shape, Settle, LeftAlone, CallOK, Typed
<1>3. Typed(c)'
  BY <1>0, <1>2 DEF CallOK, Typed, AllEvents
<1>4. form[c].mode = "stream" => Answered(c)'
  BY <1>0, <1>2 DEF CallOK, Answered, Complete, Malformed
<1>5. form[c].mode = "chat" => Whole(c)'
  BY <1>0, <1>2 DEF CallOK, Whole
<1>6. CallOK(c)'
  BY <1>2, <1>3, <1>4, <1>5 DEF CallOK
<1> QED BY <1>1, <1>2, <1>6, OneCall

(* The operation goes on to its next await, with nothing left to handle. *)
LEMMA GotoKeeps ==
    ASSUME AnswerInv, NEW c \in Calls, NEW o \in {"send", "detail", "json", "read"}, Goto(c, o),
           lines' = lines, lines[c] = <<>>, op[c] \notin {"delta", "end"},
           o = "json" => form[c].mode = "chat", o = "read" => form[c].mode = "stream"
    PROVE  Shape' /\ \A d \in Calls : CallOK(d)'
<1>0. Shape /\ CallOK(c)
  BY AnswerInvParts
<1>1. Shape'
  BY <1>0 DEF Shape, Goto
<1>2. /\ op'[c] = o /\ UNCHANGED <<form, finished, wire, given, lines, result>>
      /\ \A d \in Calls \ {c} : LeftAlone(d)
  BY <1>0 DEF Shape, Goto, LeftAlone
<1>3. Typed(c)' /\ (Answered(c) => Answered(c)')
  BY <1>0, <1>2 DEF CallOK, Typed, AllEvents, Answered, Complete, Malformed
<1>4. form[c].mode = "stream" => Known(c) /\ Known(c)'
  <2>1. form[c].mode = "stream" => Known(c) /\ o # "json"
    BY <1>0 DEF CallOK
  <2> QED BY <1>2, <2>1 DEF Known
<1>5. form[c].mode = "chat" => Whole(c)'
  BY <1>0, <1>2 DEF CallOK, Whole
<1>6. CallOK(c)'
  BY <1>0, <1>2, <1>3, <1>4, <1>5 DEF CallOK
<1> QED BY <1>1, <1>2, <1>6, OneCall

(* A chunk arrives. *)
LEMMA ReadKeeps ==
    ASSUME AnswerInv, NEW c \in Calls, NEW chunk \in Seq(AllEvents(c)), Read(c, chunk)
    PROVE  Shape' /\ \A d \in Calls : CallOK(d)'
<1>0. Shape /\ CallOK(c) /\ Typed(c)
  BY AnswerInvParts DEF CallOK
<1>1. Shape'
  BY <1>0 DEF Shape, Read
<1>2. /\ op[c] = "read" /\ op'[c] = "scan" /\ lines'[c] = chunk /\ wire'[c] = wire[c] \o chunk
      /\ UNCHANGED <<form, finished, given, result>>
      /\ \A d \in Calls \ {c} : LeftAlone(d)
  BY <1>0 DEF Shape, Read, LeftAlone
<1>3. Typed(c)'
  <2>1. AllEvents(c)' = AllEvents(c)
    BY <1>2 DEF AllEvents
  <2>2. wire[c] \o chunk \in Seq(AllEvents(c))
    BY SMTT(20), <1>0 DEF Typed
  <2> QED BY <1>0, <1>2, <2>1, <2>2 DEF Typed
<1>4. ASSUME form[c].mode = "stream" PROVE Known(c)' /\ Answered(c)'
  <2>1. Known(c) /\ lines[c] = <<>>
    BY <1>0, <1>2, <1>4 DEF CallOK, Known
  <2> DEFINE n == Len(wire[c])
             a == form[c].adapter
             fin == finished[c]
  <2>2. /\ n \in Nat /\ n = Len(wire[c]) - Len(lines[c])
        /\ n = Len(wire'[c]) - Len(lines'[c])
        /\ \A i \in 1..Len(lines'[c]) : lines'[c][i] = wire'[c][n + i]
        /\ \A i \in 1..n : wire'[c][i] = wire[c][i]
    BY SMTT(20), <1>0, <1>2, <2>1 DEF Typed
  <2>3. Progress(a, fin, wire[c], n) /\ AreTextPlaces(given[c], wire[c], n)
    BY <1>2, <2>1, <2>2 DEF Known, Progress
  <2> HIDE DEF n
  <2>4. Progress(a, fin, wire'[c], n) /\ AreTextPlaces(given[c], wire'[c], n)
    BY <2>2, <2>3, SamePrefix
  <2>5. result'[c] \notin {"ok", "response"}
    BY <1>2, <2>1 DEF Known
  <2> QED BY <1>2, <2>2, <2>4, <2>5 DEF Known, Progress, Answered
<1>5. form[c].mode # "chat"
  BY <1>0, <1>2 DEF CallOK, Whole
<1>6. CallOK(c)'
  BY <1>2, <1>3, <1>4, <1>5 DEF CallOK
<1> QED BY <1>1, <1>2, <1>6, OneCall

(* What a streaming operation knows of the event it is to handle. *)
LEMMA EventKnown ==
    ASSUME AnswerInv, NEW c \in Calls, form[c].mode = "stream", op[c] # "end", lines[c] # <<>>
    PROVE  \E n \in Nat :
              /\ n = Len(wire[c]) - Len(lines[c]) /\ n + 1 \in 1..Len(wire[c])
              /\ Head(lines[c]) = wire[c][n + 1] /\ wire[c][n + 1] \in AllEvents(c)
              /\ Tail(lines[c]) \in Seq(AllEvents(c))
              /\ Len(wire[c]) - Len(Tail(lines[c])) = n + 1
              /\ \A i \in 1..Len(Tail(lines[c])) : Tail(lines[c])[i] = wire[c][(n + 1) + i]
              /\ Progress(form[c].adapter, finished[c], wire[c], n)
              /\ AreTextPlaces(given[c], wire[c], IF op[c] = "delta" THEN n + 1 ELSE n)
              /\ form[c].adapter \in {"openai", "ollama"} /\ finished[c] \in BOOLEAN
              /\ given[c] \in Seq(Nat)
<1>0. Shape /\ CallOK(c) /\ Typed(c) /\ Known(c)
  BY AnswerInvParts DEF CallOK
<1> DEFINE l == lines[c]
           w == wire[c]
           n == Len(w) - Len(l)
<1>1. n \in Nat /\ \A i \in 1..Len(l) : l[i] = w[n + i]
  BY <1>0 DEF Known
<1>2. /\ l \in Seq(AllEvents(c)) /\ w \in Seq(AllEvents(c)) /\ l # <<>>
  BY <1>0 DEF Typed
<1> HIDE DEF l, w
<1>3. Len(l) \in Nat \ {0} /\ Len(w) \in Nat /\ Head(l) = l[1]
  BY SMTT(20), <1>2
<1>4. n + 1 \in 1..Len(w) /\ Head(l) = w[n + 1] /\ w[n + 1] \in AllEvents(c)
  BY SMTT(20), <1>1, <1>2, <1>3
<1>5. /\ Tail(l) \in Seq(AllEvents(c)) /\ Len(Tail(l)) = Len(l) - 1
      /\ \A i \in 1..Len(Tail(l)) : Tail(l)[i] = l[i + 1]
  BY SMTT(20), <1>2
<1>6. \A i \in 1..Len(Tail(l)) : Tail(l)[i] = w[(n + 1) + i]
  <2> SUFFICES ASSUME NEW i \in 1..Len(Tail(l)) PROVE Tail(l)[i] = w[(n + 1) + i]
    OBVIOUS
  <2>1. i + 1 \in 1..Len(l) /\ n + (i + 1) = (n + 1) + i
    BY SMTT(20), <1>1, <1>3, <1>5
  <2> QED BY <1>1, <1>5, <2>1
<1>7. Len(w) - Len(Tail(l)) = n + 1
  BY SMTT(20), <1>3, <1>5
<1>8. /\ Progress(form[c].adapter, finished[c], w, n)
      /\ AreTextPlaces(given[c], w, IF op[c] = "delta" THEN n + 1 ELSE n)
  BY <1>0 DEF Known, Progress, l, w
<1>9. form[c].adapter \in {"openai", "ollama"} /\ finished[c] \in BOOLEAN /\ given[c] \in Seq(Nat)
  BY <1>0 DEF Shape, Forms, Typed
<1> QED BY <1>1, <1>4, <1>5, <1>6, <1>7, <1>8, <1>9 DEF l, w

(* An event that is refused, or the end of the body, leaves the answer     *)
(* malformed.                                                              *)
LEMMA NotAnAnswer ==
    ASSUME AnswerInv, NEW c \in Calls, NEW n \in Nat,
           Progress(form[c].adapter, finished[c], wire[c], n),
           n = Len(wire[c]) \/ Refused(form[c].adapter, finished[c], wire[c][n + 1])
    PROVE  Malformed(c)
<1>1. /\ Len(wire[c]) \in Nat /\ form[c].adapter \in {"openai", "ollama"}
      /\ finished[c] \in BOOLEAN
  BY SMTT(20), AnswerInvParts DEF CallOK, Typed, Shape, Forms
<1> SUFFICES ASSUME NEW m \in 1..Len(wire[c]) PROVE ~LegalAnswer(form[c].adapter, wire[c], m)
  BY DEF Malformed
<1>2. m \in Nat \ {0}
  BY SMTT(20), <1>1
<1> QED BY <1>1, <1>2, NoneYet, NeverLegal

(* onDelta is called; the call itself may be interrupted meanwhile. *)
LEMMA OfferKeeps ==
    ASSUME AnswerInv, NEW c \in Calls, Offer(c), DOMAIN result' = Calls,
           \A d \in Calls : result'[d] = result[d] \/ result'[d] \notin {"ok", "response"}
    PROVE  Shape' /\ \A d \in Calls : CallOK(d)'
<1>0. /\ Shape /\ CallOK(c) /\ Typed(c) /\ Known(c) /\ op[c] = "scan" /\ lines[c] # <<>>
      /\ form[c].mode = "stream"
  <2>1. Shape /\ CallOK(c) /\ Typed(c) /\ op[c] = "scan" /\ lines[c] # <<>>
    BY AnswerInvParts DEF CallOK, Offer, At
  <2>2. form[c].mode = "stream"
    BY <2>1 DEF CallOK, Whole, Shape, Forms
  <2> QED BY <2>1, <2>2 DEF CallOK
<1>1. PICK n \in Nat :
           /\ n = Len(wire[c]) - Len(lines[c])
           /\ Head(lines[c]) = wire[c][n + 1]
           /\ Progress(form[c].adapter, finished[c], wire[c], n)
           /\ AreTextPlaces(given[c], wire[c], n) /\ given[c] \in Seq(Nat)
  BY <1>0, EventKnown
<1>2. Shape'
  BY <1>0 DEF Shape, Offer
<1>3. /\ op'[c] = "delta" /\ given'[c] = Append(given[c], n + 1)
      /\ UNCHANGED <<form, lines, finished, wire>>
      /\ \A d \in Calls \ {c} : LeftAlone(d)
  BY <1>0, <1>1 DEF Shape, Offer, LeftAlone
<1>4. Typed(c)'
  <2>1. AllEvents(c)' = AllEvents(c)
    BY <1>3 DEF AllEvents
  <2>2. Append(given[c], n + 1) \in Seq(Nat)
    BY SMTT(20), <1>1
  <2> QED BY <1>0, <1>3, <2>1, <2>2 DEF Typed
<1>5. AreTextPlaces(given'[c], wire'[c], n + 1)
  <2>1. wire[c][n + 1] \in WithText
    BY <1>1 DEF Offer
  <2>2. AreTextPlaces(Append(given[c], n + 1), wire[c], n + 1)
    BY <1>1, <2>1, PlacesNext
  <2> QED BY <1>3, <2>2
<1>6. result'[c] \notin {"ok", "response"}
  BY <1>0 DEF Known
<1>7. lines[c] # <<>> /\ Head(lines[c]) \in WithText /\ ~Misplaced(c, Head(lines[c]))'
  BY <1>0, <1>3 DEF Offer, Misplaced
<1>8. Known(c)'
  BY <1>0, <1>1, <1>3, <1>5, <1>6, <1>7 DEF Known
<1>9. CallOK(c)'
  BY <1>0, <1>3, <1>4, <1>6, <1>8 DEF CallOK, Answered
<1> QED BY <1>2, <1>3, <1>9, OneCall

(* The rest of an event: it is the one the operation has come to, and its  *)
(* text, if it has any, has been passed on.                                *)
LEMMA ConcludeKeeps ==
    ASSUME AnswerInv, NEW c \in Calls, form[c].mode = "stream", lines[c] # <<>>,
           op[c] = "delta" \/ (op[c] = "scan" /\ Head(lines[c]) \notin WithText),
           ~Misplaced(c, Head(lines[c])), Conclude(c, Head(lines[c]))
    PROVE  Shape' /\ \A d \in Calls : CallOK(d)'
<1>0. Shape /\ CallOK(c) /\ Typed(c) /\ Known(c)
  BY AnswerInvParts DEF CallOK
<1> DEFINE e == Head(lines[c])
           w == wire[c]
           a == form[c].adapter
           fin == finished[c]
<1>1. PICK n \in Nat :
           /\ n = Len(w) - Len(lines[c]) /\ n + 1 \in 1..Len(w)
           /\ e = w[n + 1] /\ w[n + 1] \in AllEvents(c)
           /\ Tail(lines[c]) \in Seq(AllEvents(c))
           /\ Len(w) - Len(Tail(lines[c])) = n + 1
           /\ \A i \in 1..Len(Tail(lines[c])) : Tail(lines[c])[i] = w[(n + 1) + i]
           /\ Progress(a, fin, w, n)
           /\ AreTextPlaces(given[c], w, IF op[c] = "delta" THEN n + 1 ELSE n)
           /\ a \in {"openai", "ollama"} /\ fin \in BOOLEAN /\ given[c] \in Seq(Nat)
  BY EventKnown
<1>2. AreTextPlaces(given[c], w, n + 1)
  BY <1>1, PlacesNext
<1>3. lines' = [lines EXCEPT ![c] = Tail(lines[c])]
  BY <1>0 DEF Conclude, Shape
<1>4. /\ a = "openai" => e \in OpenAIEvents
      /\ a = "ollama" => e \in OllamaEvents
  BY <1>1 DEF AllEvents
<1>5. a = "openai" /\ fin => e \notin WithChoice
  BY DEF Misplaced
<1>6. ASSUME e \in {"done", "text+done"}, Settle(c, "ok")
      PROVE  Shape' /\ \A d \in Calls : CallOK(d)'
  <2>1. a = "ollama"
    BY <1>1, <1>4, <1>6 DEF OpenAIEvents
  <2>2. LegalAnswer(a, w, n + 1)
    BY <1>1, <1>6, <2>1, LegalNext
  <2>3. Complete(c)
    BY <1>1, <1>2, <2>2 DEF Complete
  <2> QED BY <1>1, <1>3, <1>6, <2>3, SettleKeeps
<1>7. ASSUME e = "[DONE]", Settle(c, IF fin THEN "ok" ELSE "response")
      PROVE  Shape' /\ \A d \in Calls : CallOK(d)'
  <2>1. a = "openai"
    BY <1>1, <1>4, <1>7 DEF OllamaEvents
  <2>2. CASE fin
    <3>1. LegalAnswer(a, w, n + 1)
      BY <1>1, <1>7, <2>1, <2>2, LegalNext
    <3>2. Complete(c)
      BY <1>1, <1>2, <3>1 DEF Complete
    <3>3. Settle(c, "ok")
      BY <1>7, <2>2
    <3> QED BY <1>1, <1>3, <3>2, <3>3, SettleKeeps
  <2>3. CASE ~fin
    <3>1. Refused(a, fin, w[n + 1])
      BY <1>1, <1>7, <2>1, <2>3 DEF Refused
    <3>2. Malformed(c)
      BY <1>1, <3>1, NotAnAnswer
    <3>3. Settle(c, "response")
      BY <1>7, <2>3
    <3> QED BY <1>1, <1>3, <3>2, <3>3, SettleKeeps
  <2> QED BY <1>1, <2>2, <2>3
<1>8. ASSUME e \in {"bad", "text+bad"}, Settle(c, "response")
      PROVE  Shape' /\ \A d \in Calls : CallOK(d)'
  <2>1. Refused(a, fin, w[n + 1])
    BY <1>1, <1>8 DEF Refused
  <2>2. Malformed(c)
    BY <1>1, <2>1, NotAnAnswer
  <2> QED BY <1>1, <1>3, <1>8, <2>2, SettleKeeps
<1>9. ASSUME NEW f \in BOOLEAN, finished' = [finished EXCEPT ![c] = f],
             op' = [op EXCEPT ![c] = "scan"], UNCHANGED <<form, reason, result, wire, given>>,
             Progress(a, f, w, n + 1)
      PROVE  Shape' /\ \A d \in Calls : CallOK(d)'
  <2>1. Shape'
    BY <1>0, <1>3, <1>9 DEF Shape
  <2>2. /\ op'[c] = "scan" /\ lines'[c] = Tail(lines[c]) /\ finished'[c] = f
        /\ \A d \in Calls \ {c} : LeftAlone(d)
    BY <1>0, <1>3, <1>9 DEF Shape, LeftAlone
  <2>3. Typed(c)'
    <3>1. AllEvents(c)' = AllEvents(c)
      BY <1>9 DEF AllEvents
    <3> QED BY <1>0, <1>1, <1>9, <2>2, <3>1 DEF Typed
  <2>4. Known(c)'
    <3>1. /\ n + 1 = Len(wire'[c]) - Len(lines'[c]) /\ n + 1 \in Nat
          /\ \A i \in 1..Len(lines'[c]) : lines'[c][i] = wire'[c][(n + 1) + i]
      <4>1. lines'[c] = Tail(lines[c]) /\ wire'[c] = w
        BY <1>9, <2>2
      <4>2. n + 1 = Len(wire'[c]) - Len(lines'[c])
        BY <1>1, <4>1, Zenon
      <4>3. \A i \in 1..Len(lines'[c]) : lines'[c][i] = wire'[c][(n + 1) + i]
        BY <1>1, <4>1, Zenon
      <4>4. n + 1 \in Nat
        BY SMTT(20)
      <4> QED BY <4>2, <4>3, <4>4, Zenon
    <3>2. /\ AreTextPlaces(given'[c], wire'[c], n + 1)
          /\ Progress(form'[c].adapter, finished'[c], wire'[c], n + 1)
      BY <1>2, <1>9, <2>2
    <3>3. result'[c] \notin {"ok", "response"}
      BY <1>0, <1>9 DEF Known
    <3> QED BY <2>2, <3>1, <3>2, <3>3 DEF Known, Progress
  <2>5. CallOK(c)'
    BY <1>9, <2>2, <2>3, <2>4 DEF CallOK, Answered, Known
  <2> QED BY <2>1, <2>2, <2>5, OneCall
<1>10. ASSUME e \in {"finish", "text+finish"}, op' = [op EXCEPT ![c] = "scan"],
              finished' = [finished EXCEPT ![c] = TRUE],
              UNCHANGED <<form, reason, result, wire, given>>
       PROVE  Shape' /\ \A d \in Calls : CallOK(d)'
  <2>1. a # "ollama" /\ ~fin
    BY <1>1, <1>4, <1>5, <1>10 DEF OllamaEvents, WithChoice
  <2>2. Progress(a, TRUE, w, n + 1)
    BY <1>1, <1>10, <2>1, ProgressNext
  <2> QED BY <1>9, <1>10, <2>2
<1>11. ASSUME e \in {"text", "role", "usage", "empty", "blank"}, Goto(c, "scan")
       PROVE  Shape' /\ \A d \in Calls : CallOK(d)'
  <2>1. Progress(a, fin, w, n + 1)
    <3>1. CASE a = "ollama"
      <4>1. w[n + 1] \in {"text", "empty", "blank"}
        BY <1>1, <1>4, <1>11, <3>1 DEF OllamaEvents
      <4> QED BY <1>1, <3>1, <4>1, ProgressNext
    <3>2. CASE a = "openai"
      <4>1. w[n + 1] \in {"text", "role", "usage"} /\ (fin => w[n + 1] = "usage")
        BY <1>1, <1>4, <1>5, <1>11, <3>2 DEF OpenAIEvents, WithChoice
      <4> QED BY <1>1, <3>2, <4>1, ProgressNext
    <3> QED BY <1>1, <3>1, <3>2
  <2>2. finished' = [finished EXCEPT ![c] = fin]
    BY <1>0, <1>11 DEF Goto, Shape
  <2> QED BY <1>1, <1>9, <1>11, <2>1, <2>2 DEF Goto
<1> QED BY <1>6, <1>7, <1>8, <1>10, <1>11 DEF Conclude

(* Every action of a call. *)
LEMMA HandleKeeps ==
    ASSUME AnswerInv, NEW c \in Calls, Handle(c)
    PROVE  Shape' /\ \A d \in Calls : CallOK(d)'
<1> DEFINE e == Head(lines[c])
<1>1. /\ op[c] = "scan" /\ lines[c] # <<>> /\ form[c].mode = "stream"
  <2>1. op[c] = "scan" /\ lines[c] # <<>>
    BY DEF Handle, At
  <2> QED BY <2>1, AnswerInvParts DEF CallOK, Whole, Shape, Forms
<1>2. CASE Settle(c, "cancelled") /\ lines' = lines
  BY <1>2, SettleKeeps
<1>3. CASE Misplaced(c, e) /\ Settle(c, "response") /\ lines' = lines
  <2>1. PICK n \in Nat : /\ e = wire[c][n + 1]
                         /\ Progress(form[c].adapter, finished[c], wire[c], n)
    BY <1>1, EventKnown
  <2>2. Refused(form[c].adapter, finished[c], wire[c][n + 1])
    BY <1>3, <2>1 DEF Misplaced, Refused
  <2>3. Malformed(c)
    BY <2>1, <2>2, NotAnAnswer
  <2> QED BY <1>3, <2>3, SettleKeeps
<1>4. CASE ~Misplaced(c, e) /\ e \notin WithText /\ Conclude(c, e)
  BY <1>1, <1>4, ConcludeKeeps
<1> QED BY <1>2, <1>3, <1>4 DEF Handle

LEMMA ConsumedKeeps ==
    ASSUME AnswerInv, NEW c \in Calls, Consumed(c)
    PROVE  Shape' /\ \A d \in Calls : CallOK(d)'
<1>1. op[c] = "delta" /\ Conclude(c, Head(lines[c]))
  BY DEF Consumed
<1>2. form[c].mode = "stream" /\ Known(c)
  BY <1>1, AnswerInvParts DEF CallOK, Whole, Shape, Forms
<1>3. lines[c] # <<>> /\ ~Misplaced(c, Head(lines[c]))
  BY <1>1, <1>2 DEF Known
<1> QED BY <1>1, <1>2, <1>3, ConcludeKeeps

(* The awaits that come before and between the chunks. *)
LEMMA WaitKeeps ==
    ASSUME AnswerInv, NEW c \in Calls,
           \/ Begin(c) \/ Respond(c) \/ Detail(c) \/ Json(c) \/ ReadEnds(c)
           \/ Notice(c) \/ NextRead(c) \/ ConsumerThrows(c)
    PROVE  Shape' /\ \A d \in Calls : CallOK(d)'
<1>0. Shape /\ CallOK(c) /\ form[c].mode \in {"chat", "stream"}
  BY AnswerInvParts DEF Shape, Forms
<1>1. lines' = lines
  BY DEF Begin, Respond, Detail, Json, ReadEnds, Notice, NextRead, ConsumerThrows
<1>2. ASSUME NEW o, o \notin {"ok", "response"}, Settle(c, o)
      PROVE  Shape' /\ \A d \in Calls : CallOK(d)'
  BY <1>1, <1>2, SettleKeeps
<1>3. ASSUME op[c] \in {"idle", "send", "detail", "read"} PROVE lines[c] = <<>>
  BY <1>0, <1>3 DEF CallOK, Whole, Known
<1>4. CASE Begin(c)
  <2>1. CASE Settle(c, "cancelled")
    BY <1>2, <2>1
  <2>2. CASE Goto(c, "send")
    <3>1. op[c] = "idle" /\ lines[c] = <<>>
      BY <1>3, <1>4 DEF Begin
    <3> QED BY <1>1, <2>2, <3>1, GotoKeeps
  <2> QED BY <1>4, <2>1, <2>2 DEF Begin
<1>5. CASE Respond(c)
  <2>0. op[c] = "send" /\ lines[c] = <<>>
    BY <1>3, <1>5 DEF Respond
  <2>1. CASE Goto(c, IF form[c].mode = "chat" THEN "json" ELSE "read")
    <3>1. CASE form[c].mode = "chat"
      <4>1. Goto(c, "json")
        BY <2>1, <3>1
      <4> QED BY <1>1, <2>0, <3>1, <4>1, GotoKeeps
    <3>2. CASE form[c].mode = "stream"
      <4>1. Goto(c, "read")
        BY <2>1, <3>2
      <4> QED BY <1>1, <2>0, <3>2, <4>1, GotoKeeps
    <3> QED BY <1>0, <3>1, <3>2
  <2>2. CASE Goto(c, "detail")
    BY <1>1, <2>0, <2>2, GotoKeeps
  <2>3. CASE \E o \in {"connection", "transient", "permanent"} : Settle(c, o)
    BY <1>2, <2>3
  <2> QED BY <1>5, <2>1, <2>2, <2>3 DEF Respond
<1>6. CASE Detail(c)
  BY <1>2, <1>6 DEF Detail
<1>7. CASE Json(c)
  <2>1. form[c].mode = "chat"
    BY <1>0, <1>7 DEF Json, CallOK, Known
  <2>2. PICK o \in {"ok", "response"} : Settle(c, o)
    BY <1>7 DEF Json
  <2> QED BY <1>1, <2>1, <2>2, SettleKeeps
<1>8. CASE ReadEnds(c)
  <2>1. op[c] = "read" /\ lines[c] = <<>>
    BY <1>3, <1>8 DEF ReadEnds
  <2>2. Known(c) /\ Typed(c)
    BY <1>0, <2>1 DEF CallOK, Whole
  <2>3. Len(wire[c]) - Len(lines[c]) = Len(wire[c]) /\ Len(wire[c]) \in Nat
    BY SMTT(20), <2>1, <2>2 DEF Typed
  <2>4. Progress(form[c].adapter, finished[c], wire[c], Len(wire[c]))
    BY <2>2, <2>3 DEF Known, Progress
  <2>5. Malformed(c)
    BY <2>3, <2>4, NotAnAnswer
  <2>6. CASE Settle(c, "response")
    BY <1>1, <2>5, <2>6, SettleKeeps
  <2>7. CASE Settle(c, "connection")
    BY <1>2, <2>7
  <2> QED BY <1>8, <2>6, <2>7 DEF ReadEnds
<1>9. CASE Notice(c)
  BY <1>2, <1>9 DEF Notice
<1>10. CASE NextRead(c)
  <2>1. op[c] = "scan" /\ lines[c] = <<>> /\ Goto(c, "read")
    BY <1>10 DEF NextRead
  <2>2. form[c].mode = "stream"
    BY <1>0, <2>1 DEF CallOK, Whole
  <2> QED BY <1>1, <2>1, <2>2, GotoKeeps
<1>11. CASE ConsumerThrows(c)
  BY <1>2, <1>11 DEF ConsumerThrows
<1> QED BY <1>4, <1>5, <1>6, <1>7, <1>8, <1>9, <1>10, <1>11

(* What arrives is a chunk of one or two events. *)
LEMMA ChunkKeeps ==
    ASSUME AnswerInv, NEW c \in Calls, NEW e \in Events(c), NEW f \in Events(c),
           Read(c, <<e>>) \/ Read(c, <<e, f>>)
    PROVE  Shape' /\ \A d \in Calls : CallOK(d)'
<1>1. e \in AllEvents(c) /\ f \in AllEvents(c)
  BY DEF Events
<1>2. <<e>> \in Seq(AllEvents(c)) /\ <<e, f>> \in Seq(AllEvents(c))
  BY SMTT(20), <1>1
<1> QED BY <1>2, ReadKeeps

(* The signal interrupts calls, and nothing else happens. *)
LEMMA InterruptKeeps ==
    ASSUME AnswerInv, NEW cs, NEW why, NEW outcome, outcome \notin {"ok", "response"},
           Interrupt(cs, why, outcome), UNCHANGED <<form, op, lines, finished, wire, given>>
    PROVE  Shape' /\ \A d \in Calls : CallOK(d)'
<1>1. Shape' /\ \A d \in Calls : LeftAlone(d)
  BY AnswerInvParts DEF Shape, LeftAlone, Interrupt
<1> QED BY <1>1, AnswerInvParts, LeftAloneKeeps

LEMMA AnswerInvNext == AnswerInv' <=> (Shape /\ \A c \in Calls : CallOK(c))'
  BY AnswerInvParts, PTL

(* No step of a call takes a truncated or malformed body for an answer, or *)
(* the other way round.                                                    *)
LEMMA OperationKeeps ==
    ASSUME AnswerInv, NEW c \in Calls,
           \/ Begin(c) \/ Deadline(c) \/ Code(c) \/ Provider(c) \/ Consumed(c) \/ ConsumerThrows(c)
    PROVE  AnswerInv'
<1> SUFFICES Shape' /\ \A d \in Calls : CallOK(d)'
  BY AnswerInvNext
<1>1. CASE Deadline(c)
  BY <1>1, InterruptKeeps DEF Deadline
<1>2. CASE Code(c)
  BY <1>2, HandleKeeps, WaitKeeps DEF Code
<1>3. CASE Provider(c)
  BY <1>3, ChunkKeeps, WaitKeeps DEF Provider
<1>4. CASE Begin(c) \/ Consumed(c) \/ ConsumerThrows(c)
  BY <1>4, WaitKeeps, ConsumedKeeps
<1> QED BY <1>1, <1>2, <1>3, <1>4

LEMMA AnswerStep ==
    ASSUME AnswerInv, [Next]_vars
    PROVE  AnswerInv'
<1>0. Shape
  BY AnswerInvParts
<1>1. CASE UNCHANGED vars
  <2>1. Shape' /\ \A d \in Calls : LeftAlone(d)
    BY <1>0, <1>1 DEF Shape, LeftAlone, vars, callVars
  <2> QED BY <2>1, AnswerInvParts, AnswerInvNext, LeftAloneKeeps
<1>2. CASE ParentAborts /\ UNCHANGED <<form, op, lines, finished, wire, given>>
  BY <1>2, InterruptKeeps, AnswerInvNext DEF ParentAborts
<1>3. ASSUME NEW c \in Calls, Offer(c), UNCHANGED result
      PROVE  AnswerInv'
  <2>1. DOMAIN result' = Calls
    BY <1>0, <1>3 DEF Shape
  <2> QED BY <1>3, <2>1, OfferKeeps, AnswerInvNext
<1> QED BY <1>1, <1>2, <1>3, OperationKeeps DEF Next

(* What a user of the calls relies on: a step of one call leaves the       *)
(* results that are there, and the operations of the others, as they are.  *)
LEMMA ResultsStay ==
    ASSUME AnswerInv, NEW c \in Calls,
           \/ Begin(c) \/ Deadline(c) \/ Code(c) \/ Provider(c) \/ Consumed(c) \/ ConsumerThrows(c)
    PROVE  /\ \A d \in Calls : result[d] # "none" => result'[d] = result[d]
           /\ \A d \in Calls \ {c} : op'[d] = op[d]
<1> DEFINE Stay == /\ \A d \in Calls : result[d] # "none" => result'[d] = result[d]
                   /\ \A d \in Calls \ {c} : op'[d] = op[d]
<1>0. DOMAIN op = Calls /\ DOMAIN result = Calls
  BY AnswerInvParts DEF Shape
<1>1. ASSUME NEW o, Settle(c, o) PROVE Stay
  BY <1>0, <1>1 DEF Settle
<1>2. ASSUME NEW o, Goto(c, o) PROVE Stay
  BY <1>0, <1>2 DEF Goto
<1>3. ASSUME NEW e, Conclude(c, e) PROVE Stay
  BY <1>0, <1>1, <1>2, <1>3 DEF Conclude
<1>4. ASSUME NEW chunk, Read(c, chunk) PROVE Stay
  BY <1>0, <1>4 DEF Read
<1>5. ASSUME Deadline(c) PROVE Stay
  BY <1>5 DEF Deadline, Interrupt, Running
<1> HIDE DEF Stay
<1>6. Stay
  BY <1>1, <1>2, <1>3, <1>4, <1>5 DEF Stay, Begin, Code, Notice, Handle, NextRead, Provider,
     Respond, Detail, Json, ReadEnds, Consumed, ConsumerThrows
<1> QED BY <1>6 DEF Stay

LEMMA InterruptStays ==
    ASSUME NEW cs, NEW why, NEW outcome, Interrupt(cs, why, outcome), NEW d \in Calls,
           result[d] # "none"
    PROVE  result'[d] = result[d]
BY DEF Interrupt, Running

LEMMA OnlyStarted ==
    ASSUME NEW c \in Calls,
           \/ Deadline(c) \/ Code(c) \/ Provider(c) \/ Consumed(c) \/ ConsumerThrows(c)
    PROVE  op[c] # "idle"
BY DEF Deadline, Running, Code, Notice, Handle, At, NextRead, Provider, Respond, Detail, Json,
       ReadEnds, Read, Consumed, ConsumerThrows

LEMMA OffersWhileWaiting ==
    ASSUME SilenceInv, NEW c \in Calls, Offer(c)
    PROVE  op[c] = "scan" /\ result[c] = "none"
<1>1. Head(lines[c]) # "blank"
  BY DEF Offer, WithText
<1> QED BY <1>1 DEF Offer, At, Stopped, SilenceInv

LEMMA AnswerStart == CallInit /\ form \in [Calls -> Forms] => AnswerInv
<1> SUFFICES ASSUME CallInit, form \in [Calls -> Forms] PROVE Shape /\ \A c \in Calls : CallOK(c)
  BY AnswerInvParts
<1>1. Shape
  BY DEF CallInit, Shape
<1> SUFFICES ASSUME NEW c \in Calls PROVE CallOK(c)
  BY <1>1
<1>2. /\ op[c] = "idle" /\ lines[c] = <<>> /\ finished[c] = FALSE /\ result[c] = "none"
      /\ wire[c] = <<>> /\ given[c] = <<>>
  BY DEF CallInit
<1>3. Typed(c) /\ Whole(c) /\ Answered(c)
  BY SMTT(20), <1>2 DEF Typed, Whole, Answered
<1>4. Len(wire[c]) = 0 /\ Len(lines[c]) = 0 /\ Len(wire[c]) - Len(lines[c]) = 0
  BY SMTT(20), <1>2
<1>5. Unended(wire[c], 0) /\ Unfinished(wire[c], 0) /\ AreTextPlaces(given[c], wire[c], 0)
  <2>1. Range(given[c]) = {}
    BY SMTT(20), <1>2 DEF Range
  <2> QED BY SMTT(20), <1>2, <2>1 DEF Unended, Unfinished, AreTextPlaces
<1>6. Known(c)
  BY SMTT(20), <1>2, <1>4, <1>5 DEF Known
<1> QED BY <1>3, <1>6 DEF CallOK

(* A streamed call of either adapter succeeds exactly on a complete answer *)
(* of its protocol, whose text has all been passed to onDelta in order,    *)
(* and calls no complete answer malformed: for any number of calls, bodies *)
(* of any length and any sequence of deadlines and cancellations.          *)
THEOREM AnswersAreComplete == FairSpec => []AnswersComplete
<1>1. Init => AnswerInv
  BY AnswerStart DEF Init
<1>2. AnswerInv /\ [Next]_vars => AnswerInv'
  BY AnswerStep
<1>3. AnswerInv => AnswersComplete
  BY DEF AnswerInv
<1> QED BY <1>1, <1>2, <1>3, PTL DEF FairSpec
=============================================================================
