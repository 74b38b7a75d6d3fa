---------------------------- MODULE ProviderCall ----------------------------
(***************************************************************************)
(* The provider calls of one request: withProviderDeadline around the chat *)
(* or the stream operation of the OpenAI or the Ollama adapter.            *)
(*                                                                         *)
(* The caller's promise settles as soon as the call's signal is aborted,   *)
(* while the operation may still be inside fetch, a read or onDelta: the   *)
(* two end separately (result and op).  A body arrives in chunks of        *)
(* several events, which are handled one by one with an await in between.  *)
(***************************************************************************)
EXTENDS Naturals, Sequences, Functions

CONSTANTS Calls,
          Sent,     \* bound: the kinds of events the providers send
          MaxEvents \* bound: the events of a body

VARIABLES form,     \* the adapter and the mode of a call
          aborted,  \* the request's signal, parent of every call's
          op,       \* the operation: idle, send, detail, json, read, scan, delta, end
          lines,    \* the events of the current chunk that are still to be handled
          finished, \* OpenAI: a finish reason was seen
          reason,   \* why the call's signal is aborted: none, parent, deadline, over
          result,   \* what the caller gets
          wire,     \* history: the events received
          given     \* history: the places on the wire of the texts passed to onDelta

callVars == <<form, op, lines, finished, reason, result, wire, given>>
vars == <<callVars, aborted>>

(* What an event is to the adapter.  Events with text pass it to onDelta   *)
(* before the rest of the event is looked at; "bad" is all that the checks *)
(* of the adapters or the parser refuse, "usage" an event without choices. *)
OpenAIEvents == {"text", "role", "finish", "text+finish", "text+bad", "usage", "[DONE]", "bad"}
OllamaEvents == {"text", "empty", "blank", "done", "text+done", "bad"}
AllEvents(c) == IF form[c].adapter = "openai" THEN OpenAIEvents ELSE OllamaEvents
Events(c) == Sent \cap AllEvents(c)
WithText == {"text", "text+finish", "text+bad", "text+done"}
WithChoice == {"text", "role", "finish", "text+finish", "text+bad"}

Forms == [adapter : {"openai", "ollama"}, mode : {"chat", "stream"}]

Running(c) == op[c] # "idle" /\ result[c] = "none"

(* The operation ends; its outcome is the call's unless that is settled.   *)
(* finally aborts the signal.                                              *)
Settle(c, outcome) ==
    /\ op' = [op EXCEPT ![c] = "end"]
    /\ result' = [result EXCEPT ![c] = IF @ = "none" THEN outcome ELSE @]
    /\ reason' = [reason EXCEPT ![c] = IF @ = "none" THEN "over" ELSE @]
    /\ UNCHANGED <<form, finished, wire, given>>

Goto(c, o) == op' = [op EXCEPT ![c] = o] /\ UNCHANGED <<form, finished, reason, result, wire, given>>

(* throwIfCancelled(parent), then the operation as far as fetch. *)
Begin(c) ==
    /\ op[c] = "idle"
    /\ IF aborted THEN Settle(c, "cancelled") ELSE Goto(c, "send")
    /\ UNCHANGED lines

(* controller.abort: abortable rejects at once, whatever the operation     *)
(* waits for.                                                              *)
InterruptOnly(cs, why, outcome) == \* mutant: without abortable
    /\ reason' = [c \in Calls |-> IF c \in cs /\ Running(c) THEN why ELSE reason[c]]
    /\ UNCHANGED result
Interrupt(cs, why, outcome) ==
    /\ reason' = [c \in Calls |-> IF c \in cs /\ Running(c) THEN why ELSE reason[c]]
    /\ result' = [c \in Calls |-> IF c \in cs /\ Running(c) THEN outcome ELSE result[c]]

ParentAborts == /\ ~aborted /\ aborted' = TRUE
                /\ Interrupt(Calls, "parent", "cancelled")

DeadlineOfHeaders(c) == /\ Running(c) /\ reason[c] = "none" /\ op[c] = "send" \* mutant
                        /\ Interrupt({c}, "deadline", "timeout")
                        /\ UNCHANGED <<form, aborted, op, lines, finished, wire, given>>
Deadline(c) == /\ Running(c) /\ reason[c] = "none"
               /\ Interrupt({c}, "deadline", "timeout")
               /\ UNCHANGED <<form, aborted, op, lines, finished, wire, given>>

(* fetch settles. *)
Respond(c) ==
    /\ op[c] = "send" /\ reason[c] = "none"
    /\ \/ Goto(c, IF form[c].mode = "chat" THEN "json" ELSE "read")
       \/ Settle(c, "connection")
       \/ form[c].adapter = "ollama" /\ Goto(c, "detail")
       \/ form[c].adapter = "openai" /\ \E o \in {"transient", "permanent"} : Settle(c, o)
    /\ UNCHANGED <<aborted, lines>>

(* Ollama's error reply; a detail that cannot be read is left out. *)
Detail(c) ==
    /\ op[c] = "detail" /\ reason[c] = "none"
    /\ \E o \in {"transient", "permanent"} : Settle(c, o)
    /\ UNCHANGED <<aborted, lines>>

Json(c) ==
    /\ op[c] = "json" /\ reason[c] = "none"
    /\ \E o \in {"ok", "response"} : Settle(c, o)
    /\ UNCHANGED <<aborted, lines>>

(* reader.read brings a chunk, the end or an error. *)
Read(c, chunk) ==
    /\ op[c] = "read" /\ reason[c] = "none" /\ Len(wire[c]) + Len(chunk) <= MaxEvents
    /\ op' = [op EXCEPT ![c] = "scan"]
    /\ lines' = [lines EXCEPT ![c] = chunk]
    /\ wire' = [wire EXCEPT ![c] = @ \o chunk]
    /\ UNCHANGED <<form, aborted, finished, reason, result, given>>

(* The body ends or breaks off, or a chunk is not valid UTF-8: no event of *)
(* that chunk is looked at, not even those before the invalid byte.        *)
ReadEnds(c) ==
    /\ op[c] = "read" /\ reason[c] = "none"
    /\ \E o \in {"response", "connection"} : Settle(c, o)
    /\ UNCHANGED <<aborted, lines>>

(* signal.throwIfAborted, or a wait that the signal has interrupted. *)
Notice(c) ==
    /\ reason[c] # "none" /\ op[c] \in {"send", "detail", "json", "read"}
    /\ Settle(c, "cancelled")
    /\ UNCHANGED <<aborted, lines>>

(* The part of an event that follows its text. *)
Conclude(c, e) ==
    /\ lines' = [lines EXCEPT ![c] = Tail(@)]
    /\ \/ e \in {"text", "role", "usage", "empty", "blank"} /\ Goto(c, "scan")
       \/ /\ e \in {"finish", "text+finish"}
          /\ op' = [op EXCEPT ![c] = "scan"] /\ finished' = [finished EXCEPT ![c] = TRUE]
          /\ UNCHANGED <<form, reason, result, wire, given>>
       \/ e \in {"done", "text+done"} /\ Settle(c, "ok")
       \/ e = "[DONE]" /\ Settle(c, IF finished[c] THEN "ok" ELSE "response")
       \/ e \in {"bad", "text+bad"} /\ Settle(c, "response")

(* What an event meets first: the aborted signal (a blank line of Ollama's *)
(* is skipped before that), or a choice after the finish reason.           *)
StoppedNever(c, e) == FALSE \* mutant: throwIfAborted is left out
Stopped(c, e) == e # "blank" /\ reason[c] # "none"
MisplacedNever(c, e) == FALSE \* mutant
Misplaced(c, e) == form[c].adapter = "openai" /\ finished[c] /\ e \in WithChoice

At(c) == op[c] = "scan" /\ lines[c] # <<>>

(* onDelta is called. *)
Offer(c) ==
    /\ At(c) /\ Head(lines[c]) \in WithText
    /\ ~Stopped(c, Head(lines[c])) /\ ~Misplaced(c, Head(lines[c]))
    /\ op' = [op EXCEPT ![c] = "delta"]
    /\ given' = [given EXCEPT ![c] = Append(@, Len(wire[c]) - Len(lines[c]) + 1)]
    /\ UNCHANGED <<form, lines, finished, wire>>

Handle(c) ==
    /\ At(c)
    /\ LET e == Head(lines[c])
       IN  \/ Stopped(c, e) /\ Settle(c, "cancelled") /\ UNCHANGED lines
           \/ ~Stopped(c, e) /\ Misplaced(c, e) /\ Settle(c, "response") /\ UNCHANGED lines
           \/ ~Stopped(c, e) /\ ~Misplaced(c, e) /\ e \notin WithText /\ Conclude(c, e)
    /\ UNCHANGED aborted

NextRead(c) ==
    /\ op[c] = "scan" /\ lines[c] = <<>>
    /\ Goto(c, "read")
    /\ UNCHANGED <<aborted, lines>>

(* onDelta resolves, or rejects. *)
Consumed(c) == op[c] = "delta" /\ Conclude(c, Head(lines[c])) /\ UNCHANGED aborted
ConsumerThrows(c) == op[c] = "delta" /\ Settle(c, "consumer") /\ UNCHANGED <<aborted, lines>>

CallInit == /\ aborted = FALSE
            /\ op = [c \in Calls |-> "idle"]
            /\ lines = [c \in Calls |-> <<>>] /\ finished = [c \in Calls |-> FALSE]
            /\ reason = [c \in Calls |-> "none"] /\ result = [c \in Calls |-> "none"]
            /\ wire = [c \in Calls |-> <<>>] /\ given = [c \in Calls |-> <<>>]

Init == CallInit /\ form \in [Calls -> Forms]

(* What the process does by itself, and what the provider does. *)
Code(c) == Notice(c) \/ Handle(c) \/ NextRead(c)
Provider(c) == \/ Respond(c) \/ Detail(c) \/ Json(c) \/ ReadEnds(c)
               \/ \E e, f \in Events(c) : Read(c, <<e>>) \/ Read(c, <<e, f>>)

Next == \/ ParentAborts /\ UNCHANGED <<form, op, lines, finished, wire, given>>
        \/ \E c \in Calls : \/ Begin(c) /\ UNCHANGED aborted
                            \/ Offer(c) /\ UNCHANGED <<aborted, reason, result>>
                            \/ Deadline(c) \/ Code(c) \/ Provider(c)
                            \/ Consumed(c) \/ ConsumerThrows(c)

(* Timers fire and promises are settled.  Nothing is asked of the provider *)
(* or of the consumer of the text.                                         *)
FairSpec == /\ Init /\ [][Next]_vars
            /\ \A c \in Calls : WF_vars(Deadline(c)) /\ WF_vars(Code(c))

----------------------------------------------------------------------------
(* The reference: the answers the two protocols allow.  The first n events *)
(* of w are those of an answer of OpenAI before or after its finish        *)
(* reason, of an answer of Ollama before its end, and a complete answer.   *)
Unfinished(w, n) == \A i \in 1..n : w[i] \in {"text", "role", "usage"}
Finished(w, n) == \E f \in 1..n : /\ Unfinished(w, f - 1)
                                  /\ w[f] \in {"finish", "text+finish"}
                                  /\ \A i \in f + 1..n : w[i] = "usage"
Unended(w, n) == \A i \in 1..n : w[i] \in {"text", "empty", "blank"}
LegalAnswer(adapter, w, n) ==
    \/ adapter = "openai" /\ Finished(w, n - 1) /\ w[n] = "[DONE]"
    \/ adapter = "ollama" /\ Unended(w, n - 1) /\ w[n] \in {"done", "text+done"}

(* The places of the first n events of w that have text, in order. *)
AreTextPlaces(places, w, n) ==
    /\ \A i, k \in DOMAIN places : i < k => places[i] < places[k]
    /\ Range(places) = {i \in 1..n : w[i] \in WithText}

(* Properties. *)

(* A streamed call succeeds exactly on a complete answer of its protocol,  *)
(* and has then passed on all of its text in order; truncation, an error   *)
(* or text after the end is never taken for success, and a complete answer *)
(* is never called malformed.                                              *)
AnswersComplete ==
    \A c \in Calls : form[c].mode = "stream" =>
        /\ result[c] = "ok" => \E n \in 1..Len(wire[c]) :
              /\ LegalAnswer(form[c].adapter, wire[c], n)
              /\ AreTextPlaces(given[c], wire[c], n)
        /\ result[c] = "response" =>
              \A n \in 1..Len(wire[c]) : ~LegalAnswer(form[c].adapter, wire[c], n)

(* Once the caller has its answer (the deadline, the cancellation, any     *)
(* error), the operation it left behind passes on no more text, even with  *)
(* events of a chunk still to handle.                                      *)
SilentAfterReturn == [][\A c \in Calls : result[c] # "none" => given'[c] = given[c]]_vars

(* A call ends by its deadline, though the provider never answers and the  *)
(* consumer never takes the text.                                          *)
CallsEnd == \A c \in Calls : (op[c] # "idle") ~> (result[c] # "none")

(* The inductive invariant behind the silence: who has returned has        *)
(* aborted its signal.                                                     *)
SilenceInv ==
    /\ DOMAIN result = Calls /\ DOMAIN reason = Calls /\ DOMAIN given = Calls
    /\ \A c \in Calls : result[c] # "none" => reason[c] # "none"

(* The inductive invariant behind the completeness: an operation under way *)
(* has handled the first n events of an answer under way and passed on the *)
(* texts among them, and among no others; a chat's reply is read whole.    *)
Known(c) ==
    LET n == Len(wire[c]) - Len(lines[c])
    IN  /\ n \in Nat
        /\ \A i \in 1..Len(lines[c]) : lines[c][i] = wire[c][n + i]
        /\ IF form[c].adapter = "ollama" THEN Unended(wire[c], n)
           ELSE IF finished[c] THEN Finished(wire[c], n) ELSE Unfinished(wire[c], n)
        /\ AreTextPlaces(given[c], wire[c], IF op[c] = "delta" THEN n + 1 ELSE n)
        /\ op[c] = "delta" => /\ lines[c] # <<>> /\ Head(lines[c]) \in WithText
                              /\ ~Misplaced(c, Head(lines[c]))
        /\ op[c] \in {"idle", "send", "detail", "read"} => lines[c] = <<>>
        /\ op[c] # "json" /\ result[c] \notin {"ok", "response"}
Whole(c) == op[c] \in {"idle", "send", "detail", "json", "end"} /\ lines[c] = <<>>
AnswerInv ==
    /\ form \in [Calls -> Forms] /\ finished \in [Calls -> BOOLEAN]
    /\ DOMAIN op = Calls /\ DOMAIN lines = Calls /\ DOMAIN result = Calls
    /\ DOMAIN wire = Calls /\ DOMAIN given = Calls
    /\ \A c \in Calls : /\ wire[c] \in Seq(AllEvents(c)) /\ lines[c] \in Seq(AllEvents(c))
                        /\ given[c] \in Seq(Nat)
                        /\ form[c].mode = "stream" /\ op[c] # "end" => Known(c)
                        /\ form[c].mode = "chat" => Whole(c)
    /\ AnswersComplete
=============================================================================
