---------------------------- MODULE StreamParser ----------------------------
(***************************************************************************)
(* readLines and readSseData: a response body, read in chunks that need    *)
(* not end where a character or a line ends, becomes lines (Ollama) or the *)
(* data of server-sent events (OpenAI).  The body is made of bytes of a    *)
(* small alphabet, in which "lead" and "cont" are the halves of one        *)
(* character and "data" stands for the field name with its colon.          *)
(***************************************************************************)
EXTENDS Positions

CONSTANTS MaxFrame, \* MAX_FRAME_SIZE
          MaxBody,  \* bound: the bytes of a body
          MaxChunk  \* bound: the bytes of a chunk

ASSUME ParserAssumption == {MaxFrame, MaxBody, MaxChunk} \subseteq Nat

Bytes == {"data", "sp", "x", "cr", "lf", "lead", "cont"}

VARIABLES mode,    \* "lines": readLines alone; "events": readSseData on top of it
          step,    \* "read", "scan" (a chunk), or the end: ok, connection, response
          body,    \* the bytes read so far
          eof,     \* part.done
          split,   \* the decoder holds the first half of a character
          decoded, \* what is left to scan of the chunk
          pending, \* the unfinished line
          data,    \* the values of the unfinished event
          size,    \* and their size
          out      \* the lines, or the events, yielded

vars == <<mode, step, body, eof, split, decoded, pending, data, size, out>>

(* TextDecoder: which bytes it accepts, and the characters they make. *)
Valid(bytes) == \A i \in 1..Len(bytes) :
    bytes[i] = "cont" <=> i > 1 /\ bytes[i - 1] = "lead"

EndsSplit(bytes) == bytes # <<>> /\ Last(bytes) = "lead"

Text(bytes) == LET kept == Select(bytes, {i \in 1..Len(bytes) : bytes[i] # "lead"})
               IN  [i \in 1..Len(kept) |-> IF kept[i] = "cont" THEN "u" ELSE kept[i]]

(* The bytes to decode: what the decoder holds, and then the chunk. *)
UndecodedForgetful(chunk) == chunk \* mutant: not { stream: true }
Undecoded(chunk) == IF split THEN <<"lead">> \o chunk ELSE chunk

StripCr(line) == IF line # <<>> /\ Last(line) = "cr" THEN Front(line) ELSE line

StripSpace(value) == IF value # <<>> /\ Head(value) = "sp" THEN Tail(value) ELSE value

Overlong(length) == length > MaxFrame

(* What the consumer of a yielded line does with it. *)
Fails(error) == step' = error /\ UNCHANGED <<data, size, out>>

Dispatch == /\ out' = IF data = <<>> THEN out ELSE Append(out, data)
            /\ data' = <<>> /\ size' = 0

IsData(line) == Head(line) = "data"
Value(line) == StripSpace(SubSeq(line, 2, Len(line)))

YieldEvents(line, next) ==
    \/ line = <<>> /\ Dispatch /\ step' = next
    \/ /\ line # <<>> /\ IsData(line)
       /\ LET total == size + Len(Value(line)) + 1
          IN  \/ Overlong(total) /\ Fails("response")
              \/ /\ ~Overlong(total)
                 /\ size' = total /\ data' = Append(data, Value(line))
                 /\ step' = next
                 /\ UNCHANGED out
    \/ line # <<>> /\ ~IsData(line) /\ step' = next /\ UNCHANGED <<data, size, out>>

Yield(line, next) ==
    \/ /\ mode = "lines"
       /\ out' = Append(out, line) /\ step' = next
       /\ UNCHANGED <<data, size>>
    \/ mode = "events" /\ YieldEvents(line, next)

(* A chunk is decoded whole before the first of its lines is yielded. *)
Read(chunk) ==
    /\ step = "read" /\ Len(body) + Len(chunk) <= MaxBody
    /\ LET bytes == Undecoded(chunk)
       IN  \/ ~Valid(bytes) /\ step' = "response" /\ UNCHANGED <<split, decoded>>
           \/ /\ Valid(bytes) /\ step' = "scan"
              /\ split' = EndsSplit(bytes) /\ decoded' = Text(bytes)
    /\ body' = body \o chunk
    /\ UNCHANGED <<mode, eof, pending, data, size, out>>

(* The end of the body: the decoder is flushed. *)
ReadEnd ==
    /\ step = "read"
    /\ eof' = TRUE
    /\ step' = IF split THEN "response" ELSE "scan"
    /\ UNCHANGED <<mode, body, split, decoded, pending, data, size, out>>

(* The connection breaks: reader.read rejects. *)
ReadFails ==
    /\ step = "read"
    /\ step' = "connection"
    /\ UNCHANGED <<mode, body, eof, split, decoded, pending, data, size, out>>

(* The next newline of the chunk ends a line. *)
Line ==
    /\ step = "scan"
    /\ \E end \in 1..Len(decoded) :
          /\ decoded[end] = "lf" /\ \A i \in 1..end - 1 : decoded[i] # "lf"
          /\ LET line == pending \o SubSeq(decoded, 1, end - 1)
             IN  \/ Overlong(Len(line)) /\ Fails("response") /\ UNCHANGED <<pending, decoded>>
                 \/ /\ ~Overlong(Len(line))
                    /\ Yield(StripCr(line), "scan")
                    /\ pending' = <<>>
                    /\ decoded' = SubSeq(decoded, end + 1, Len(decoded))
    /\ UNCHANGED <<mode, body, eof, split>>

(* The chunk has no more newline; at the end of the body what is pending   *)
(* is a last line, while an unfinished event is dropped.                   *)
Rest ==
    /\ step = "scan" /\ \A i \in 1..Len(decoded) : decoded[i] # "lf"
    /\ LET rest == pending \o decoded
       IN  /\ pending' = rest /\ decoded' = <<>>
           /\ \/ Overlong(Len(rest)) /\ Fails("response")
              \/ /\ ~Overlong(Len(rest))
                 /\ \/ ~eof /\ step' = "read" /\ UNCHANGED <<data, size, out>>
                    \/ eof /\ rest = <<>> /\ step' = "ok" /\ UNCHANGED <<data, size, out>>
                    \/ eof /\ rest # <<>> /\ Yield(StripCr(rest), "ok")
    /\ UNCHANGED <<mode, body, eof, split>>

Init == /\ mode \in {"lines", "events"}
        /\ step = "read" /\ eof = FALSE /\ split = FALSE /\ size = 0
        /\ body = <<>> /\ decoded = <<>> /\ pending = <<>> /\ data = <<>> /\ out = <<>>

Chunks == UNION {[1..n -> Bytes] : n \in 0..MaxChunk}

Next == \/ \E chunk \in Chunks : Read(chunk)
        \/ ReadEnd \/ ReadFails \/ Line \/ Rest

Spec == Init /\ [][Next]_vars

----------------------------------------------------------------------------
(* The reference: what a body means, whatever its chunks were. *)

(* The complete lines of a text; the last piece is one at the end, unless  *)
(* it is empty.                                                            *)
Lines(text, ended) ==
    LET frames == Pieces(text, "lf")
        raw    == IF ended /\ Last(frames) # <<>> THEN frames ELSE Front(frames)
    IN  [k \in 1..Len(raw) |-> StripCr(raw[k])]

(* The data of the blocks between blank lines; the last is unfinished. *)
Values(block) == LET lines == Select(block, {k \in 1..Len(block) : IsData(block[k])})
                 IN  [k \in 1..Len(lines) |-> Value(lines[k])]
Blocks(lines) == LET blocks == Pieces(lines, <<>>)
                 IN  [k \in 1..Len(blocks) |-> Values(blocks[k])]

(* Every value counts with the newline after it. *)
BlockSize(values) == Cardinality(UNION {{k} \X (0..Len(values[k])) : k \in 1..Len(values)})

Events(lines) == LET finished == Front(Blocks(lines))
                 IN  Select(finished, {k \in 1..Len(finished) : finished[k] # <<>>})

Meaning == LET lines == Lines(Text(body), eof)
           IN  IF mode = "lines" THEN lines ELSE Events(lines)

Fits(text, ended) ==
    /\ LET frames == Pieces(text, "lf")
       IN  \A k \in 1..Len(frames) : Len(frames[k]) <= MaxFrame
    /\ mode = "events" => LET blocks == Blocks(Lines(text, ended))
                          IN  \A k \in 1..Len(blocks) : BlockSize(blocks[k]) <= MaxFrame

Acceptable == Valid(body) /\ ~(eof /\ EndsSplit(body)) /\ Fits(Text(body), eof)

----------------------------------------------------------------------------
(* Properties. *)

(* However the network cuts a body, it means the same: a body read to its  *)
(* end yields exactly its lines or events, a body is refused only when it  *)
(* is malformed or has a frame over the limit, and what is yielded before  *)
(* is what the unbroken text begins with.                                  *)
ChunkingInvisible ==
    /\ step = "ok" => Acceptable /\ out = Meaning
    /\ step = "response" => ~Acceptable
    /\ step = "read" => Acceptable /\ out = Meaning
    /\ step = "scan" => IsPrefix(out, Meaning)
=============================================================================
