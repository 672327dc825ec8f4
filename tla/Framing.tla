------------------------------- MODULE Framing -------------------------------
(***************************************************************************)
(* How the gateway cuts the bytes of an event stream into events, when the  *)
(* bytes arrive in pieces that end anywhere.  Four readers do it:           *)
(*   "mcp"     sseEventParser of the MCP proxy (mcpproxy/sse.go);           *)
(*   "blocks"  processBuffer (translator/openai_helper.go), which cuts at   *)
(*             blank lines; Process (translator/anthropic_helper.go) has    *)
(*             the same loop;                                               *)
(*   "lines"   extractUsageFromBufferEvent of the streams that are passed   *)
(*             on (translator/openai_openai.go);                            *)
(*   "gemini"  parseGCPStreamingChunks (translator/openai_gcpvertexai.go).  *)
(*                                                                          *)
(* A byte that matters to framing is one element of a sequence: "CR", "LF", *)
(* "SP", the two halves of the field name "data:", the field name "id:",    *)
(* the braces of a JSON object; others are content.                         *)
(***************************************************************************)
EXTENDS Integers, Sequences, SequencesExt

CONSTANT Inputs    \* records [reader, text]: who reads what

VARIABLES
  stream,  \* the one read here
  pos,     \* bytes that have arrived
  buf,     \* bytes the reader has kept
  delim,   \* the delimiter the Gemini reader has detected, <<>> before
  got,     \* the events it has handed on
  eof,     \* whether it has seen the end
  torn     \* whether a piece has ended where the reader loses its place

vars == <<stream, pos, buf, delim, got, eof, torn>>

Space == {"CR", "LF", "SP"}

TrimSpace(s) ==
  LET solid == {i \in DOMAIN s : s[i] \notin Space}
  IN  IF solid = {} THEN <<>>
      ELSE SubSeq(s, Min(solid), Max(solid))

\* The parts of s between occurrences of d, and what follows the last one.
Split(s, d) ==
  LET ends[i \in 0..Len(s)] ==
        LET here == {j \in i + Len(d)..Len(s) : SubSeq(s, j - Len(d) + 1, j) = d}
        IN  IF here = {} THEN <<>> ELSE <<Min(here)>> \o ends[Min(here)]
      cut == <<0>> \o ends[0]
  IN  [parts |-> [k \in 1..Len(cut) - 1 |->
                    SubSeq(s, cut[k] + 1, cut[k + 1] - Len(d))],
       rest |-> SubSeq(s, cut[Len(cut)] + 1, Len(s))]

SplitSeq(s, d) == LET t == Split(s, d) IN Append(t.parts, t.rest)

IsJSON(s) ==
  /\ Len(s) > 1 /\ s[1] = "{" /\ s[Len(s)] = "}"
  /\ \A i \in 2..Len(s) - 1 : s[i] \notin {"{", "}"}

DataPrefix == <<"da", "ta:">>

cutSSEDataPrefix(line) ==
  LET after == SubSeq(line, 3, Len(line))
  IN  IF ~IsPrefix(DataPrefix, line) THEN <<FALSE, line>>
      ELSE <<TRUE, IF after # <<>> /\ after[1] = "SP" THEN Tail(after) ELSE after>>

\* A bug's form of the next definition: a lone CR is taken for content.
normalizeOnlyCRLF(b) ==
  FlattenSeq([i \in 1..Len(b) |->
    IF b[i] = "CR" /\ i < Len(b) /\ b[i + 1] = "LF" THEN <<>> ELSE <<b[i]>>])

normalizeNewlines(b) ==
  FlattenSeq([i \in 1..Len(b) |->
    IF b[i] # "CR" THEN <<b[i]>>
    ELSE IF i < Len(b) /\ b[i + 1] = "LF" THEN <<>> ELSE <<"LF">>])

\* One event: the id and the data of its lines.
Event(id, data) == [id |-> id, data |-> data]

parseEvent(chunk) ==
  LET lines == SplitSeq(chunk, <<"LF">>)
      ids == SelectSeq(lines, LAMBDA l : IsPrefix(<<"id:">>, l))
      data == SelectSeq(lines, LAMBDA l : IsPrefix(DataPrefix, l))
      value == [i \in 1..Len(data) |-> TrimSpace(SubSeq(data[i], 3, Len(data[i])))]
  IN  Event(IF ids = <<>> THEN <<>> ELSE TrimSpace(Tail(ids[Len(ids)])),
            SelectSeq(value, LAMBDA v : v # <<>>))

\* What each reader makes of the bytes it has: events, and what it keeps.
Mcp(kept, bytes, last) ==
  LET t == Split(kept \o normalizeNewlines(bytes), <<"LF", "LF">>)
      left == IF last /\ t.rest # <<>> THEN <<t.rest>> ELSE <<>>
      chunks == t.parts \o left
  IN  [events |-> [i \in 1..Len(chunks) |-> parseEvent(chunks[i])],
       buf |-> IF last THEN <<>> ELSE t.rest, delim |-> <<>>]

Final(seq) == IF seq = <<>> THEN <<>> ELSE seq[Len(seq)]

\* Only the last data line of a block counts, and a block without one is skipped.
Blocks(kept, bytes, last) ==
  LET t == Split(kept \o bytes, <<"LF", "LF">>)
      chunks == IF last /\ t.rest # <<>> THEN Append(t.parts, t.rest) ELSE t.parts
      data == [i \in 1..Len(chunks) |-> Final(parseEvent(chunks[i]).data)]
      json == SelectSeq(data, IsJSON)
  IN  [events |-> [i \in 1..Len(json) |-> Event(<<>>, <<json[i]>>)],
       buf |-> IF last THEN <<>> ELSE t.rest, delim |-> <<>>]

\* What follows the last line break is never read.
Lines(kept, bytes) ==
  LET t == Split(kept \o bytes, <<"LF">>)
      data == SelectSeq(t.parts, LAMBDA l :
                cutSSEDataPrefix(l)[1] /\ IsJSON(TrimSpace(cutSSEDataPrefix(l)[2])))
  IN  [events |-> [i \in 1..Len(data) |->
                     Event(<<>>, <<TrimSpace(cutSSEDataPrefix(data[i])[2])>>)],
       buf |-> t.rest, delim |-> <<>>]

Delimiters == <<<<"CR", "LF", "CR", "LF">>, <<"LF", "LF">>, <<"CR", "CR">>>>

Occurs(s, d) == \E i \in 0..Len(s) - Len(d) : SubSeq(s, i + 1, i + Len(d)) = d

detectSSEDelimiter(data) ==
  LET found == SelectSeq(Delimiters, LAMBDA d : Occurs(data, d))
  IN  IF found = <<>> THEN <<>> ELSE found[1]

\* Every part is trimmed; one that is JSON is an event and clears the buffer,
\* one that is not becomes the buffer.
Gemini(kept, d, bytes) ==
  LET all == kept \o bytes
      known == IF d # <<>> THEN d ELSE detectSSEDelimiter(all)
      parts == IF known = <<>> THEN <<all>> ELSE SplitSeq(all, known)
      solid == SelectSeq([i \in 1..Len(parts) |-> TrimSpace(parts[i])],
                         LAMBDA p : p # <<>>)
      lines == [i \in 1..Len(solid) |-> cutSSEDataPrefix(solid[i])[2]]
      json == SelectSeq(lines, IsJSON)
  IN  [events |-> [i \in 1..Len(json) |-> Event(<<>>, <<json[i]>>)],
       buf |-> IF lines = <<>> THEN kept
               ELSE IF IsJSON(lines[Len(lines)]) THEN <<>> ELSE lines[Len(lines)],
       delim |-> IF all = <<>> THEN d ELSE known]

Parse(bytes, last) ==
  CASE stream.reader = "mcp" -> Mcp(buf, bytes, last)
    [] stream.reader = "blocks" -> Blocks(buf, bytes, last)
    [] stream.reader = "lines" -> Lines(buf, bytes)
    [] OTHER -> Gemini(buf, delim, bytes)

Init ==
  /\ stream \in Inputs
  /\ pos = 0 /\ buf = <<>> /\ delim = <<>> /\ got = <<>> /\ eof = FALSE
  /\ torn = FALSE

Handled(bytes, last) ==
  LET r == Parse(bytes, last)
  IN  /\ got' = got \o r.events
      /\ buf' = r.buf
      /\ delim' = r.delim

\* Line ends are made equal piece by piece, so a CR and an LF that arrive in two
\* are two line ends to the MCP proxy; what the Gemini reader keeps is trimmed, so
\* a space in a value is lost if it comes last in a piece.
Tears(p) ==
  \/ stream.reader = "mcp" /\ p < Len(stream.text) /\ SubSeq(stream.text, p, p + 1) = <<"CR", "LF">>
  \/ stream.reader = "gemini" /\ stream.text[p] = "SP" /\ stream.text[p - 1] # "ta:"

\* A piece of any length arrives.
Read(n) ==
  /\ ~eof /\ pos + n <= Len(stream.text)
  /\ Handled(SubSeq(stream.text, pos + 1, pos + n), FALSE)
  /\ pos' = pos + n
  /\ torn' = (torn \/ Tears(pos + n))
  /\ UNCHANGED <<stream, eof>>

\* The stream ends; the last piece is empty.
Finish ==
  /\ ~eof /\ pos = Len(stream.text)
  /\ Handled(<<>>, TRUE)
  /\ eof' = TRUE
  /\ UNCHANGED <<stream, pos, torn>>

Next == Finish \/ \E n \in 1..Len(stream.text) : Read(n)

Spec == Init /\ [][Next]_vars

(***************************************************************************)
(* Properties.                                                              *)
(***************************************************************************)

\* The events of the bytes as the event-stream format has them, read at once.
Whole(bytes) ==
  LET t == Split(normalizeNewlines(bytes), <<"LF", "LF">>)
      blank == SelectSeq(t.parts, LAMBDA c : TrimSpace(c) # <<>>)
      Seen(e) == IF stream.reader = "mcp" THEN e ELSE [e EXCEPT !.id = <<>>]
  IN  [i \in 1..Len(blank) |-> Seen(parseEvent(blank[i]))]

IsWhole ==
  /\ IsPrefix(got, Whole(stream.text))
  /\ IsPrefix(Whole(SubSeq(stream.text, 1, pos)), got)
  /\ eof => got = Whole(stream.text)

\* A reader hands on exactly the events of the stream: none is split in two or
\* joined with the next, none loses its id or a byte of its data, and none waits for
\* bytes of the next one once the blank line after it has arrived (next and
\* extractEvent in sse.go, processBuffer, extractUsageFromBufferEvent,
\* parseGCPStreamingChunks).  This is so wherever the pieces end, with two
\* exceptions: between the CR and the LF of a line end for the MCP proxy (see
\* LineEndsAreHandled) and behind a space of a value for Gemini.  And it is so for
\* the line ends that a reader knows: any for the MCP proxy and Gemini, LF for the
\* blocks of processBuffer, LF and CRLF for the lines of extractUsageFromBufferEvent.
Knows ==
  CASE stream.reader = "blocks" -> "CR" \notin Range(stream.text)
    [] stream.reader = "lines" -> "LF" \in Range(stream.text)
    [] OTHER -> TRUE

EventsAreWhole == Knows /\ ~torn => IsWhole

\* "parses the SSE Events gracefully handling the different line terminations: CR,
\* LF, CRLF" (sse.go:38): so the MCP proxy does wherever the pieces end.
LineEndsAreHandled == stream.reader = "mcp" => IsWhole

=============================================================================
