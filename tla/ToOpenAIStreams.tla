--------------------------- MODULE ToOpenAIStreams ---------------------------
(***************************************************************************)
(* The translators that answer an OpenAI client from a stream of another    *)
(* provider: anthropicStreamParser (translator/anthropic_helper.go), used   *)
(* for Anthropic models on GCP and AWS, and the chat-completion translators *)
(* for AWS Bedrock (translator/openai_awsbedrock.go) and for Gemini         *)
(* (translator/openai_gcpvertexai.go); and the two that pass the stream on  *)
(* and only read its usage (translator/openai_openai.go,                    *)
(* translator/anthropic_anthropic.go).                                      *)
(*                                                                          *)
(* As in ToAnthropicStreams, a translator is the record of what outlives    *)
(* one call, and "out" holds the chunks the current call has written.       *)
(***************************************************************************)
EXTENDS StreamClients

send(p, k) == [p EXCEPT !.out = Append(@, k)]

Done == [Chunk EXCEPT !.done = TRUE]

(***************************************************************************)
(* From Anthropic events.                                                   *)
(***************************************************************************)
newAnthropicStreamParser ==
  [activeToolCalls |-> <<>>, toolIndex |-> -1, tokenUsage |-> NoTokenUsage,
   stopReason |-> "", sentFirstChunk |-> FALSE, err |-> FALSE, out |-> <<>>]

\* "" is the error of a reason that is not known.
anthropicToOpenAIFinishReason(reason) ==
  CASE reason \in {"end_turn", "stop_sequence", "pause_turn"} -> "stop"
    [] reason = "max_tokens" -> "length"
    [] reason = "tool_use" -> "tool_calls"
    [] reason = "refusal" -> "content_filter"
    [] OTHER -> ""

\* The role goes with the first chunk that has content, be it empty, or a call.
constructOpenAIChatCompletionChunk(p, delta, contentOrCall) ==
  LET first == contentOrCall /\ ~p.sentFirstChunk
  IN  send([p EXCEPT !.sentFirstChunk = @ \/ first], [delta EXCEPT !.role = first])

\* Cumulative counts: a field that is present replaces the one known before,
\* and the input count is again the sum of the three.
updateInputUsageFromMessageDelta(t, raw) ==
  LET base == IF raw.input # Unset THEN raw.input
              ELSE Or0(t.input) - Or0(t.cached) - Or0(t.creation)
      cached == IF raw.read # Unset THEN raw.read ELSE t.cached
      creation == IF raw.write # Unset THEN raw.write ELSE t.creation
  IN  IF {raw.input, raw.read, raw.write} = {Unset} THEN t
      ELSE [t EXCEPT !.cached = cached, !.creation = creation,
                     !.input = base + Or0(cached) + Or0(creation)]

Without(f, k) == [x \in DOMAIN f \ {k} |-> f[x]]

handleAnthropicStreamEvent(p, e) ==
  LET Send(delta) == constructOpenAIChatCompletionChunk(p, delta, TRUE)
      next == p.toolIndex + 1
  IN
  CASE e.type = "message_start" ->
         LET u == ExtractTokenUsageFromExplicitCaching(e.usage)
         IN  [p EXCEPT !.tokenUsage = [@ EXCEPT !.input = u.input, !.cached = u.cached,
                                                !.creation = u.creation],
                       !.toolIndex = -1]
    [] e.type = "content_block_start" /\ e.kind = "tool" ->
         [constructOpenAIChatCompletionChunk(
            p, [Chunk EXCEPT !.tools = <<ToolCall(next, e.id, <<>>)>>], TRUE)
          EXCEPT !.toolIndex = next,
                 !.activeToolCalls = next :> ToolCall(next, e.id, <<>>) @@ @]
    [] e.type = "content_block_start" /\ e.kind = "thinking" -> Send(Chunk)
    [] e.type = "content_block_delta" /\ e.kind = "text" ->
         Send([Chunk EXCEPT !.content = <<e.part>>])
    \* The text of a thinking_delta is in a field of its own, which is not read.
    [] e.type = "content_block_delta" /\ e.kind = "thinking" /\ e.part > 0 -> Send(Chunk)
    [] e.type = "content_block_delta" /\ e.kind = "tool" ->
         IF p.toolIndex \notin DOMAIN p.activeToolCalls THEN [p EXCEPT !.err = TRUE]
         ELSE [Send([Chunk EXCEPT !.tools = <<ToolCall(p.toolIndex, NoId, <<e.part>>)>>])
               EXCEPT !.activeToolCalls[p.toolIndex].args = Append(@, e.part)]
    [] e.type = "content_block_stop" ->
         [p EXCEPT !.activeToolCalls = Without(@, p.toolIndex)]
    [] e.type = "message_delta" ->
         LET t == updateInputUsageFromMessageDelta(p.tokenUsage, e.usage)
         IN  [p EXCEPT !.tokenUsage =
                         IF e.usage.output = Unset THEN t ELSE [t EXCEPT !.output = e.usage.output],
                       !.stopReason = IF e.stop = "" THEN @ ELSE e.stop]
    [] e.type = "message_stop" ->
         LET reason == anthropicToOpenAIFinishReason(
                         IF p.stopReason = "" THEN "end_turn" ELSE p.stopReason)
         IN  IF reason = "" THEN [p EXCEPT !.err = TRUE]
             ELSE constructOpenAIChatCompletionChunk(p, [Chunk EXCEPT !.finish = reason], FALSE)
    [] e.type = "error" -> [p EXCEPT !.err = TRUE]
    [] e.type = "ping" -> constructOpenAIChatCompletionChunk(p, Chunk, FALSE)
    [] OTHER -> p

\* The last chunk: the usage, and any call that has not ended once more.
FinalChunk(p) ==
  LET in == Or0(p.tokenUsage.input)
      out == Or0(p.tokenUsage.output)
      calls == SetToSeq({p.activeToolCalls[i] : i \in DOMAIN p.activeToolCalls})
      u == [input |-> in, output |-> out, total |-> in + out,
            cached |-> Or0(p.tokenUsage.cached), creation |-> Or0(p.tokenUsage.creation)]
      metered == [p EXCEPT !.tokenUsage.total = in + out]
  IN  send(IF in > 0 \/ out > 0 \/ calls # <<>>
           THEN send(metered, [Chunk EXCEPT !.usage = u, !.tools = calls])
           ELSE metered, Done)

Process(p, events, endOfStream) ==
  LET Handle(q, e) == IF q.err THEN q ELSE handleAnthropicStreamEvent(q, e)
      handled == FoldLeft(Handle, p, events)
  IN  IF endOfStream /\ ~handled.err THEN FinalChunk(handled) ELSE handled

(***************************************************************************)
(* From the events of a Bedrock ConverseStream.                             *)
(***************************************************************************)
openAIToAWSBedrockTranslator ==
  [toolIndex |-> 0, activeToolStream |-> FALSE, tokenUsage |-> NoTokenUsage,
   out |-> <<>>]

bedrockStopReasonToOpenAIStopReason(reason) ==
  CASE reason = "max_tokens" -> "length"
    [] reason = "tool_use" -> "tool_calls"
    [] reason = "content_filtered" -> "content_filter"
    [] OTHER -> "stop"

Says == [Chunk EXCEPT !.role = TRUE]

convertEvent(o, e) ==
  CASE e.type = "metadata" ->
         LET u == ExtractTokenUsageFromExplicitCaching(e.usage)
         IN  send([o EXCEPT !.tokenUsage = u],
                  [Chunk EXCEPT !.usage = u])
    [] e.type = "messageStart" -> send(o, Says)
    [] e.type = "contentBlockStart" /\ e.kind = "tool" ->
         send([o EXCEPT !.activeToolStream = TRUE],
              [Says EXCEPT !.tools = <<ToolCall(o.toolIndex, e.id, <<>>)>>])
    [] e.type = "contentBlockDelta" /\ e.kind = "text" ->
         send(o, [Says EXCEPT !.content = <<e.part>>])
    [] e.type = "contentBlockDelta" /\ e.kind = "thinking" ->
         send(o, [Says EXCEPT !.reasoning = <<e.part>>])
    [] e.type = "contentBlockDelta" /\ e.kind = "tool" ->
         send(o, [Says EXCEPT !.tools = <<ToolCall(o.toolIndex, NoId, <<e.part>>)>>])
    [] e.type = "contentBlockStop" /\ o.activeToolStream ->
         [o EXCEPT !.toolIndex = @ + 1, !.activeToolStream = FALSE]
    [] e.type = "messageStop" ->
         send(o, [Says EXCEPT !.finish = bedrockStopReasonToOpenAIStopReason(e.stop)])
    [] OTHER -> o

ConverseResponseBody(o, events, endOfStream) ==
  LET converted == FoldLeft(convertEvent, [o EXCEPT !.tokenUsage = NoTokenUsage], events)
  IN  IF endOfStream THEN send(converted, Done) ELSE converted

(***************************************************************************)
(* From Gemini chunks: parts of text, thought or whole function calls.      *)
(***************************************************************************)
openAIToGCPVertexAITranslator ==
  [toolCallIndex |-> 0, streamedToolCall |-> FALSE, tokenUsage |-> NoTokenUsage,
   out |-> <<>>]

geminiFinishReasonToOpenAI(reason, calls) ==
  CASE reason = "" -> ""
    [] reason = "MAX_TOKENS" -> "length"
    [] reason = "SAFETY" -> "content_filter"
    [] reason = "OTHER" -> "error"
    [] reason = "STOP" -> IF calls # <<>> THEN "tool_calls" ELSE "stop"

\* A bug's form of the next definition: the calls of earlier chunks forgotten.
finishOfThisChunk(o, e, calls) == geminiFinishReasonToOpenAI(e.finish, calls)

finishReason(o, e, calls) ==
  LET reason == geminiFinishReasonToOpenAI(e.finish, calls)
  IN  IF reason = "stop" /\ o.streamedToolCall THEN "tool_calls" ELSE reason

\* The id of a call is made up here; it stands for the call's position.
geminiChunkToOpenAI(o, e) ==
  LET calls == [i \in 1..Len(e.calls) |->
                  ToolCall(o.toolCallIndex + i - 1, o.toolCallIndex + i, <<e.calls[i]>>)]
      o1 == [o EXCEPT !.toolCallIndex = @ + Len(calls),
                      !.streamedToolCall = @ \/ calls # <<>>]
      said == send(o1, [Says EXCEPT !.content = e.text, !.reasoning = e.thought,
                                    !.tools = calls, !.finish = finishReason(o1, e, calls)])
  IN  IF e.usage.input = Unset \/ e.usage.input = 0 THEN said
      ELSE send([said EXCEPT !.tokenUsage = e.usage], [Chunk EXCEPT !.usage = e.usage])

handleStreamingResponse(o, chunks, endOfStream) ==
  LET handled == FoldLeft(geminiChunkToOpenAI, [o EXCEPT !.tokenUsage = NoTokenUsage], chunks)
  IN  IF endOfStream THEN send(handled, Done) ELSE handled

(***************************************************************************)
(* Streams passed on as they are: only their usage is read.                 *)
(***************************************************************************)
PassedOn == [tokenUsage |-> NoTokenUsage, out |-> <<>>]

OpenAIUsage(o, chunks) ==
  LET Metered(t, k) == IF k.usage = NoTokenUsage THEN t ELSE [t EXCEPT !.tokenUsage = k.usage]
  IN  FoldLeft(Metered, [o EXCEPT !.tokenUsage = NoTokenUsage], chunks)

\* The usage fields are not pointers: one that is absent is 0.
AbsentIsZero(raw) ==
  [input |-> Or0(raw.input), read |-> Or0(raw.read), write |-> Or0(raw.write),
   output |-> Or0(raw.output)]

\* A bug's form of the next definition: every field of the delta is taken.
reflectWholeDelta(t, e) ==
  Override(t, ExtractTokenUsageFromExplicitCaching(AbsentIsZero(e.usage)))

\* So a field of a delta counts when it is not 0, the output count always.
reflectStreamingEvent(t, e) ==
  LET raw == AbsentIsZero(e.usage)
      NotZero(new, known) == IF new > 0 THEN new ELSE known
      latest == [input |-> NotZero(raw.input, Or0(t.input) - Or0(t.cached) - Or0(t.creation)),
                 read |-> NotZero(raw.read, Or0(t.cached)),
                 write |-> NotZero(raw.write, Or0(t.creation))]
      metered == [t EXCEPT !.output = raw.output]
  IN  IF e.type = "message_start"
      THEN Override(t, ExtractTokenUsageFromExplicitCaching(raw))
      ELSE IF raw.input + raw.read + raw.write = 0 THEN metered
      ELSE [metered EXCEPT !.cached = latest.read, !.creation = latest.write,
                           !.input = latest.input + latest.read + latest.write]

updateTotalTokens(t) ==
  IF t.output = Unset THEN t
  ELSE [t EXCEPT !.input = Or0(@), !.cached = Or0(@), !.creation = Or0(@),
                 !.total = Or0(t.input) + t.output]

AnthropicUsage(a, events) ==
  LET metered == SelectSeq(events, LAMBDA e : e.type \in {"message_start", "message_delta"})
  IN  [a EXCEPT !.tokenUsage = updateTotalTokens(
         FoldLeft(reflectStreamingEvent, a.tokenUsage, metered))]

=============================================================================
