-------------------------- MODULE ToAnthropicStreams --------------------------
(***************************************************************************)
(* The translators that answer an Anthropic client from a stream of another *)
(* provider: openAIStreamToAnthropicState (translator/openai_helper.go) and *)
(* anthropicToAWSBedrockTranslator (translator/anthropic_awsbedrock.go).    *)
(*                                                                          *)
(* A translator is a record, the fields of the Go struct that outlive one   *)
(* call; "out" collects the events the current call has written.  A call    *)
(* gets the events that were complete in the bytes read so far: what is     *)
(* left in the buffer is in the events of a later call.                     *)
(***************************************************************************)
EXTENDS StreamClients

emit(s, e) == [s EXCEPT !.out = Append(@, e)]

BlockStart(index, kind, id) ==
  [type |-> "content_block_start", index |-> index, kind |-> kind, id |-> id]

BlockDelta(index, kind, d) ==
  [type |-> "content_block_delta", index |-> index, kind |-> kind, part |-> d]

BlockStop(index) == [type |-> "content_block_stop", index |-> index]

MessageDelta(stop, input, output) ==
  [type |-> "message_delta", stop |-> stop, input |-> input, output |-> output]

MessageStop == [type |-> "message_stop"]

(***************************************************************************)
(* From OpenAI chunks.                                                      *)
(***************************************************************************)
openAIStreamToAnthropicState ==
  [messageStarted |-> FALSE, hasOpenBlock |-> FALSE, hasThinkingBlock |-> FALSE,
   closingEmitted |-> FALSE, stopReason |-> "", inputTokens |-> 0,
   outputTokens |-> 0, tokenUsage |-> NoTokenUsage, blockIndex |-> 0,
   activeTools |-> <<>>, out |-> <<>>]

openAIFinishReasonToAnthropic(reason) ==
  CASE reason = "length" -> "max_tokens"
    [] reason = "tool_calls" -> "tool_use"
    [] reason = "content_filter" -> "refusal"
    [] OTHER -> "end_turn"

emitMessageStart(s) ==
  emit([s EXCEPT !.messageStarted = TRUE], [type |-> "message_start", input |-> 0])

emitTextBlockStart(s) ==
  emit([s EXCEPT !.hasOpenBlock = TRUE], BlockStart(s.blockIndex, "text", NoId))

emitThinkingBlockStart(s) ==
  emit([s EXCEPT !.hasOpenBlock = TRUE, !.hasThinkingBlock = TRUE],
       BlockStart(s.blockIndex, "thinking", NoId))

emitContentBlockStop(s) == emit(s, BlockStop(s.blockIndex))

closeThinkingBlock(s) ==
  [emitContentBlockStop(s) EXCEPT
     !.hasOpenBlock = FALSE, !.hasThinkingBlock = FALSE, !.blockIndex = @ + 1]

\* A thinking text or signature: whatever other block is open ends first.
handleReasoningDelta(s, d) ==
  LET closed == IF ~s.hasThinkingBlock /\ s.hasOpenBlock
                THEN [emitContentBlockStop(s) EXCEPT
                        !.hasOpenBlock = FALSE, !.blockIndex = @ + 1]
                ELSE s
      opened == IF closed.hasThinkingBlock THEN closed
                ELSE emitThinkingBlockStart(closed)
  IN  emit(opened, BlockDelta(opened.blockIndex, "thinking", d))

handleTextDelta(s, d) ==
  LET closed == IF s.hasThinkingBlock THEN closeThinkingBlock(s) ELSE s
      opened == IF closed.hasOpenBlock THEN closed ELSE emitTextBlockStart(closed)
  IN  emit(opened, BlockDelta(opened.blockIndex, "text", d))

\* A bug's form of the next definition, with the thinking block left open.
handleToolCallDeltaAfterThinking(s, tc) ==
  LET opened == emit([s EXCEPT !.activeTools = tc.index :> s.blockIndex @@ @,
                               !.hasOpenBlock = TRUE],
                     BlockStart(s.blockIndex, "tool", tc.id))
      s1 == IF tc.index \in DOMAIN s.activeTools THEN s ELSE opened
  IN  FoldLeft(LAMBDA t, d : emit(t, BlockDelta(t.activeTools[tc.index], "tool", d)),
               s1, tc.args)

handleToolCallDelta(s, tc) ==
  LET closed == IF s.hasOpenBlock
                THEN [emitContentBlockStop(s) EXCEPT
                        !.hasThinkingBlock = FALSE, !.blockIndex = @ + 1]
                ELSE s
      opened == emit([closed EXCEPT !.activeTools = tc.index :> closed.blockIndex @@ @,
                                    !.hasOpenBlock = TRUE],
                     BlockStart(closed.blockIndex, "tool", tc.id))
      s1 == IF tc.index \in DOMAIN s.activeTools THEN s ELSE opened
  IN  FoldLeft(LAMBDA t, d : emit(t, BlockDelta(t.activeTools[tc.index], "tool", d)),
               s1, tc.args)

emitClosingEvents(s) ==
  LET stopped == IF s.hasOpenBlock
                 THEN [emitContentBlockStop(s) EXCEPT !.hasOpenBlock = FALSE]
                 ELSE s
      reason == IF s.stopReason = "" THEN "end_turn" ELSE s.stopReason
  IN  IF s.closingEmitted THEN s
      ELSE emit(emit([stopped EXCEPT !.closingEmitted = TRUE],
                     MessageDelta(reason, s.inputTokens, s.outputTokens)),
                MessageStop)

\* A chunk without choices that carries usage ends the message; any other adds
\* its reasoning, then its text, then its tool calls.
handleChunk(s, chunk) ==
  LET metered == [s EXCEPT
                    !.inputTokens = chunk.usage.input,
                    !.outputTokens = chunk.usage.output,
                    !.tokenUsage = ExtractTokenUsageFromExplicitCaching(
                      [input |-> chunk.usage.input, output |-> chunk.usage.output,
                       read |-> 0, write |-> 0])]
      started == IF s.messageStarted THEN s ELSE emitMessageStart(s)
      reasoned == FoldLeft(handleReasoningDelta, started, chunk.reasoning)
      texted == FoldLeft(handleTextDelta, reasoned, chunk.content)
      called == FoldLeft(handleToolCallDelta, texted, chunk.tools)
  IN  CASE chunk.done -> s
        [] ~chunk.done /\ chunk.usage # NoTokenUsage -> emitClosingEvents(metered)
        [] OTHER -> [called EXCEPT !.stopReason =
                       IF chunk.finish = "" THEN @
                       ELSE openAIFinishReasonToAnthropic(chunk.finish)]

processBuffer(s, chunks, endOfStream) ==
  LET handled == FoldLeft(handleChunk, s, chunks)
  IN  IF endOfStream THEN emitClosingEvents(handled) ELSE handled

(***************************************************************************)
(* From the events of a Bedrock ConverseStream.                             *)
(***************************************************************************)
anthropicToAWSBedrockTranslator ==
  [pendingBlockStart |-> FALSE, pendingBlockStartIdx |-> 0,
   streamingUsage |-> <<>>, tokenUsage |-> NoTokenUsage, out |-> <<>>]

bedrockStopReasonToAnthropicStopReason(reason) ==
  CASE reason = "max_tokens" -> "max_tokens"
    [] reason = "tool_use" -> "tool_use"
    [] OTHER -> "end_turn"

flushPendingBlockStart(s, kind) ==
  IF ~s.pendingBlockStart THEN s
  ELSE emit([s EXCEPT !.pendingBlockStart = FALSE],
            BlockStart(s.pendingBlockStartIdx, kind, NoId))

\* The count the metadata event gave, 0 when none has been read yet.
Counted(s, f) == IF s.streamingUsage = <<>> THEN 0 ELSE s.streamingUsage[1][f]

convertEventToAnthropicSSE(s, e) ==
  CASE e.type = "messageStart" ->
         emit(s, [type |-> "message_start", input |-> Counted(s, "input")])
    [] e.type = "contentBlockStart" /\ e.kind = "tool" ->
         emit(s, BlockStart(e.index, "tool", e.id))
    [] e.type = "contentBlockStart" /\ e.kind # "tool" ->
         [s EXCEPT !.pendingBlockStart = TRUE, !.pendingBlockStartIdx = e.index]
    [] e.type = "contentBlockDelta" /\ e.kind = "tool" ->
         emit(s, BlockDelta(e.index, "tool", e.part))
    [] e.type = "contentBlockDelta" /\ e.kind # "tool" ->
         emit(flushPendingBlockStart(s, e.kind), BlockDelta(e.index, e.kind, e.part))
    [] e.type = "contentBlockStop" -> emit(s, BlockStop(e.index))
    [] e.type = "messageStop" ->
         emit(emit(s, MessageDelta(bedrockStopReasonToAnthropicStopReason(e.stop),
                                   Unset, Counted(s, "output"))),
              MessageStop)
    [] OTHER -> [s EXCEPT !.streamingUsage = <<e.usage>>]

\* One call: the usage of a metadata event among the events read is taken
\* first, so that a messageStop read with it can report it.
BedrockResponseBody(s, events) ==
  LET Metered(t, e) ==
        IF e.type = "metadata"
        THEN [t EXCEPT !.streamingUsage = <<e.usage>>,
                       !.tokenUsage = ExtractTokenUsageFromExplicitCaching(e.usage)]
        ELSE t
      scanned == FoldLeft(Metered, [s EXCEPT !.tokenUsage = NoTokenUsage], events)
  IN  FoldLeft(convertEventToAnthropicSSE, scanned, events)

=============================================================================
