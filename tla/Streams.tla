------------------------------- MODULE Streams -------------------------------
(***************************************************************************)
(* One streaming response, from the provider through the gateway's external *)
(* processor to the client.  The provider says a message in its own         *)
(* protocol; Envoy hands the bytes over in pieces cut anywhere, one call of *)
(* ProcessResponseBody (extproc/processor_impl.go) for each; the call has   *)
(* the translator convert the events that have become complete, passes what *)
(* it wrote on to the client and overrides the costs of the request with    *)
(* the token usage it returned.                                             *)
(***************************************************************************)
EXTENDS ToAnthropicStreams, ToOpenAIStreams

CONSTANTS
  Paths,          \* the pairs of client and provider protocol
  MaxBlocks,      \* blocks of a message, per path
  MaxParts,       \* parts of a message, per path
  StartUsages,    \* the counts an Anthropic message_start may report
  StopUsages,     \* the counts the end of a message may report
  LateUsages,     \* the counts a second message_delta may report, per path
  Announces       \* may Bedrock send contentBlockStart for text blocks, or not

VARIABLES
  path,    \* the protocols of this response
  up,      \* what the provider has said so far
  wire,    \* the events said but not handed to the processor
  st,      \* the translator
  reader,  \* what the client has understood
  costs,   \* the token usage the processor charges and reports
  open     \* whether the response is still going on

vars == <<path, up, wire, st, reader, costs, open>>

NoCounts == [input |-> Unset, read |-> Unset, write |-> Unset, output |-> Unset]

Translator(p) ==
  CASE p = <<"anthropic", "openai">> -> openAIStreamToAnthropicState
    [] p = <<"anthropic", "bedrock">> -> anthropicToAWSBedrockTranslator
    [] p = <<"openai", "anthropic">> -> newAnthropicStreamParser
    [] p = <<"openai", "bedrock">> -> openAIToAWSBedrockTranslator
    [] p = <<"openai", "gemini">> -> openAIToGCPVertexAITranslator
    [] OTHER -> PassedOn

ResponseBody(p, s, events, endOfStream) ==
  CASE p = <<"anthropic", "openai">> -> processBuffer(s, events, endOfStream)
    [] p = <<"anthropic", "bedrock">> -> BedrockResponseBody(s, events)
    [] p = <<"openai", "anthropic">> -> Process(s, events, endOfStream)
    [] p = <<"openai", "bedrock">> -> ConverseResponseBody(s, events, endOfStream)
    [] p = <<"openai", "gemini">> -> handleStreamingResponse(s, events, endOfStream)
    [] p = <<"openai", "openai">> -> OpenAIUsage(s, events)
    [] OTHER -> AnthropicUsage(s, events)

Client(p) == IF p[1] = "anthropic" THEN AnthropicReader ELSE OpenAIReader

Reads(p, c, events) ==
  IF p[1] = "anthropic" THEN FoldLeft(AnthropicReads, c, events)
  ELSE FoldLeft(OpenAIReads, c, events)

Failed(p, s) == p = <<"openai", "anthropic">> /\ s.err

Init ==
  /\ path \in Paths
  /\ up = [phase |-> "new", blocks |-> <<>>, stop |-> "", usage |-> NoCounts,
           said |-> 0, pinged |-> FALSE, announces |-> TRUE]
  /\ wire = <<>>
  /\ st = Translator(path)
  /\ reader = Client(path)
  /\ costs = NoTokenUsage
  /\ open = TRUE

(***************************************************************************)
(* The provider.                                                            *)
(***************************************************************************)
Back == path[2]

Emit(events) ==
  /\ open
  /\ wire' = wire \o events
  /\ UNCHANGED <<path, st, reader, costs, open>>

GeminiChunk == [text |-> <<>>, thought |-> <<>>, calls |-> <<>>, finish |-> "",
                usage |-> NoTokenUsage]

Latest(raw) ==
  [input |-> IfSet(raw.input, up.usage.input), read |-> IfSet(raw.read, up.usage.read),
   write |-> IfSet(raw.write, up.usage.write), output |-> IfSet(raw.output, up.usage.output)]

Counts(raw) ==
  [input |-> raw.input, cached |-> raw.read, output |-> raw.output,
   creation |-> IF Back = "gemini" THEN Unset ELSE raw.write,
   total |-> raw.input + raw.output]

\* Bedrock announces the blocks of text and thinking in one stream and not in
\* another; those of tool calls always.
Begin ==
  /\ up.phase = "new"
  /\ \E raw \in StartUsages, announces \in IF Back = "bedrock" THEN Announces ELSE {TRUE} :
       /\ up' = [up EXCEPT !.phase = "idle", !.announces = announces,
                           !.usage = IF Back = "anthropic" THEN raw ELSE @]
       /\ Emit(CASE Back = "anthropic" -> <<[type |-> "message_start", usage |-> raw]>>
                 [] Back = "bedrock" -> <<[type |-> "messageStart"]>>
                 [] Back = "openai" -> <<Says>>
                 [] Back = "gemini" -> <<>>)

Calls == Len(Of(up.blocks, "tool"))

\* Of a provider that does not mark where a block ends, two of a kind in a row
\* are one.
MayFollow(kind) ==
  Back \in {"openai", "gemini"} /\ up.blocks # <<>> =>
    kind = "tool" \/ kind # up.blocks[Len(up.blocks)].kind

OpenBlock(kind) ==
  /\ up.phase = "idle" /\ Len(up.blocks) < MaxBlocks[path] /\ up.said < MaxParts[path]
  /\ MayFollow(kind) /\ ~(Back = "gemini" /\ kind = "tool")
  /\ LET id == IF kind = "tool" THEN Calls + 1 ELSE NoId
         index == Len(up.blocks)
     IN  /\ up' = [up EXCEPT !.phase = "block", !.blocks = Append(@, Block(kind, id))]
         /\ Emit(CASE Back = "anthropic" -> <<BlockStart(index, kind, id)>>
                   [] Back = "bedrock" ->
                        IF kind = "tool" \/ up.announces
                        THEN <<[type |-> "contentBlockStart", index |-> index,
                                kind |-> kind, id |-> id]>>
                        ELSE <<>>
                   [] Back = "openai" /\ kind = "tool" ->
                        <<[Says EXCEPT !.tools = <<ToolCall(Calls, id, <<>>)>>]>>
                   [] OTHER -> <<>>)

\* A part of the block, or a signature on a thinking block.
Part(d) ==
  /\ up.phase = "block" /\ up.said < MaxParts[path]
  /\ d \in {up.said + 1, -(up.said + 1)}
  /\ LET index == Len(up.blocks) - 1
         kind == up.blocks[index + 1].kind
     IN  /\ d < 0 => kind = "thinking" /\ Back # "gemini"
         /\ up' = [up EXCEPT !.said = @ + 1, !.blocks = AddPart(@, d)]
         /\ Emit(CASE Back = "anthropic" -> <<BlockDelta(index, kind, d)>>
                   [] Back = "bedrock" ->
                        <<[type |-> "contentBlockDelta", index |-> index,
                           kind |-> kind, part |-> d]>>
                   [] Back = "gemini" ->
                        <<IF kind = "text" THEN [GeminiChunk EXCEPT !.text = <<d>>]
                          ELSE [GeminiChunk EXCEPT !.thought = <<d>>]>>
                   [] Back = "openai" ->
                        <<CASE kind = "text" -> [Chunk EXCEPT !.content = <<d>>]
                            [] kind = "thinking" -> [Chunk EXCEPT !.reasoning = <<d>>]
                            [] OTHER -> [Chunk EXCEPT !.tools =
                                           <<ToolCall(Calls - 1, NoId, <<d>>)>>]>>)

CloseBlock ==
  /\ up.phase = "block"
  /\ LET b == up.blocks[Len(up.blocks)]
     IN  b.kind = "tool" \/ b.parts # <<>>
  /\ up' = [up EXCEPT !.phase = "idle"]
  /\ Emit(CASE Back = "anthropic" -> <<BlockStop(Len(up.blocks) - 1)>>
            [] Back = "bedrock" ->
                 <<[type |-> "contentBlockStop", index |-> Len(up.blocks) - 1]>>
            [] OTHER -> <<>>)

Reason(stop) ==
  CASE stop = "length" -> [anthropic |-> "max_tokens", bedrock |-> "max_tokens",
                           openai |-> "length", gemini |-> "MAX_TOKENS"]
    [] stop = "calls" -> [anthropic |-> "tool_use", bedrock |-> "tool_use",
                          openai |-> "tool_calls", gemini |-> "STOP"]
    [] stop = "filter" -> [anthropic |-> "refusal", bedrock |-> "content_filtered",
                           openai |-> "content_filter", gemini |-> "SAFETY"]
    [] stop = "other" -> [anthropic |-> "other", bedrock |-> "guardrail_intervened",
                          openai |-> "other", gemini |-> "OTHER"]
    [] OTHER -> [anthropic |-> "end_turn", bedrock |-> "end_turn",
                 openai |-> "stop", gemini |-> "STOP"]

Stop(stop) ==
  /\ up.phase = "idle"
  /\ stop \in {"length", "filter", "other", IF Calls > 0 THEN "calls" ELSE "end"}
  /\ \E raw \in StopUsages :
       /\ up' = [up EXCEPT !.phase = "stopped", !.stop = stop,
                           !.usage = IF Back \in {"anthropic", "gemini"}
                                     THEN Latest(raw) ELSE @]
       /\ LET reason == Reason(stop)[Back]
          IN  Emit(CASE Back = "anthropic" ->
                          <<[type |-> "message_delta", stop |-> reason, usage |-> raw]>>
                     [] Back = "bedrock" -> <<[type |-> "messageStop", stop |-> reason]>>
                     [] Back = "openai" -> <<[Chunk EXCEPT !.finish = reason]>>
                     [] Back = "gemini" -> <<[GeminiChunk EXCEPT !.finish = reason,
                                                !.usage = Counts(Latest(raw))]>>)

\* A Gemini function call comes whole, on its own or with the end of the message.
Call(last) ==
  /\ Back = "gemini" /\ up.phase = "idle"
  /\ Len(up.blocks) < MaxBlocks[path] /\ up.said < MaxParts[path]
  /\ \E raw \in StopUsages :
       LET d == up.said + 1
           said == [up EXCEPT !.said = d,
                      !.blocks = AddPart(Append(@, Block("tool", Calls + 1)), d)]
           chunk == [GeminiChunk EXCEPT !.calls = <<d>>]
       IN  IF last
           THEN /\ up' = [said EXCEPT !.phase = "stopped", !.stop = "calls",
                                      !.usage = Latest(raw)]
                /\ Emit(<<[chunk EXCEPT !.finish = "STOP", !.usage = Counts(Latest(raw))]>>)
           ELSE up' = said /\ Emit(<<chunk>>)

\* Usage that comes after the stop reason.
Meter ==
  /\ up.phase = "stopped" /\ Back # "gemini"
  /\ \E raw \in IF Back = "anthropic" THEN LateUsages[path] ELSE StopUsages :
       /\ up' = [up EXCEPT !.phase = "metered", !.usage = Latest(raw)]
       /\ Emit(CASE Back = "anthropic" ->
                      <<[type |-> "message_delta", stop |-> "", usage |-> raw]>>
                 [] Back = "bedrock" -> <<[type |-> "metadata", usage |-> Latest(raw)]>>
                 [] Back = "openai" -> <<[Chunk EXCEPT !.usage = Counts(Latest(raw))]>>)

Close ==
  /\ up.phase = "metered" \/ (up.phase = "stopped" /\ Back \in {"anthropic", "gemini"})
  /\ up' = [up EXCEPT !.phase = "closed"]
  /\ Emit(CASE Back = "anthropic" -> <<[type |-> "message_stop"]>>
            [] Back = "openai" -> <<Done>>
            [] OTHER -> <<>>)

Ping ==
  /\ Back = "anthropic" /\ up.phase \notin {"new", "closed"} /\ ~up.pinged
  /\ up' = [up EXCEPT !.pinged = TRUE]
  /\ Emit(<<[type |-> "ping"]>>)

\* Anthropic reports an overload in the middle of a stream.
Overload ==
  /\ Back = "anthropic" /\ up.phase \notin {"new", "closed", "broken"}
  /\ up' = [up EXCEPT !.phase = "broken"]
  /\ Emit(<<[type |-> "error"]>>)

Provider ==
  \/ Begin \/ CloseBlock \/ Meter \/ Close \/ Ping \/ Overload
  \/ \E kind \in Kinds : OpenBlock(kind)
  \/ \E d \in -MaxParts[path]..MaxParts[path] : Part(d)
  \/ \E stop \in {"end", "length", "calls", "filter", "other"} : Stop(stop)
  \/ \E last \in BOOLEAN : Call(last)

(***************************************************************************)
(* The processor.                                                           *)
(***************************************************************************)

ProcessResponseBody(endOfStream) ==
  LET s == ResponseBody(path, st, wire, endOfStream)
  IN  /\ IF Failed(path, s) THEN UNCHANGED <<reader, costs>>
         ELSE /\ reader' = Reads(path, reader, s.out)
              /\ costs' = Override(costs, s.tokenUsage)
      /\ st' = [s EXCEPT !.out = <<>>]
      /\ wire' = <<>>
      /\ open' = (~endOfStream /\ ~Failed(path, s))
      /\ UNCHANGED <<path, up>>

Piece == open /\ wire # <<>> /\ ProcessResponseBody(FALSE)

\* The provider is done, or the connection to it is lost.
End == open /\ up.phase # "new" /\ ProcessResponseBody(TRUE)

Next == Provider \/ Piece \/ End

Spec == Init /\ [][Next]_vars

(***************************************************************************)
(* Properties.                                                              *)
(***************************************************************************)
Translated == path[1] # path[2]

\* Type invariant: the response is in a state a response can be in, and the
\* translator keeps nothing of what an earlier call wrote.
TypeOK ==
  /\ path \in Paths
  /\ up.phase \in {"new", "idle", "block", "stopped", "metered", "closed", "broken"}
  /\ \A b \in ToSet(up.blocks) : b.kind \in Kinds /\ Len(b.parts) <= MaxParts[path]
  /\ \A f \in DOMAIN costs : costs[f] >= Unset
  /\ st.out = <<>>
  /\ open \in BOOLEAN

\* A stream lost within a tool call of an Anthropic provider: the call is sent a
\* second time at the end (Process in anthropic_helper.go, "Add active tool calls
\* to the final chunk").
LostInCall ==
  /\ path = <<"openai", "anthropic">> /\ ~open /\ up.phase = "block"
  /\ up.blocks[Len(up.blocks)].kind = "tool"

\* Text or thinking of Bedrock that no contentBlockStart announces: its deltas go
\* to an Anthropic client without a content_block_start.
Unannounced ==
  /\ path = <<"anthropic", "bedrock">> /\ ~up.announces
  /\ \E b \in ToSet(up.blocks) : b.kind # "tool"

\* Text of an OpenAI provider right after a tool call: handleTextDelta puts it into
\* the block of the call, which is still open.
TextAfterCall ==
  /\ path = <<"anthropic", "openai">>
  /\ \E i \in 2..Len(up.blocks) : up.blocks[i - 1].kind = "tool" /\ up.blocks[i].kind = "text"

Followed == Translated /\ ~LostInCall /\ ~Unannounced /\ ~TextAfterCall

\* The client can follow what the translators write, however the stream is cut
\* and wherever it is lost: events come in the order its protocol has, every
\* delta belongs to the block or call that is open, blocks and calls are
\* numbered without gaps.  It is false of three streams, which are left out:
\* one lost within a tool call of an Anthropic provider (LostInCall), one with
\* text that Bedrock does not announce (Unannounced; see EveryDeltaHasItsBlock)
\* and one with text right after a tool call of an OpenAI provider
\* (TextAfterCall), the last two for Anthropic clients.
WellFormed == Followed => reader.ok

\* "Bedrock doesn't distinguish text vs thinking at block start time, so we defer
\* emitting content_block_start until the first delta"
\* (anthropic_awsbedrock.go:679): the client of a Bedrock stream gets the start of a
\* block with its first delta.
EveryDeltaHasItsBlock == path = <<"anthropic", "bedrock">> => reader.ok

\* What has been said and can be seen: an announced text or thinking block shows
\* with its first part.
Said == SelectSeq(up.blocks, LAMBDA b : b.kind = "tool" \/ b.parts # <<>>)

\* Whenever the processor has read all that was said, the client has all of it,
\* in order, each part in the block or call it was said in: nothing is held back
\* until the next piece, lost, repeated or moved by the way the stream was cut
\* into calls.  The thinking of an Anthropic provider is not passed to OpenAI
\* clients (handleAnthropicStreamEvent reads the text field of a thinking_delta).
\* The streams that a client cannot follow are left out, and those that break:
\* after an error event, or at a stop reason that anthropicToOpenAIFinishReason
\* does not know, the rest of what was read is lost with the response.
Broken == up.phase = "broken" \/ (path = <<"openai", "anthropic">> /\ up.stop = "other")

Delivered ==
  (Followed /\ wire = <<>> /\ ~Broken) =>
    IF path[1] = "anthropic" THEN reader.blocks = Said
    ELSE /\ reader.text = Parts(Of(Said, "text"))
         /\ reader.reasoning = (IF Back = "anthropic" THEN <<>>
                                ELSE Parts(Of(Said, "thinking")))
         /\ reader.tools = [i \in 1..Calls |->
                              [id |-> i, args |-> Of(Said, "tool")[i].parts]]

\* What a client is to be told: the reason in the words of its protocol.  One that
\* this has no word for is an end like any other, and for Anthropic clients so is a
\* filter of Bedrock ("best effort", bedrockStopReasonToAnthropicStopReason).
ToldReason ==
  CASE up.stop = "other" -> IF Back = "gemini" THEN "error" ELSE Reason("end")[path[1]]
    [] up.stop = "filter" /\ path = <<"anthropic", "bedrock">> -> "end_turn"
    [] OTHER -> Reason(up.stop)[path[1]]

\* The client learns the end of the message, and why it ended, when the provider
\* has said so and never before, whichever chunk the provider said it in.
EndsAsSaid ==
  (Followed /\ ~Broken) =>
    IF path[1] = "anthropic"
    THEN /\ reader.phase \in {"stopped", "done"} => up.stop # "" \/ ~open
         /\ ~open /\ up.stop # "" => reader.phase = "done" /\ reader.stop = ToldReason
    ELSE /\ reader.finish # "" => up.stop # ""
         /\ reader.done <=> ~open
         /\ ~open /\ up.phase = "closed" => reader.finish = ToldReason

Finished == ~open /\ up.phase = "closed" /\ ~Broken

Expected ==
  IF Back \in {"openai", "gemini"} THEN Counts(up.usage)
  ELSE ExtractTokenUsageFromExplicitCaching(up.usage)

\* The request is charged what the provider reported last: the counts of a
\* response are cumulative, some come in one event and some in a later one, and
\* every call of the processor overrides only the fields its events set.  And the
\* usage the client is told is the usage that is charged; a message from Bedrock
\* to an Anthropic client is left out of this: see UsageInMessageDelta.
UsageIsTrue ==
  Finished =>
    /\ \A f \in {"input", "output", "total"} : costs[f] = Expected[f]
    /\ Translated /\ path[1] = "openai" /\ Expected.input + Expected.output > 0 =>
         \A f \in {"input", "output", "total"} : reader.usage[f] = costs[f]
    /\ path = <<"anthropic", "openai">> /\ Followed =>
         reader.input = costs.input /\ reader.output = costs.output

\* "Pre-scan for metadata usage so it's available when emitting message_delta"
\* (anthropic_awsbedrock.go:502): the message_delta of a finished message has
\* the output count of the metadata event.
UsageInMessageDelta ==
  (Finished /\ path = <<"anthropic", "bedrock">>) => reader.output = Expected.output

=============================================================================
