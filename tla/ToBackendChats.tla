--------------------------- MODULE ToBackendChats ---------------------------
(***************************************************************************)
(* How an OpenAI chat request becomes an Anthropic, a Bedrock or a Gemini   *)
(* one, and how their answers become OpenAI ones (internal/translator:      *)
(* anthropic_helper.go, openai_awsbedrock.go, converse_helper.go,           *)
(* gemini_helper.go, openai_gcpvertexai.go).                                *)
(*                                                                         *)
(* All the formats are made of items of content.  An item has a type, the   *)
(* words in it (a sequence, for texts are concatenated), a signature (0:    *)
(* none), the call it makes or answers and its function, whether the client *)
(* marked it for caching, and a form: where an image is, how redacted       *)
(* thinking is encoded, whether the arguments of a call are JSON.  The      *)
(* names of the types are those of one format; each conversion says which   *)
(* it keeps, changes, drops or refuses.  An item of type "error" stands for *)
(* a conversion that returned an error.                                     *)
(***************************************************************************)
EXTENDS Naturals, SequencesExt

(* The signature Gemini accepts in place of one it gave.                    *)
DummySignature == 1000

Item(type, words) ==
  [type |-> type, words |-> words, sig |-> 0, call |-> 0, name |-> "", cache |-> FALSE, form |-> ""]

Error == Item("error", <<>>)
CachePoint == Item("cachePoint", <<>>)

Retyped(type, i) == [i EXCEPT !.type = type]

(* The items each item of a sequence becomes, in order.                     *)
Each(seqs) == FlattenSeq(seqs)

Words(items) == Each([i \in DOMAIN items |-> items[i].words])
Calls(items) == SelectSeq(items, LAMBDA i : i.type = "call")
Of(type, items) == SelectSeq(items, LAMBDA i : i.type = type)

(* A message: its role, whether its content is a string, its content, the   *)
(* calls and thinking blocks of an assistant's message, and the call that   *)
(* a tool's message answers.                                                *)
Message(role, string, content) ==
  [role |-> role, string |-> string, content |-> content, calls |-> <<>>, blocks |-> <<>>, call |-> 0]

Turn(role, items) == [role |-> role, items |-> items]

Fails(items) == \E i \in DOMAIN items : items[i].type = "error"

(* The request, unless a conversion failed.                                 *)
Request(system, turns) ==
  [ok |-> ~Fails(system) /\ \A t \in DOMAIN turns : ~Fails(turns[t].items),
   system |-> system, turns |-> turns]

(***************************************************************************)
(* To Anthropic, at AWS or GCP.                                             *)
(***************************************************************************)

convertImageContentToAnthropic(p) ==
  CASE p.form = "pdf" -> Retyped("document", p)
    [] p.form \in {"png", "url"} -> p
    [] OTHER -> Error

convertContentPartsToAnthropic(parts) ==
  Each([i \in DOMAIN parts |->
    CASE parts[i].type = "text" -> <<parts[i]>>
      [] parts[i].type = "image" -> <<convertImageContentToAnthropic(parts[i])>>
      [] parts[i].type \in {"audio", "file"} -> <<Error>>
      [] OTHER -> <<>>])

(* A string content is one part; an empty one is none.                      *)
openAIToAnthropicContent(m) == convertContentPartsToAnthropic(m.content)

(* One block with all the text; the last part says whether it is cached.    *)
extractSystemPromptFromDeveloperMsg(m) ==
  [Item("text", Words(m.content)) EXCEPT !.cache = m.content # <<>> /\ Last(m.content).cache]

processAssistantContent(p) ==
  CASE p.type = "refusal" -> <<[Retyped("text", p) EXCEPT !.cache = FALSE]>>
    [] p.type = "text" -> <<p>>
    [] p.type = "thinking" -> IF p.sig # 0 THEN <<p>> ELSE <<>>
    [] p.type = "redacted" -> IF p.form = "string" THEN <<p>> ELSE <<Error>>
    [] OTHER -> <<Error>>

ToolUses(calls) == [i \in DOMAIN calls |-> IF calls[i].form = "cut" THEN Error ELSE calls[i]]

openAIMessageToAnthropicMessageRoleAssistant(m) ==
  Turn("assistant", Each([i \in DOMAIN m.content |-> processAssistantContent(m.content[i])])
                    \o ToolUses(m.calls))

ToolResult(m, items) ==
  [Item("result", Words(items)) EXCEPT !.call = m.call, !.cache = items # <<>> /\ Last(items).cache]

(* The tool messages in a row become one user turn.                         *)
AggregateToolMessages(msgs, turns, n, block) ==
  IF n > 1 /\ msgs[n - 1].role = "tool"
  THEN [turns EXCEPT ![Len(turns)].items = Append(@, block)]
  ELSE Append(turns, Turn("user", <<block>>))

openAIToAnthropicMessages(msgs) ==
  LET Step(acc, n) ==
        LET m == msgs[n] IN
        CASE m.role \in {"system", "developer"} ->
               [acc EXCEPT !.system = Append(@, extractSystemPromptFromDeveloperMsg(m))]
          [] m.role = "user" -> [acc EXCEPT !.turns = Append(@, Turn("user", openAIToAnthropicContent(m)))]
          [] m.role = "assistant" ->
               [acc EXCEPT !.turns = Append(@, openAIMessageToAnthropicMessageRoleAssistant(m))]
          [] m.role = "tool" ->
               [acc EXCEPT !.turns = AggregateToolMessages(msgs, @, n, ToolResult(m, openAIToAnthropicContent(m)))]
      done == FoldLeft(Step, [system |-> <<>>, turns |-> <<>>], [n \in DOMAIN msgs |-> n])
  IN Request(done.system, done.turns)

(***************************************************************************)
(* To Bedrock's Converse.                                                   *)
(***************************************************************************)

(* The cache mark of an item is a block of its own behind it.               *)
getCachePoint(i) == IF i.cache THEN <<CachePoint>> ELSE <<>>

Marked(type, i) == <<[Retyped(type, i) EXCEPT !.cache = FALSE]>> \o getCachePoint(i)

openAIMessageToBedrockMessageRoleUser(m) ==
  Turn("user", Each([n \in DOMAIN m.content |->
    LET p == m.content[n] IN
    CASE p.type = "text" -> Marked("text", p)
      [] p.type = "image" -> IF p.form = "png" THEN Marked("image", p) ELSE <<Error>>
      [] OTHER -> <<>>]))

unmarshalToolCallArguments(c) == IF c.form = "cut" THEN Error ELSE c

openAIMessageToBedrockMessageRoleAssistant(m) ==
  Turn("assistant",
    Each([n \in DOMAIN m.content |->
      LET p == m.content[n] IN
      CASE p.type \in {"text", "refusal"} -> Marked("text", p)
        [] p.type = "thinking" -> Marked("thinking", p)
        [] p.type = "redacted" -> IF p.form = "bytes" THEN Marked("redacted", p) ELSE <<Error>>
        [] OTHER -> <<>>])
    \o [n \in DOMAIN m.calls |-> unmarshalToolCallArguments(m.calls[n])])

openAIMessageToBedrockMessageRoleSystem(m) ==
  Each([n \in DOMAIN m.content |-> Marked("text", m.content[n])])

openAIMessageToBedrockMessageRoleTool(m) ==
  Turn("user", <<[Item("result", Words(m.content)) EXCEPT !.call = m.call]>>)

(* A bug: each result is a turn.                                            *)
EachToolMessage(msgs, turns, n, turn) == Append(turns, turn)

CoalesceToolMessages(msgs, turns, n, turn) ==
  IF n > 1 /\ msgs[n - 1].role = "tool"
  THEN [turns EXCEPT ![Len(turns)].items = Append(@, turn.items[1])]
  ELSE Append(turns, turn)

openAIMessageToBedrockMessage(msgs) ==
  LET Step(acc, n) ==
        LET m == msgs[n]
            said == openAIMessageToBedrockMessageRoleAssistant(m) IN
        CASE m.role \in {"system", "developer"} ->
               [acc EXCEPT !.system = @ \o openAIMessageToBedrockMessageRoleSystem(m)]
          [] m.role = "user" -> [acc EXCEPT !.turns = Append(@, openAIMessageToBedrockMessageRoleUser(m))]
          [] m.role = "assistant" -> [acc EXCEPT !.turns = IF said.items = <<>> THEN @ ELSE Append(@, said)]
          [] m.role = "tool" ->
               [acc EXCEPT !.turns = CoalesceToolMessages(msgs, @, n, openAIMessageToBedrockMessageRoleTool(m))]
      done == FoldLeft(Step, [system |-> <<>>, turns |-> <<>>], [n \in DOMAIN msgs |-> n])
  IN Request(done.system, done.turns)

(* What is counted when the client asks for a number of tokens: a message   *)
(* becomes a turn whatever its neighbours are, and developers are refused.  *)
tokenizeToBedrockCountTokens(msgs) ==
  LET Step(acc, m) ==
        CASE m.role = "system" -> [acc EXCEPT !.system = @ \o openAIMessageToBedrockMessageRoleSystem(m)]
          [] m.role = "developer" -> [acc EXCEPT !.system = Append(@, Error)]
          [] m.role = "user" -> [acc EXCEPT !.turns = Append(@, openAIMessageToBedrockMessageRoleUser(m))]
          [] m.role = "assistant" ->
               [acc EXCEPT !.turns = Append(@, openAIMessageToBedrockMessageRoleAssistant(m))]
          [] m.role = "tool" -> [acc EXCEPT !.turns = Append(@, openAIMessageToBedrockMessageRoleTool(m))]
      done == FoldLeft(Step, [system |-> <<>>, turns |-> <<>>], msgs)
  IN Request(done.system, done.turns)

(***************************************************************************)
(* To Gemini, which knows no identifiers of calls: a result names its       *)
(* function.                                                                *)
(***************************************************************************)

NonEmpty(items) == SelectSeq(items, LAMBDA i : i.words # <<>>)

developerMsgToGeminiParts(m) == NonEmpty(m.content)

userMsgToGeminiParts(m) ==
  Each([n \in DOMAIN m.content |->
    LET p == m.content[n] IN
    CASE p.type \in {"text", "image"} -> <<[p EXCEPT !.cache = FALSE]>>
      [] p.type \in {"audio", "file"} -> <<Error>>
      [] OTHER -> <<>>])

toolMsgToGeminiParts(m, known) ==
  [Item("result", Words(m.content)) EXCEPT
     !.name = IF m.call \in DOMAIN known THEN known[m.call] ELSE ""]

(* A bug: the blocks are not looked at.                                     *)
ThoughtSignatureOfParts(m) ==
  LET signed == SelectSeq(m.content, LAMBDA i : i.type = "thinking" /\ i.sig # 0)
  IN IF m.string \/ signed = <<>> THEN DummySignature ELSE signed[1].sig

(* The first signature in the content, or else in the thinking blocks.      *)
ThoughtSignature(m) ==
  LET signed(items) == SelectSeq(items, LAMBDA i : i.type = "thinking" /\ i.sig # 0)
      inParts == IF m.string THEN <<>> ELSE signed(m.content)
      all == inParts \o signed(m.blocks)
  IN IF all = <<>> THEN DummySignature ELSE all[1].sig

(* The calls come first, and the first one carries the signature.           *)
assistantMsgToGeminiParts(m) ==
  [n \in DOMAIN m.calls |->
     IF m.calls[n].form = "cut" THEN Error
     ELSE [m.calls[n] EXCEPT !.call = 0, !.sig = IF n = 1 THEN ThoughtSignature(m) ELSE 0]]
  \o Each([n \in DOMAIN m.content |->
       LET p == m.content[n] IN
       CASE p.type = "text" -> NonEmpty(<<[p EXCEPT !.cache = FALSE]>>)
         [] p.type = "thinking" ->
              NonEmpty(<<[p EXCEPT !.cache = FALSE, !.sig = IF m.calls = <<>> THEN @ ELSE 0]>>)
         [] p.type = "refusal" -> <<>>
         [] OTHER -> <<Error>>])

KnownToolCalls(m) ==
  [c \in {m.calls[n].call : n \in DOMAIN m.calls} |->
     m.calls[CHOOSE n \in DOMAIN m.calls : m.calls[n].call = c].name]

FlushParts(acc) ==
  IF acc.parts = <<>> THEN acc
  ELSE [acc EXCEPT !.turns = Append(@, Turn("user", acc.parts)), !.parts = <<>>]

openAIMessagesToGeminiContents(msgs) ==
  LET Step(acc, m) ==
        CASE m.role \in {"system", "developer"} -> [acc EXCEPT !.system = @ \o developerMsgToGeminiParts(m)]
          [] m.role = "user" -> [acc EXCEPT !.parts = @ \o userMsgToGeminiParts(m)]
          [] m.role = "tool" -> [acc EXCEPT !.parts = Append(@, toolMsgToGeminiParts(m, acc.known))]
          [] m.role = "assistant" ->
               LET flushed == FlushParts(acc) IN
               [flushed EXCEPT !.known = KnownToolCalls(m) @@ @,
                               !.turns = Append(@, Turn("model", assistantMsgToGeminiParts(m)))]
      done == FlushParts(FoldLeft(Step, [system |-> <<>>, turns |-> <<>>, parts |-> <<>>, known |-> <<>>], msgs))
  IN Request(done.system, done.turns)

(***************************************************************************)
(* The answers as OpenAI messages: the text, the calls, the reasoning and   *)
(* the thinking blocks, the finish reason, and the usage, with the usage    *)
(* that is charged.                                                         *)
(***************************************************************************)

Reply(words, calls, reasoning, blocks, finish, usage, charged) ==
  [ok |-> TRUE, words |-> words, calls |-> calls, reasoning |-> reasoning, blocks |-> blocks,
   finish |-> finish, usage |-> usage, charged |-> charged]

NoReply ==
  [Reply(<<>>, <<>>, <<>>, <<>>, "error", [in |-> 0, out |-> 0], [in |-> 0, out |-> 0]) EXCEPT !.ok = FALSE]

(* Cached tokens are not among the input tokens the backend counts.         *)
ExtractTokenUsageFromExplicitCaching(u) == [in |-> u.in + u.read + u.write, out |-> u.out]

(* Only the first text is kept.                                             *)
FirstText(items) == LET texts == NonEmpty(Of("text", items)) IN IF texts = <<>> THEN <<>> ELSE texts[1].words

anthropicToOpenAIFinishReason(stop) ==
  CASE stop \in {"end_turn", "stop_sequence", "pause_turn"} -> "stop"
    [] stop = "max_tokens" -> "length"
    [] stop = "tool_use" -> "tool_calls"
    [] stop = "refusal" -> "content_filter"
    [] OTHER -> "error"

anthropicToolUseToOpenAICalls(items) == Of("call", items)

(* Of several thinking blocks the last is told, as reasoning with its       *)
(* signature; what redacted thinking holds is encoded once more.            *)
messageToChatCompletion(said) ==
  LET thought == SelectSeq(said.items, LAMBDA i : i.type \in {"thinking", "redacted"} /\ i.words # <<>>)
      usage == ExtractTokenUsageFromExplicitCaching(said.usage)
      finish == anthropicToOpenAIFinishReason(said.stop)
  IN IF finish = "error" THEN NoReply
     ELSE Reply(FirstText(said.items), anthropicToolUseToOpenAICalls(said.items),
                IF thought = <<>> THEN <<>> ELSE <<[Last(thought) EXCEPT !.form = "bytes"]>>,
                <<>>, finish, usage, usage)

bedrockStopReasonToOpenAIStopReason(stop) ==
  CASE stop = "max_tokens" -> "length"
    [] stop = "content_filtered" -> "content_filter"
    [] stop = "tool_use" -> "tool_calls"
    [] OTHER -> "stop"

bedrockToolUseToOpenAICalls(items) == Of("call", items)

(* Reasoning is told in words, and once more in thinking blocks that keep   *)
(* the signatures.                                                          *)
ConverseToChatCompletion(said) ==
  LET usage == ExtractTokenUsageFromExplicitCaching(said.usage)
      thought == NonEmpty(Of("thinking", said.items))
      blocks == SelectSeq(said.items, LAMBDA i : \/ i.type = "thinking" /\ (i.words # <<>> \/ i.sig # 0)
                                                 \/ i.type = "redacted")
  IN Reply(FirstText(said.items), bedrockToolUseToOpenAICalls(said.items),
           IF thought = <<>> THEN <<>> ELSE <<[Last(thought) EXCEPT !.sig = 0]>>,
           blocks, bedrockStopReasonToOpenAIStopReason(said.stop), usage, usage)

geminiFinishReasonToOpenAI(reason, calls) ==
  CASE reason = "STOP" -> IF calls # <<>> THEN "tool_calls" ELSE "stop"
    [] reason = "MAX_TOKENS" -> "length"
    [] reason = "SAFETY" -> "content_filter"
    [] reason = "MALFORMED_FUNCTION_CALL" -> "malformed_function_call"
    [] OTHER -> "error"

(* The summary of the thoughts, the text, and the signature on a text.      *)
extractTextAndThoughtSummaryFromGeminiParts(items) ==
  LET texts == NonEmpty(Of("text", items)) IN
  [thought |-> Words(Of("thinking", items)), words |-> Words(texts),
   sig |-> IF \E n \in DOMAIN texts : texts[n].sig # 0
           THEN texts[CHOOSE n \in DOMAIN texts : texts[n].sig # 0].sig ELSE 0]

(* The identifiers are made here, from the next unused one.                 *)
extractToolCallsFromGeminiParts(items, fresh) ==
  LET calls == Of("call", items) IN
  [calls |-> [n \in DOMAIN calls |-> [calls[n] EXCEPT !.call = fresh + n - 1, !.sig = 0]],
   sig |-> LET signed == SelectSeq(calls, LAMBDA i : i.sig # 0) IN IF signed = <<>> THEN 0 ELSE signed[1].sig]

geminiUsageToOpenAIUsage(u) == [in |-> u.in, out |-> u.out + u.thoughts]

(* The signature of a call is preferred to that of a text.                  *)
geminiCandidatesToOpenAIChoices(said, fresh) ==
  LET text == extractTextAndThoughtSummaryFromGeminiParts(said.items)
      made == extractToolCallsFromGeminiParts(said.items, fresh)
      sig == IF made.sig # 0 THEN made.sig ELSE text.sig
      blocks == IF sig = 0 THEN <<>>
                ELSE <<[Item("thinking", IF text.sig # 0 THEN text.thought ELSE <<>>) EXCEPT !.sig = sig]>>
      usage == geminiUsageToOpenAIUsage(said.usage)
  IN Reply(text.words, made.calls, IF text.thought = <<>> THEN <<>> ELSE <<Item("thinking", text.thought)>>,
           blocks, geminiFinishReasonToOpenAI(said.stop, made.calls), usage, usage)

(***************************************************************************)
(* The choice of a tool: left open, "auto", "none", "required", or a name.  *)
(***************************************************************************)

translateAnthropicToolChoice(choice) == IF choice = "required" THEN "any" ELSE choice

(* Bedrock has no "none", and takes the word for the name of a tool if the  *)
(* model is a Claude.                                                       *)
openAIToolsToBedrockToolConfig(choice, claude) ==
  CASE choice = "required" -> "any"
    [] choice = "none" -> IF claude THEN "a tool called none" ELSE "unset"
    [] OTHER -> choice

openAIToolChoiceToGeminiToolConfig(choice) == IF choice = "required" THEN "any" ELSE choice
=============================================================================
