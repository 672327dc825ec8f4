--------------------------- MODULE AnthropicChats ---------------------------
(***************************************************************************)
(* How an Anthropic messages request becomes a Bedrock or an OpenAI one,    *)
(* and how their answers become Anthropic ones (internal/translator:        *)
(* anthropic_awsbedrock.go, anthropic_openai.go, openai_helper.go).  Items  *)
(* and messages are those of ToBackendChats; a message of the Anthropic API *)
(* has all it says in its content.                                          *)
(***************************************************************************)
EXTENDS ToBackendChats

(***************************************************************************)
(* To Bedrock's Converse.                                                   *)
(***************************************************************************)

(* Messages of the system go behind the system prompt; the request itself   *)
(* stays as it was.                                                         *)
promoteAnthropicSystemMessagesToParam(system, msgs) ==
  LET promoted == SelectSeq(msgs, LAMBDA m : m.role = "system") IN
  [system |-> system \o Each([n \in DOMAIN promoted |-> NonEmpty(Of("text", promoted[n].content))]),
   messages |-> SelectSeq(msgs, LAMBDA m : m.role # "system")]

isOnlyToolResult(m) ==
  /\ m.role = "user" /\ ~m.string /\ m.content # <<>>
  /\ \A n \in DOMAIN m.content : m.content[n].type = "result"

(* A cache point stands behind what it marks.                               *)
appendCachePoint(i) == <<[i EXCEPT !.cache = FALSE]>> \o getCachePoint(i)

convertImageBlock(i) == IF i.form = "png" THEN appendCachePoint(i) ELSE <<Error>>

convertToolResultBlock(i) == appendCachePoint(i)

convertUserMessage(m) ==
  Turn("user", Each([n \in DOMAIN m.content |->
    LET i == m.content[n] IN
    CASE i.type = "text" -> appendCachePoint(i)
      [] i.type = "image" -> convertImageBlock(i)
      [] i.type = "result" -> convertToolResultBlock(i)
      [] OTHER -> <<>>]))

(* Redacted thinking goes as the bytes of the string that holds it.         *)
convertAssistantMessage(m) ==
  Turn("assistant", Each([n \in DOMAIN m.content |->
    LET i == m.content[n] IN
    CASE i.type \in {"text", "call"} -> appendCachePoint(i)
      [] i.type \in {"thinking", "redacted"} -> <<i>>
      [] OTHER -> <<>>]))

convertToolResultMessage(m) ==
  Turn("user", Each([n \in DOMAIN m.content |-> convertToolResultBlock(m.content[n])]))

convertSystemPrompt(system) == Each([n \in DOMAIN system |-> appendCachePoint(system[n])])

AnthropicToConverse(system, msgs) ==
  LET p == promoteAnthropicSystemMessagesToParam(system, msgs)
      Step(turns, n) ==
        LET m == p.messages[n] IN
        CASE m.role = "assistant" -> Append(turns, convertAssistantMessage(m))
          [] isOnlyToolResult(m) ->
               IF n > 1 /\ isOnlyToolResult(p.messages[n - 1])
               THEN [turns EXCEPT ![Len(turns)].items = @ \o convertToolResultMessage(m).items]
               ELSE Append(turns, convertToolResultMessage(m))
          [] OTHER -> Append(turns, convertUserMessage(m))
  IN Request(convertSystemPrompt(p.system), FoldLeft(Step, <<>>, [n \in DOMAIN p.messages |-> n]))

(***************************************************************************)
(* To an OpenAI chat completion.                                            *)
(***************************************************************************)

anthropicContentToText(m) == Words(Of("text", m.content))

anthropicSystemPromptToText(system) == Words(system)

toolResultToText(i) == i.words

StringMessage(role, words) ==
  Message(role, TRUE, IF words = <<>> THEN <<>> ELSE <<Item("text", words)>>)

anthropicImageSourceToURL(i) == [i EXCEPT !.cache = FALSE]

(* With thinking the content is a list of parts; without, one text.         *)
appendAnthropicAssistantMessage(msgs, m) ==
  LET parts == SelectSeq(m.content, LAMBDA i : i.type \in {"thinking", "redacted", "text"})
      bare == [n \in DOMAIN parts |-> [parts[n] EXCEPT !.cache = FALSE]]
      calls == Of("call", m.content)
      thinks == \E n \in DOMAIN parts : parts[n].type # "text"
      said == IF thinks THEN Message("assistant", FALSE, bare)
              ELSE StringMessage("assistant", anthropicContentToText(m))
  IN Append(msgs, [said EXCEPT !.calls = [n \in DOMAIN calls |-> [calls[n] EXCEPT !.cache = FALSE]]])

(* Tool results first, each a message of its own; then what the user says.  *)
appendAnthropicUserMessage(msgs, m) ==
  LET results == Of("result", m.content)
      parts == SelectSeq(m.content, LAMBDA i : i.type \in {"text", "image"})
      images == \E n \in DOMAIN parts : parts[n].type = "image"
      text == anthropicContentToText(m)
  IN msgs
     \o [n \in DOMAIN results |->
           [StringMessage("tool", toolResultToText(results[n])) EXCEPT !.call = results[n].call]]
     \o (CASE images -> <<Message("user", FALSE, [n \in DOMAIN parts |-> anthropicImageSourceToURL(parts[n])])>>
           [] ~images /\ text # <<>> -> <<StringMessage("user", text)>>
           [] OTHER -> <<>>)

(* Messages of other roles are left out.                                    *)
anthropicMessagesToOpenAI(system, msgs) ==
  LET text == anthropicSystemPromptToText(system)
      Step(acc, m) == CASE m.role = "user" -> appendAnthropicUserMessage(acc, m)
                        [] m.role = "assistant" -> appendAnthropicAssistantMessage(acc, m)
                        [] OTHER -> acc
  IN FoldLeft(Step, IF text = <<>> THEN <<>> ELSE <<StringMessage("system", text)>>, msgs)

anthropicToolChoiceToOpenAI(choice) == IF choice = "any" THEN "required" ELSE choice

(* Bedrock has no "none": the choice is left open.                          *)
convertTools(choice) == IF choice = "none" THEN "unset" ELSE choice

(***************************************************************************)
(* The answers as Anthropic messages.                                       *)
(***************************************************************************)

AnthropicReply(items, stop, usage, charged) ==
  [ok |-> TRUE, items |-> items, finish |-> stop, usage |-> usage, charged |-> charged]

bedrockStopReasonToAnthropicStopReason(stop) ==
  IF stop \in {"max_tokens", "stop_sequence", "tool_use"} THEN stop ELSE "end_turn"

(* Redacted thinking is read as text: bytes that are none are replaced.     *)
ConverseToAnthropic(said) ==
  LET Told(i) == IF i.type = "redacted" THEN [i EXCEPT !.form = "text"] ELSE i IN
  AnthropicReply([n \in DOMAIN said.items |-> Told(said.items[n])],
                 bedrockStopReasonToAnthropicStopReason(said.stop),
                 [in |-> said.usage.in, out |-> said.usage.out, read |-> said.usage.read, write |-> said.usage.write],
                 ExtractTokenUsageFromExplicitCaching(said.usage))

(* Thinking blocks are preferred to reasoning.                              *)
appendThinkingBlocks(r) == IF r.blocks # <<>> THEN r.blocks ELSE r.reasoning

openAIFinishReasonToAnthropic(finish) ==
  CASE finish = "length" -> "max_tokens"
    [] finish = "tool_calls" -> "tool_use"
    [] finish = "content_filter" -> "refusal"
    [] OTHER -> "end_turn"

(* Arguments that are not JSON become none.                                 *)
openAIResponseToAnthropic(r) ==
  AnthropicReply(appendThinkingBlocks(r)
                 \o (IF r.words = <<>> THEN <<>> ELSE <<Item("text", r.words)>>)
                 \o [n \in DOMAIN r.calls |->
                       IF r.calls[n].form = "cut" THEN [r.calls[n] EXCEPT !.words = <<>>, !.form = ""] ELSE r.calls[n]],
                 openAIFinishReasonToAnthropic(r.finish), r.usage, r.usage)
=============================================================================
