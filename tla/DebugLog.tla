------------------------------ MODULE DebugLog ------------------------------
(***************************************************************************)
(* What the external processor writes to its debug log while it serves a    *)
(* request: the messages of Envoy and its answers to them                   *)
(* (internal/extproc/server.go), the parsed request                         *)
(* (internal/endpointspec/endpointspec.go) and the decoded response         *)
(* (internal/translator).  The log gets redacted copies of structures that  *)
(* go on being used: the request for every attempt, the response for the    *)
(* client, the mutations for Envoy.  A structure is therefore a graph of    *)
(* cells, as Go lays it out: a cell holds strings and pointers to cells, a  *)
(* shallow copy of it holds the same pointers, and a redaction that forgets *)
(* to copy a cell writes into the structure that is in use.                 *)
(*                                                                         *)
(* A cell is [kind, str, ptr]: its strings by field, and its pointers, each *)
(* [as, to] with the field and the index of a cell.  The root is cell 1.    *)
(***************************************************************************)
EXTENDS Naturals, Sequences

CONSTANTS
  SensitiveKeys,  \* headers that are sensitive by name
  OverrideKeys,   \* those under x-aigw-, which carry credential overrides
  AwsKeys,        \* those that end like a part of an AWS credential
  ClientHeaders,  \* the headers of a client, a graph
  ServerHeaders,  \* the headers of a response, a graph
  Requests,       \* the parsed requests: graphs
  Answers,        \* the decoded responses: graphs
  Mutations,      \* what an attempt makes Envoy set: graphs
  MaxAttempts

VARIABLES
  flags,   \* [debug, redact]: the level of the log, and enableRedaction
  phase,   \* the message of Envoy that comes next
  asked,   \* the request as the client sent it
  req,     \* the parsed request, which every attempt translates
  sent,    \* the requests the attempts made of it
  set,     \* what Envoy was told to set: [meant, got]
  told,    \* what the client was told: [meant, got]
  log      \* the set of entries [of, tree]

(***************************************************************************)
(* Redaction.  A rule says which strings of a cell are replaced and which   *)
(* pointers are followed; what it does not name is shared with the original *)
(* and logged as it is: no rule names the thinking blocks of a message, in  *)
(* a request or in a response, nor the refusal of an assistant message.     *)
(***************************************************************************)

Into(fields) == [copies |-> TRUE, strings |-> {}, into |-> fields]
Strings(fields) == [copies |-> TRUE, strings |-> fields, into |-> {}]
Both(strings, fields) == [copies |-> TRUE, strings |-> strings, into |-> fields]
Shared == [copies |-> FALSE, strings |-> {}, into |-> {}]

\* Requests: the endpoints.
RedactChatCompletions == Into({"messages", "prediction"})
RedactCompletions == Into({"prompt"})
RedactEmbeddingsOfInput == Into({"input"})
RedactEmbeddingsOfChat == Into({"messages"})
RedactImageGeneration == Strings({"prompt"})
RedactResponses == Both({"instructions", "user"}, {"input", "prompt"})
RedactMessages == Into({"messages", "system"})
RedactCountTokens == Shared
RedactInputTokens == Shared
RedactRerank == Both({"query"}, {"documents"})
RedactTokenizeOfPrompt == Strings({"prompt"})
RedactTokenizeOfChat == Into({"messages"})
RedactSpeech == Strings({"input", "instructions"})
RedactTranscription == Strings({"prompt"})
RedactTranslation == Strings({"prompt"})

\* Requests: the messages and their parts.
redactContentUnion == Both({"content"}, {"content"})
redactStringOrUserRoleContentUnion == Both({"content"}, {"content"})
redactStringOrAssistantRoleContentUnion == Both({"content"}, {"content"})
redactUserMessage == redactStringOrUserRoleContentUnion
redactAssistantMessage == [redactStringOrAssistantRoleContentUnion EXCEPT !.into = @ \cup {"tool_calls"}]
redactSystemMessage == redactContentUnion
redactDeveloperMessage == redactContentUnion
redactToolMessage == redactContentUnion
redactPrediction == redactContentUnion
redactTextPart == Strings({"text"})
redactAssistantPart == Strings({"text", "refusal"})
redactToolCall == Strings({"arguments"})
redactTurn == Into({"content"})

redactUserContentPart(part) ==
  CASE part.kind = "text" -> Strings({"text"})
    [] part.kind = "image_url" -> Strings({"url"})
    [] part.kind = "input_audio" -> Strings({"data"})
    [] part.kind = "file" -> Strings({"file_data"})
    [] OTHER -> Shared

\* A union is written as JSON and read again: every cell is new.
RedactJSONTree(c) ==
  [copies |-> TRUE, strings |-> DOMAIN c.str \ {"type"}, into |-> {c.ptr[i].as : i \in DOMAIN c.ptr}]
redactInterfaceValue(c) == RedactJSONTree(c)
redactUnionField(c) == RedactJSONTree(c)

\* Responses, by the translator that decodes them.
RedactBodyOpenAI == Into({"choices"})
RedactBodyGCPVertexAI == Into({"choices"})
RedactBodyAWSBedrock == Into({"choices"})
RedactBodyGCPAnthropic == Into({"choices"})
RedactAnthropicBody == Into({"content"})
RedactAnthropicBodyOfOpenAI == Into({"content"})

redactResponseMessage == Both({"content"}, {"tool_calls", "audio", "reasoning"})
redactGCPResponseMessage == Both({"content"}, {"tool_calls", "audio", "reasoning"})
redactAWSBedrockResponseMessage == Both({"content"}, {"tool_calls", "audio", "reasoning"})
redactGCPAnthropicResponseMessage == Both({"content"}, {"tool_calls", "audio", "reasoning"})
redactResponseAudio == Strings({"data", "transcript"})
redactReasoningContent(c) == IF "text" \in DOMAIN c.str THEN Strings({"text"}) ELSE Shared
redactAnthropicContent == Strings({"text", "thinking", "input"})

\* Answers to Envoy.
isSensitiveHeader(key) == key \in SensitiveKeys \cup OverrideKeys \cup AwsKeys
redactHeader(c) == IF isSensitiveHeader(c.str.key) THEN Strings({"value"}) ELSE Shared
filterSensitiveHeadersForLogging == Into({"header"})
redactHeaderMutation == Into({"header"})
redactBodyMutation == Strings({"body"})
redactProcessingResponseRequestHeaders ==
  Into({"header_mutation"} \cup (IF flags.redact THEN {"body_mutation"} ELSE {}))
redactRequestBodyResponse ==
  Into({"header_mutation"} \cup (IF flags.redact THEN {"body_mutation"} ELSE {}))
redactResponseBodyResponseFull == Into({"header_mutation", "body_mutation"})

\* The function that is applied to a cell, by the type of the structure.
redactMessage(c) ==
  CASE c.kind = "user" -> redactUserMessage
    [] c.kind = "assistant" -> redactAssistantMessage
    [] c.kind = "system" -> redactSystemMessage
    [] c.kind = "developer" -> redactDeveloperMessage
    [] c.kind = "tool" -> redactToolMessage

RequestRule(c) ==
  CASE c.kind = "chat" -> RedactChatCompletions
    [] c.kind = "completions" -> RedactCompletions
    [] c.kind = "embeddings" -> RedactEmbeddingsOfInput
    [] c.kind = "embeddings of chat" -> RedactEmbeddingsOfChat
    [] c.kind = "images" -> RedactImageGeneration
    [] c.kind = "responses" -> RedactResponses
    [] c.kind = "messages" -> RedactMessages
    [] c.kind = "count_tokens" -> RedactCountTokens
    [] c.kind = "input_tokens" -> RedactInputTokens
    [] c.kind = "rerank" -> RedactRerank
    [] c.kind = "tokenize" -> RedactTokenizeOfPrompt
    [] c.kind = "tokenize of chat" -> RedactTokenizeOfChat
    [] c.kind = "speech" -> RedactSpeech
    [] c.kind = "transcription" -> RedactTranscription
    [] c.kind = "translation" -> RedactTranslation

ResponseRule(c) ==
  CASE c.kind = "openai" -> RedactBodyOpenAI
    [] c.kind = "gcpvertexai" -> RedactBodyGCPVertexAI
    [] c.kind = "awsbedrock" -> RedactBodyAWSBedrock
    [] c.kind = "gcpanthropic" -> RedactBodyGCPAnthropic
    [] c.kind = "anthropic" -> RedactAnthropicBody
    [] c.kind = "anthropic of openai" -> RedactAnthropicBodyOfOpenAI
    [] c.kind = "message of openai" -> redactResponseMessage
    [] c.kind = "message of gcpvertexai" -> redactGCPResponseMessage
    [] c.kind = "message of awsbedrock" -> redactAWSBedrockResponseMessage
    [] c.kind = "message of gcpanthropic" -> redactGCPAnthropicResponseMessage
    [] c.kind = "choice" -> Into({"message"})
    [] c.kind = "audio" -> redactResponseAudio
    [] c.kind = "reasoning" -> redactReasoningContent(c)
    [] c.kind = "block" -> redactAnthropicContent

Responders == {"openai", "gcpvertexai", "awsbedrock", "gcpanthropic", "anthropic", "anthropic of openai",
               "message of openai", "message of gcpvertexai", "message of awsbedrock", "message of gcpanthropic",
               "choice", "audio", "reasoning", "block"}
Endpoints == {"chat", "completions", "embeddings", "embeddings of chat", "images", "responses", "messages",
              "count_tokens", "input_tokens", "rerank", "tokenize", "tokenize of chat", "speech",
              "transcription", "translation"}
Roles == {"user", "assistant", "system", "developer", "tool"}

RuleOf(c) ==
  CASE c.kind \in Endpoints -> RequestRule(c)
    [] c.kind \in Responders -> ResponseRule(c)
    [] c.kind \in Roles -> redactMessage(c)
    [] c.kind = "prediction" -> redactPrediction
    [] c.kind = "tool_call" -> redactToolCall
    [] c.kind = "turn" -> redactTurn
    [] c.kind = "said" -> redactAssistantPart
    [] c.kind = "instruction" -> redactTextPart
    [] c.kind = "json" -> redactInterfaceValue(c)
    [] c.kind = "union" -> redactUnionField(c)
    [] c.kind = "header" -> redactHeader(c)
    [] c.kind = "headers" -> filterSensitiveHeadersForLogging
    [] c.kind = "mutation" -> redactHeaderMutation
    [] c.kind = "body" -> redactBodyMutation
    [] c.kind = "request_headers" -> redactProcessingResponseRequestHeaders
    [] c.kind = "request_body" -> redactRequestBodyResponse
    [] c.kind = "response_body" -> redactResponseBodyResponseFull
    [] OTHER -> redactUserContentPart(c)

RedactString(s) == IF s = "" THEN "" ELSE "redacted"

CopyInPlace(g, a, c) == [g |-> [g EXCEPT ![a] = c], at |-> a]
Copy(g, a, c) == [g |-> Append(g, c), at |-> Len(g) + 1]

RECURSIVE Redact(_, _), RedactLinks(_, _, _, _)

\* The links of a cell from the n-th on, those of the rule followed.
RedactLinks(g, ptr, rule, n) ==
  IF n > Len(ptr) THEN [g |-> g, ptr |-> ptr]
  ELSE IF ptr[n].as \notin rule.into THEN RedactLinks(g, ptr, rule, n + 1)
  ELSE LET child == Redact(g, ptr[n].to)
       IN RedactLinks(child.g, [ptr EXCEPT ![n].to = child.at], rule, n + 1)

\* The graph with the copy in it, and the root of the copy.
Redact(g, a) ==
  LET rule == RuleOf(g[a])
      linked == RedactLinks(g, g[a].ptr, rule, 1)
  IN IF ~rule.copies THEN [g |-> g, at |-> a]
     ELSE Copy(linked.g, a,
               [kind |-> g[a].kind, ptr |-> linked.ptr,
                str |-> [f \in DOMAIN g[a].str |->
                           IF f \in rule.strings THEN RedactString(g[a].str[f]) ELSE g[a].str[f]]])

RECURSIVE Tree(_, _)

\* What a structure says, as it is marshalled.
Tree(g, a) ==
  [kind |-> g[a].kind, str |-> g[a].str,
   ptr |-> [i \in DOMAIN g[a].ptr |-> [as |-> g[a].ptr[i].as, to |-> Tree(g, g[a].ptr[i].to)]]]

Original(g) == Tree(g, 1)

\* A structure after it was redacted: its cells, and the entry of the log.
After(g, r) == SubSeq(r.g, 1, Len(g))
Entry(of, g, at) == [of |-> of, tree |-> Tree(g, at)]
Raw(of, g) == Entry(of, g, 1)
Copied(of, g) == LET r == Redact(g, 1) IN Entry(of, r.g, r.at)
If(b, entries) == IF b THEN entries ELSE {}

(***************************************************************************)
(* The messages of a request, and what is logged of each.                   *)
(***************************************************************************)

DInit ==
  /\ flags \in [debug : BOOLEAN, redact : BOOLEAN]
  /\ phase = "request headers" /\ asked = <<>> /\ req = <<>>
  /\ sent = <<>> /\ set = <<>> /\ told = <<>> /\ log = {}

\* What Envoy is told is the response of the processor as it is after the log.
Respond(g) == LET r == IF flags.debug THEN Redact(g, 1) ELSE [g |-> g, at |-> 1]
              IN [meant |-> Original(g), got |-> Original(After(g, r))]

\* The request headers at the router: the ID is put in a new mutation.
IDMutation ==
  << [kind |-> "request_headers", str |-> <<>>, ptr |-> <<[as |-> "header_mutation", to |-> 2]>>],
     [kind |-> "mutation", str |-> <<>>, ptr |-> <<[as |-> "header", to |-> 3]>>],
     [kind |-> "header", str |-> [key |-> "x-ai-eg-internal-req-id", value |-> "id"], ptr |-> <<>>] >>

RequestHeaders ==
  /\ phase = "request headers" /\ phase' = "request body"
  /\ set' = Append(set, Respond(IDMutation))
  /\ log' = log \cup If(flags.debug, {Copied("request headers processing", ClientHeaders),
                                      Copied("request headers processed", IDMutation)})
  /\ UNCHANGED <<flags, asked, req, sent, told>>

\* The request body at the router: it is parsed, or the client is told so.
Immediate == << [kind |-> "immediate", str |-> [status |-> "400"], ptr |-> <<>>] >>

Malformed ==
  /\ phase = "request body" /\ phase' = "done"
  /\ log' = log \cup If(flags.debug, {Raw("request body processed", Immediate)})
  /\ UNCHANGED <<flags, asked, req, sent, set, told>>

\* The answer to it sets the model, for the choice of a route.
ModelMutation ==
  << [kind |-> "request_body", str |-> <<>>, ptr |-> <<[as |-> "header_mutation", to |-> 2]>>],
     [kind |-> "mutation", str |-> <<>>, ptr |-> <<[as |-> "header", to |-> 3]>>],
     [kind |-> "header", str |-> [key |-> "x-ai-eg-model", value |-> "model"], ptr |-> <<>>] >>

RequestBody(r) ==
  /\ phase = "request body" /\ phase' = "attempt"
  /\ asked' = r
  /\ set' = Append(set, Respond(ModelMutation))
  /\ \E copy \in {IF flags.debug /\ flags.redact THEN Redact(r, 1) ELSE [g |-> r, at |-> 1]} :
       /\ req' = After(r, copy)
       /\ log' = log \cup If(flags.debug, {Entry("request body processing", copy.g, copy.at),
                                           Copied("request body processed", ModelMutation)})
  /\ UNCHANGED <<flags, sent, told>>

\* The request headers of an attempt: the parsed request is translated, the
\* backend's credential is set.
Attempt(m) ==
  /\ phase \in {"attempt", "response headers"} /\ Len(sent) < MaxAttempts
  /\ phase' = "response headers"
  /\ sent' = Append(sent, Original(req))
  /\ set' = Append(set, Respond(m))
  /\ log' = log \cup If(flags.debug, {Copied("request headers processing", ClientHeaders),
                                      Copied("request headers processed", m)})
  /\ UNCHANGED <<flags, asked, req, told>>

\* The response: only these translators take a redaction configuration.
SupportsRedaction(d) ==
  d[1].kind \in {"openai", "gcpvertexai", "awsbedrock", "gcpanthropic", "anthropic", "anthropic of openai"}

\* The answer to Envoy carries the response in its body.
BodyMutation ==
  << [kind |-> "response_body", str |-> <<>>, ptr |-> <<[as |-> "body_mutation", to |-> 2]>>],
     [kind |-> "body", str |-> [body |-> "response"], ptr |-> <<>>] >>

\* The headers of the response, and what is set of them, are logged as they are.
HeadersMutation ==
  << [kind |-> "response_headers", str |-> <<>>, ptr |-> <<[as |-> "header_mutation", to |-> 2]>>],
     [kind |-> "mutation", str |-> <<>>, ptr |-> <<>>] >>

ResponseHeaders ==
  /\ phase = "response headers" /\ phase' = "response body"
  /\ set' = Append(set, [meant |-> Original(HeadersMutation), got |-> Original(HeadersMutation)])
  /\ log' = log \cup If(flags.debug, {Raw("response headers processing", ServerHeaders),
                                      Raw("response headers processed", HeadersMutation)})
  /\ UNCHANGED <<flags, asked, req, sent, told>>

ResponseBody(d) ==
  /\ phase = "response body" /\ phase' = "done"
  /\ set' = Append(set, Respond(BodyMutation))
  /\ \E copy \in {IF flags.debug /\ flags.redact /\ SupportsRedaction(d) THEN Redact(d, 1)
                  ELSE [g |-> d, at |-> 1]} :
       /\ told' = Append(told, [meant |-> Original(d), got |-> Original(After(d, copy))])
       /\ log' = log \cup If(flags.debug /\ (SupportsRedaction(d) \/ ~flags.redact),
                             {Entry("response body processing", copy.g, copy.at)})
                      \cup If(flags.debug, {IF flags.redact THEN Copied("response body processed", BodyMutation)
                                            ELSE Raw("response body processed", BodyMutation)})
  /\ UNCHANGED <<flags, asked, req, sent>>

DNext ==
  \/ RequestHeaders \/ Malformed \/ ResponseHeaders
  \/ \E r \in Requests : RequestBody(r)
  \/ \E m \in Mutations : Attempt(m)
  \/ \E d \in Answers : ResponseBody(d)

(***************************************************************************)
(* Properties.                                                              *)
(***************************************************************************)

RECURSIVE Nodes(_), Shape(_)
Nodes(t) == {[kind |-> t.kind, str |-> t.str]} \cup UNION {Nodes(t.ptr[i].to) : i \in DOMAIN t.ptr}
Shape(t) == [kind |-> t.kind, fields |-> {f \in DOMAIN t.str : t.str[f] # ""},
             ptr |-> [i \in DOMAIN t.ptr |-> [as |-> t.ptr[i].as, to |-> Shape(t.ptr[i].to)]]]

\* The strings of a cell that hold what somebody said, or a credential, and that
\* the redaction is to replace.
ContentFields == {"content", "text", "refusal", "url", "data", "file_data", "arguments", "transcript",
                  "thinking", "prompt", "query", "document", "instructions", "user", "input", "body"}
Content(n) ==
  CASE n.kind \in {"json", "union"} -> DOMAIN n.str \ {"type"}
    [] n.kind = "header" -> IF isSensitiveHeader(n.str.key) THEN {"value"} ELSE {}
    [] n.kind \in {"audio_url", "video_url", "thinking_block"} -> {}
    [] n.kind = "assistant" -> {"content"}
    [] OTHER -> DOMAIN n.str \cap ContentFields
Hidden(n) == \A f \in Content(n) : n.str[f] \in {"", "redacted"}

OfRequest(e) == e.of \notin {"response headers processing", "response headers processed"}

\* The debug log disturbs nothing.  Every attempt translates the request the client
\* sent, Envoy sets what the processor meant, and the client is told what the
\* translator decoded, whatever was logged on the way (server.go, processMsg: "without
\* modifying the actual response"; translator.go, RedactBody: "The original response
\* is never modified").  And it replaces what it is to replace: the credentials in the
\* headers of a request and of what is set for the backend; with redaction on, the
\* fields that the rules above name, in every message of every request and response,
\* where the entry of a request keeps its structure (endpointspec.go,
\* RedactSensitiveInfoFromRequest).  It does not say that nothing is given away: the
\* code logs the headers of a response, the token counting requests, the audio_url and
\* video_url parts, thinking blocks, and the refusal of an assistant message as they
\* are, and they are left out here.
DebugLogIsACopy ==
  /\ \A i \in DOMAIN sent : sent[i] = Original(asked)
  /\ \A i \in DOMAIN set : set[i].got = set[i].meant
  /\ \A i \in DOMAIN told : told[i].got = told[i].meant
  /\ \A e \in log :
       /\ OfRequest(e) => \A n \in Nodes(e.tree) : n.kind = "header" => Hidden(n)
       /\ flags.redact /\ OfRequest(e) /\ e.tree.kind \notin {"count_tokens", "input_tokens"} =>
            /\ \A n \in Nodes(e.tree) : Hidden(n)
            /\ e.of = "request body processing" => Shape(e.tree) = Shape(Original(asked))
=============================================================================
