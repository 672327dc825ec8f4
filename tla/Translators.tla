---------------------------- MODULE Translators ----------------------------
(***************************************************************************)
(* What the translators of internal/translator make of a request as a       *)
(* whole, of an answer and of an error, and which translator an endpoint    *)
(* of internal/endpointspec takes for a schema: the path, the model, where  *)
(* the model stands, the mode, the form, and what is remembered for the     *)
(* answer.  What is inside the messages is the business of ToBackendChats   *)
(* and AnthropicChats, how an answer is cut into pieces that of the stream  *)
(* modules: here the content of a request is one value.                     *)
(*                                                                          *)
(* A body is [form, model, stream, usage, version, betas, max, content,     *)
(* extra]: its format, the JSON fields the translators touch, and one more  *)
(* field that a backend's body mutation may set or remove.  The name of a   *)
(* model is [geo, name, tag]: a Bedrock geography ("us."), the name, a      *)
(* Vertex tag ("@default").                                                 *)
(*                                                                          *)
(* A translator is asked with [raw, req, override, version, force, betas,   *)
(* filter]: the body of the client, the parsed one, and what SetBackend     *)
(* gave it.                                                                 *)
(***************************************************************************)
EXTENDS Naturals, Sequences

CONSTANT EmbedContentModels  \* names of the models embedded with embedContent

NoModel == [geo |-> "", name |-> "", tag |-> ""]
NoBody == [form |-> "none", model |-> NoModel, stream |-> FALSE, usage |-> FALSE, version |-> "",
           betas |-> {}, max |-> FALSE, content |-> <<"none", <<>>>>, extra |-> ""]

Or(m, n) == IF m # NoModel THEN m ELSE n

Path(api, model) == [api |-> api, model |-> model]

Asked(a) == Or(a.override, a.req.model)

(* A translation: what is sent, and what the translator remembers.          *)
Translation(a, path, body) ==
  [refused |-> "", path |-> path, body |-> body, model |-> Asked(a), stream |-> a.req.stream, req |-> a.req]

(* Errors: of the client's making, which the client is told as 422, or not. *)
Refused(a, kind) == [Translation(a, Path("", NoModel), NoBody) EXCEPT !.refused = kind]

Mode(a, whole, streamed) == IF a.req.stream THEN streamed ELSE whole

forceOriginalBodyIfEmpty(a, body) == IF a.force /\ body = NoBody THEN a.raw ELSE body

WithOverride(a) == IF a.override # NoModel THEN [a.raw EXCEPT !.model = a.override] ELSE NoBody

(* A body made from the parsed request.                                     *)
Made(a, form) == [NoBody EXCEPT !.form = form, !.content = a.req.content]

filterHeaderValues(values, filter) ==
  CASE filter.list = {} -> values
    [] filter.mode = "Denylist" -> values \ filter.list
    [] filter.mode = "Allowlist" -> values \cap filter.list
    [] OTHER -> values

(* The anthropic-beta flags that Bedrock knows, under the names it knows.   *)
BedrockBetas == {"context-1m", "tool-search-tool"}
BetaAlias(beta) == IF beta = "advanced-tool-use" THEN "tool-search-tool" ELSE beta

AWSBetas(values) == {BetaAlias(beta) : beta \in values} \cap BedrockBetas

Untagged(m) == IF m.tag \in {"@default", "@latest"} THEN [m EXCEPT !.tag = ""] ELSE m
awsAnthropicCountTokensPath(m) == Path("model/count-tokens", [m EXCEPT !.geo = ""])

-----------------------------------------------------------------------------
(* /v1/chat/completions                                                     *)

ChatToOpenAI(a) == Translation(a, Path("chat/completions", NoModel), forceOriginalBodyIfEmpty(a, WithOverride(a)))

ChatToAzureOpenAI(a) == Translation(a, Path("deployments/chat/completions", Asked(a)), NoBody)

ChatToAWSBedrock(a) ==
  Translation(a, Path(Mode(a, "model/converse", "model/converse-stream"), Asked(a)), Made(a, "converse"))

VersionOr(a, default) == IF a.version # "" THEN a.version ELSE default

ChatToAWSAnthropic(a) ==
  Translation(a, Path(Mode(a, "model/invoke", "model/invoke-with-response-stream"), Asked(a)),
              [Made(a, "anthropic") EXCEPT !.version = VersionOr(a, "bedrock"), !.max = TRUE])

ChatToGCPVertexAI(a) ==
  Translation(a, Path(Mode(a, "google/generateContent", "google/streamGenerateContent"), Asked(a)),
              Made(a, "gemini"))

ChatToGCPAnthropic(a) ==
  Translation(a, Path(Mode(a, "anthropic/rawPredict", "anthropic/streamRawPredict"), Asked(a)),
              [Made(a, "anthropic") EXCEPT !.version = VersionOr(a, "vertex"), !.max = TRUE,
                                           !.stream = a.req.stream])

(* /v1/messages                                                             *)

MessagesToAnthropic(a) == Translation(a, Path("messages", NoModel), forceOriginalBodyIfEmpty(a, WithOverride(a)))

MessagesToAWSAnthropic(a) ==
  LET betas == filterHeaderValues(AWSBetas(a.betas), a.filter) IN
  Translation(a, Path(Mode(a, "model/invoke", "model/invoke-with-response-stream"), Asked(a)),
              [a.raw EXCEPT !.version = a.version, !.model = NoModel, !.stream = FALSE,
                            !.betas = IF betas = {} THEN @ ELSE betas])

(* The outer struct has a requestModel of its own: the embedded one, which  *)
(* the answer falls back to, stays empty.                                   *)
MessagesToGCPAnthropic(a) ==
  IF a.version = "" THEN Refused(a, "internal")
  ELSE [Translation(a, Path(Mode(a, "anthropic/rawPredict", "anthropic/streamRawPredict"), Asked(a)),
                    [a.raw EXCEPT !.version = a.version, !.model = NoModel])
        EXCEPT !.model = NoModel]

MessagesToOpenAI(a) ==
  Translation(a, Path("chat/completions", NoModel),
              [Made(a, "openai") EXCEPT !.model = Asked(a), !.stream = a.req.stream, !.usage = a.req.stream])

MessagesToAWSBedrock(a) ==
  Translation(a, Path(Mode(a, "model/converse", "model/converse-stream"), Asked(a)), Made(a, "converse"))

(* /v1/messages/count_tokens: none remembers a model.                       *)

CountTokensToAnthropic(a) ==
  [Translation(a, Path("messages/count_tokens", NoModel), forceOriginalBodyIfEmpty(a, WithOverride(a)))
   EXCEPT !.model = NoModel]

CountTokensToAWSAnthropic(a) ==
  [Translation(a, awsAnthropicCountTokensPath(Asked(a)),
               [a.raw EXCEPT !.form = "invoke", !.version = a.version, !.model = NoModel, !.stream = FALSE,
                             !.max = TRUE])
   EXCEPT !.model = NoModel]

CountTokensToGCPAnthropic(a) ==
  IF a.version = "" THEN Refused(a, "internal")
  ELSE [Translation(a, Path("anthropic/count-tokens", NoModel),
                    [a.raw EXCEPT !.version = a.version, !.model = Untagged(Asked(a))])
        EXCEPT !.model = NoModel]

(* /tokenize: all but the first turn a prompt into a conversation, in the   *)
(* parsed request itself.                                                   *)

TokenizeToOpenAI(a) == Translation(a, Path("tokenize", NoModel), forceOriginalBodyIfEmpty(a, WithOverride(a)))

AsChat(a) == [a EXCEPT !.req.content = <<"chat", @[2]>>]

TokenizeToAWSBedrock(a) ==
  Translation(AsChat(a), Path("model/count-tokens", [Asked(a) EXCEPT !.geo = ""]), Made(AsChat(a), "converse"))

TokenizeToAWSAnthropic(a) ==
  Translation(AsChat(a), awsAnthropicCountTokensPath(Asked(a)),
              [Made(AsChat(a), "invoke") EXCEPT !.version = VersionOr(a, "bedrock"), !.max = TRUE])

TokenizeToGCPAnthropic(a) ==
  [Translation(AsChat(a), Path("anthropic/count-tokens", NoModel),
               [Made(AsChat(a), "anthropic") EXCEPT !.version = VersionOr(a, "vertex"), !.model = Untagged(Asked(a))])
   EXCEPT !.model = Untagged(Asked(a))]

TokenizeToGCPVertexAI(a) ==
  Translation(AsChat(a), Path("google/countTokens", Asked(a)), Made(AsChat(a), "gemini"))

(* /v1/embeddings.  The input is a text, several, items with a task each,   *)
(* numbers of tokens, or, in messages, a conversation by its roles.         *)

EmbeddingsToOpenAI(a) ==
  [Translation(a, Path("embeddings", NoModel), forceOriginalBodyIfEmpty(a, WithOverride(a))) EXCEPT !.model = NoModel]

EmbeddingsToAzureOpenAI(a) ==
  [EmbeddingsToOpenAI(a) EXCEPT !.path = Path("deployments/embeddings", Asked(a))]

(* Titan embeds one text at a time.                                         *)
EmbeddingsToAWSBedrock(a) ==
  IF a.req.content[1] \notin {"text", "texts"} \/ Len(a.req.content[2]) # 1 THEN Refused(a, "invalid")
  ELSE Translation(a, Path("model/invoke", Asked(a)), Made(a, "titan"))

collectPartsFromMessages(messages) == SelectSeq(messages, LAMBDA role : role = "user")

isEmbedContentModel(m) == m.name \in EmbedContentModels

openAIEmbeddingToEmbedContentRequest(a) ==
  LET said == a.req.content[2]
      texts == IF a.req.content[1] = "chat" THEN collectPartsFromMessages(said) ELSE said IN
  IF a.req.content[1] \in {"items", "tokens"} \/ (a.req.content[1] = "chat" /\ texts = <<>>)
     \/ (a.req.content[1] # "chat" /\ Len(texts) > 1)
  THEN Refused(a, "invalid")
  ELSE Translation(a, Path("google/embedContent", Asked(a)),
                   [Made(a, "embedContent") EXCEPT !.content = <<a.req.content[1], texts>>])

openAIEmbeddingToGeminiMessage(a) ==
  IF a.req.content[1] \in {"chat", "tokens"} THEN Refused(a, "invalid")
  ELSE Translation(a, Path("google/predict", Asked(a)), Made(a, "predict"))

EmbeddingsToGCPVertexAI(a) ==
  IF isEmbedContentModel(Asked(a)) THEN openAIEmbeddingToEmbedContentRequest(a)
  ELSE openAIEmbeddingToGeminiMessage(a)

(* The other endpoints go to backends of their own API.                     *)

CompletionsToOpenAI(a) ==
  [Translation(a, Path("completions", NoModel), forceOriginalBodyIfEmpty(a, WithOverride(a))) EXCEPT !.model = NoModel]

ResponsesToOpenAI(a) == Translation(a, Path("responses", NoModel), forceOriginalBodyIfEmpty(a, WithOverride(a)))
ResponsesToAzureOpenAI(a) == [ResponsesToOpenAI(a) EXCEPT !.path.api = "openai/responses"]

InputTokensToOpenAI(a) ==
  [Translation(a, Path("responses/input_tokens", NoModel), forceOriginalBodyIfEmpty(a, WithOverride(a)))
   EXCEPT !.model = NoModel]
InputTokensToAzureOpenAI(a) == [InputTokensToOpenAI(a) EXCEPT !.path.api = "openai/responses/input_tokens"]

ImagesToOpenAI(a) ==
  Translation(a, Path("images/generations", NoModel), forceOriginalBodyIfEmpty(a, WithOverride(a)))

SpeechToOpenAI(a) == Translation(a, Path("audio/speech", NoModel), forceOriginalBodyIfEmpty(a, WithOverride(a)))

RerankToCohere(a) == Translation(a, Path("rerank", NoModel), forceOriginalBodyIfEmpty(a, WithOverride(a)))

(* A form is taken apart by the boundary of the client's content type and   *)
(* put together again under a new one.                                      *)
rewriteMultipartModel(a) == [a.raw EXCEPT !.model = a.override]

TranscriptionToOpenAI(a) ==
  Translation(a, Path("audio/transcriptions", NoModel),
              forceOriginalBodyIfEmpty(a, IF a.override # NoModel THEN rewriteMultipartModel(a) ELSE NoBody))

TranslationToOpenAI(a) ==
  Translation(a, Path("audio/translations", NoModel),
              forceOriginalBodyIfEmpty(a, IF a.override # NoModel THEN rewriteMultipartModel(a) ELSE NoBody))

-----------------------------------------------------------------------------
(* The answers.  A backend answers [form, model, usage, vectors]; t is what *)
(* the translator remembers.  The client is told [form, model, vectors],    *)
(* the gateway records the model and the usage.                             *)

Told(form, model, usage, vectors) == [form |-> form, model |-> model, usage |-> usage, vectors |-> vectors]

(* Backends of the client's API: the answer is not touched.                 *)
PassedOn(t, w) == Told(w.form, Or(w.model, t.model), w.usage, w.vectors)

ChatFromOpenAI(t, w) == PassedOn(t, w)
ResponsesFromOpenAI(t, w) == PassedOn(t, w)
MessagesFromAnthropic(t, w) == PassedOn(t, w)
CompletionsFromOpenAI(t, w) == Told(w.form, w.model, w.usage, w.vectors)
EmbeddingsFromOpenAI(t, w) == Told(w.form, w.model, w.usage, w.vectors)

(* These answers name no model.                                             *)
CountTokensFromAnthropic(t, w) == Told(w.form, NoModel, w.usage, w.vectors)
InputTokensFromOpenAI(t, w) == Told(w.form, NoModel, w.usage, w.vectors)
CountTokensFromAWSAnthropic(t, w) == Told("anthropic", NoModel, w.usage, w.vectors)
ImagesFromOpenAI(t, w) == Told(w.form, t.model, w.usage, w.vectors)
RerankFromCohere(t, w) == Told(w.form, t.model, w.usage, w.vectors)

(* Nor have these a usage.                                                  *)
SpeechFromOpenAI(t, w) == Told(w.form, t.model, 0, w.vectors)
TranscriptionFromOpenAI(t, w) == Told(w.form, t.model, 0, w.vectors)
TranslationFromOpenAI(t, w) == Told(w.form, t.model, 0, w.vectors)
TokenizeFromOpenAI(t, w) == Told(w.form, t.model, 0, w.vectors)
TokenizeFromAWSBedrock(t, w) == Told("openai", t.model, 0, w.vectors)
TokenizeFromAWSAnthropic(t, w) == Told("openai", t.model, 0, w.vectors)
TokenizeFromGCPAnthropic(t, w) == Told("openai", t.model, 0, w.vectors)
TokenizeFromGCPVertexAI(t, w) == Told("openai", t.model, 0, w.vectors)

(* Other backends: the answer is put into the client's form.                *)
ChatFromAWSBedrock(t, w) == Told("openai", t.model, w.usage, w.vectors)
ChatFromAWSAnthropic(t, w) == Told("openai", Or(w.model, t.model), w.usage, w.vectors)
ChatFromGCPAnthropic(t, w) == Told("openai", Or(w.model, t.model), w.usage, w.vectors)
ChatFromGCPVertexAI(t, w) == Told("openai", IF t.stream THEN t.model ELSE Or(w.model, t.model), w.usage, w.vectors)
MessagesFromOpenAI(t, w) == Told("anthropic", Or(w.model, t.model), w.usage, w.vectors)
MessagesFromAWSBedrock(t, w) == Told("anthropic", t.model, w.usage, w.vectors)
EmbeddingsFromAWSBedrock(t, w) == Told("openai", t.model, w.usage, 1)
parseEmbedContentResponse(t, w) == Told("openai", t.model, w.usage, 1)
parsePredictResponse(t, w) == Told("openai", t.model, w.usage, w.vectors)
EmbeddingsFromGCPVertexAI(t, w) ==
  IF t.path.api = "google/embedContent" THEN parseEmbedContentResponse(t, w) ELSE parsePredictResponse(t, w)

(* The errors.  A backend fails with [form, type, kind]: its format, the    *)
(* content type, and the kind it names in the body or, AWS, in a header.    *)
(* The type is "json", "broken" (JSON by its header only), "text" or "none" *)
(* (no header).  The client is told the backend's message as an error of    *)
(* some form and kind; status stands for a kind made from the HTTP status.  *)

Failure(form, kind) == [form |-> form, kind |-> kind]
LostFailure == Failure("reset", "")

(* Left as it is.                                                           *)
AsIs(e) == Failure(IF e.type = "json" THEN e.form ELSE "text", e.kind)

(* Decoded if it is JSON by its header, wrapped if not.                     *)
Converted(e, form, kind, wrapped) ==
  CASE e.type = "json" -> Failure(form, kind)
    [] e.type = "broken" -> LostFailure
    [] OTHER -> Failure(form, wrapped)

(* Left as it is if it is JSON by its header, wrapped if not.               *)
Wrapped(e, form, wrapped) == IF e.type \in {"json", "broken"} THEN AsIs(e) ELSE Failure(form, wrapped)

convertErrorOpenAIToOpenAIError(e) == Wrapped(e, "openai", "OpenAIBackendError")
TokenizeErrorFromOpenAI(e) == Wrapped(e, "openai", "OpenAIBackendError")
bedrockResponseError(e) == Converted(e, "openai", e.kind, "AWSBedrockBackendError")
ChatErrorFromAWSAnthropic(e) == Converted(e, "openai", e.kind, "AWSBedrockBackendError")
TokenizeErrorFromAWSAnthropic(e) == Converted(e, "openai", e.kind, "AWSBedrockBackendError")
ChatErrorFromGCPAnthropic(e) == Converted(e, "openai", e.kind, "GCPBackendError")
translateGCPAnthropicErrorToOpenAI(e) == Converted(e, "openai", e.kind, "GCPAnthropicBackendError")

(* The body itself tells whether it is JSON.                                *)
convertGCPVertexAIErrorToOpenAI(e) ==
  Failure("openai", IF e.type = "json" THEN e.kind ELSE "GCPVertexAIBackendError")

(* JSON that AWS has not named comes from a gateway that speaks OpenAI.     *)
EmbeddingsErrorFromAWSBedrock(e) ==
  IF e.type \in {"json", "broken"} /\ e.kind = "" THEN AsIs(e)
  ELSE Converted(e, "openai", e.kind, "AWSBedrockBackendError")

MessagesErrorFromAnthropic(e) == Wrapped(e, "anthropic", "status")
(* Mutant: JSON is left to the client.                                      *)
MessagesErrorFromOpenAIAsIs(e) == Wrapped(e, "anthropic", "status")
MessagesErrorFromOpenAI(e) == Converted(e, "anthropic", e.kind, "status")
MessagesErrorFromAWSBedrock(e) == Converted(e, "anthropic", "status", "status")

RerankError(e) == IF e.type = "none" THEN AsIs(e) ELSE Wrapped(e, "cohere", "")
CompletionsError(e) == AsIs(e)
CountTokensError(e) == AsIs(e)
=============================================================================
