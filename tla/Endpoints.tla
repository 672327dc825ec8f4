----------------------------- MODULE Endpoints -----------------------------
(***************************************************************************)
(* A request to one of the endpoints of internal/endpointspec, from the     *)
(* parsing of its body to the answer: each attempt is translated for its    *)
(* backend from the same original and the same parsed request, and what the *)
(* attempt does not replace is what Envoy still holds of the one before.    *)
(*                                                                          *)
(*   ask     the client's request [endpoint, body, betas, type, good]       *)
(*   phase   "new", "parsed", "sent" (an attempt is at its backend), "done" *)
(*   rp      of the routerProcessor: originalRequestBodyRaw, the parsed     *)
(*           request (a pointer the translators share), forceBodyMutation   *)
(*   held    the body, the path and the anthropic-beta header that Envoy    *)
(*           has for the upstream                                           *)
(*   tr      the attempt's backend and its translation                      *)
(*   got     what the backend answers, and told what becomes of it          *)
(***************************************************************************)
EXTENDS Translators

CONSTANTS Requests,     \* requests of clients
          Backends,     \* [schema, version, override, mutation, filter]
          Costs,        \* whether costs are configured
          MaxAttempts   \* attempts of one request

VARIABLES ask, phase, rp, held, attempts, tr, got, told

evars == <<ask, phase, rp, held, attempts, tr, got, told>>

-----------------------------------------------------------------------------
(* Parsing: [error, req, raw], raw being the rewritten body, if it is.      *)

Parsed(b) == [error |-> "", raw |-> NoBody,
              req |-> [model |-> b.model, stream |-> b.stream, usage |-> b.usage, content |-> b.content]]
Malformed(b) == [Parsed(b) EXCEPT !.error = "malformed"]

ParseChatCompletions(r) ==
  IF ~r.good THEN Malformed(r.body)
  ELSE IF r.body.stream /\ Costs /\ ~r.body.usage
       THEN [Parsed(r.body) EXCEPT !.req.usage = TRUE, !.raw = [r.body EXCEPT !.usage = TRUE]]
       ELSE Parsed(r.body)

ParseWhole(r) == IF ~r.good THEN Malformed(r.body) ELSE [Parsed(r.body) EXCEPT !.req.stream = FALSE]

ParseCompletions(r) == IF ~r.good THEN Malformed(r.body) ELSE Parsed(r.body)
ParseResponses(r) == IF ~r.good THEN Malformed(r.body) ELSE Parsed(r.body)
ParseEmbeddings(r) == ParseWhole(r)
ParseImageGeneration(r) == ParseWhole(r)
ParseRerank(r) == ParseWhole(r)
ParseTokenize(r) == ParseWhole(r)
ParseInputTokens(r) == ParseWhole(r)
ParseMessages(r) == IF ~r.good \/ r.body.model = NoModel THEN Malformed(r.body) ELSE Parsed(r.body)
ParseCountTokens(r) == IF r.body.model = NoModel THEN Malformed(r.body) ELSE ParseWhole(r)

(* The only malformed request whose client is not told.                     *)
ParseSpeech(r) == IF ~r.good THEN [Parsed(r.body) EXCEPT !.error = "internal"] ELSE Parsed(r.body)

ParseTranscriptionForm(r) == IF ~r.good THEN Malformed(r.body) ELSE Parsed(r.body)
ParseTranslationForm(r) == ParseWhole(r)

Audio == {"transcription", "translation"}

Parse(r) ==
  CASE (r.type = "form") # (r.endpoint \in Audio) -> Malformed(r.body)
    [] r.endpoint = "chat" -> ParseChatCompletions(r)
    [] r.endpoint = "messages" -> ParseMessages(r)
    [] r.endpoint = "count_tokens" -> ParseCountTokens(r)
    [] r.endpoint = "tokenize" -> ParseTokenize(r)
    [] r.endpoint = "speech" -> ParseSpeech(r)
    [] r.endpoint = "transcription" -> ParseTranscriptionForm(r)
    [] r.endpoint = "translation" -> ParseTranslationForm(r)
    [] r.endpoint = "completions" -> ParseCompletions(r)
    [] r.endpoint = "responses" -> ParseResponses(r)
    [] r.endpoint = "embeddings" -> ParseEmbeddings(r)
    [] r.endpoint = "images" -> ParseImageGeneration(r)
    [] r.endpoint = "rerank" -> ParseRerank(r)
    [] r.endpoint = "input_tokens" -> ParseInputTokens(r)

-----------------------------------------------------------------------------
(* GetTranslator and the RequestBody of what it gets, per endpoint.         *)

ChatCompletions(s, a) ==
  CASE s = "OpenAI" -> ChatToOpenAI(a)
    [] s = "AzureOpenAI" -> ChatToAzureOpenAI(a)
    [] s = "AWSBedrock" -> ChatToAWSBedrock(a)
    [] s = "AWSAnthropic" -> ChatToAWSAnthropic(a)
    [] s = "GCPVertexAI" -> ChatToGCPVertexAI(a)
    [] s = "GCPAnthropic" -> ChatToGCPAnthropic(a)
    [] OTHER -> Refused(a, "unsupported")

Messages(s, a) ==
  CASE s = "Anthropic" -> MessagesToAnthropic(a)
    [] s = "AWSAnthropic" -> MessagesToAWSAnthropic(a)
    [] s = "GCPAnthropic" -> MessagesToGCPAnthropic(a)
    [] s = "OpenAI" -> MessagesToOpenAI(a)
    [] s = "AWSBedrock" -> MessagesToAWSBedrock(a)
    [] OTHER -> Refused(a, "unsupported")

MessagesCountTokens(s, a) ==
  CASE s = "Anthropic" -> CountTokensToAnthropic(a)
    [] s \in {"AWSAnthropic", "AWSBedrock"} -> CountTokensToAWSAnthropic(a)
    [] s = "GCPAnthropic" -> CountTokensToGCPAnthropic(a)
    [] OTHER -> Refused(a, "unsupported")

Tokenize(s, a) ==
  CASE s = "OpenAI" -> TokenizeToOpenAI(a)
    [] s = "AWSBedrock" -> TokenizeToAWSBedrock(a)
    [] s = "AWSAnthropic" -> TokenizeToAWSAnthropic(a)
    [] s = "GCPVertexAI" -> TokenizeToGCPVertexAI(a)
    [] s = "GCPAnthropic" -> TokenizeToGCPAnthropic(a)
    [] OTHER -> Refused(a, "unsupported")

Embeddings(s, a) ==
  CASE s = "OpenAI" -> EmbeddingsToOpenAI(a)
    [] s = "AzureOpenAI" -> EmbeddingsToAzureOpenAI(a)
    [] s = "AWSBedrock" -> EmbeddingsToAWSBedrock(a)
    [] s = "GCPVertexAI" -> EmbeddingsToGCPVertexAI(a)
    [] OTHER -> Refused(a, "unsupported")

Responses(s, a) ==
  CASE s = "OpenAI" -> ResponsesToOpenAI(a)
    [] s = "AzureOpenAI" -> ResponsesToAzureOpenAI(a)
    [] OTHER -> Refused(a, "unsupported")

ResponsesInputTokens(s, a) ==
  CASE s = "OpenAI" -> InputTokensToOpenAI(a)
    [] s = "AzureOpenAI" -> InputTokensToAzureOpenAI(a)
    [] OTHER -> Refused(a, "unsupported")

Completions(s, a) == IF s = "OpenAI" THEN CompletionsToOpenAI(a) ELSE Refused(a, "unsupported")
ImageGeneration(s, a) == IF s = "OpenAI" THEN ImagesToOpenAI(a) ELSE Refused(a, "unsupported")
Speech(s, a) == IF s = "OpenAI" THEN SpeechToOpenAI(a) ELSE Refused(a, "unsupported")
Transcription(s, a) == IF s = "OpenAI" THEN TranscriptionToOpenAI(a) ELSE Refused(a, "unsupported")
AudioTranslation(s, a) == IF s = "OpenAI" THEN TranslationToOpenAI(a) ELSE Refused(a, "unsupported")
Rerank(s, a) == IF s = "Cohere" THEN RerankToCohere(a) ELSE Refused(a, "unsupported")

Translate(endpoint, s, a) ==
  CASE endpoint = "chat" -> ChatCompletions(s, a)
    [] endpoint = "messages" -> Messages(s, a)
    [] endpoint = "count_tokens" -> MessagesCountTokens(s, a)
    [] endpoint = "tokenize" -> Tokenize(s, a)
    [] endpoint = "embeddings" -> Embeddings(s, a)
    [] endpoint = "responses" -> Responses(s, a)
    [] endpoint = "input_tokens" -> ResponsesInputTokens(s, a)
    [] endpoint = "completions" -> Completions(s, a)
    [] endpoint = "images" -> ImageGeneration(s, a)
    [] endpoint = "speech" -> Speech(s, a)
    [] endpoint = "transcription" -> Transcription(s, a)
    [] endpoint = "translation" -> AudioTranslation(s, a)
    [] endpoint = "rerank" -> Rerank(s, a)

(* ResponseBody and ResponseError of the translator of the attempt.         *)

ChatAnswer(s, t, w) ==
  CASE s = "AWSBedrock" -> ChatFromAWSBedrock(t, w)
    [] s = "AWSAnthropic" -> ChatFromAWSAnthropic(t, w)
    [] s = "GCPAnthropic" -> ChatFromGCPAnthropic(t, w)
    [] s = "GCPVertexAI" -> ChatFromGCPVertexAI(t, w)
    [] OTHER -> ChatFromOpenAI(t, w)
MessagesAnswer(s, t, w) ==
  CASE s = "OpenAI" -> MessagesFromOpenAI(t, w)
    [] s = "AWSBedrock" -> MessagesFromAWSBedrock(t, w)
    [] OTHER -> MessagesFromAnthropic(t, w)
CountTokensAnswer(s, t, w) ==
  IF s \in {"AWSAnthropic", "AWSBedrock"} THEN CountTokensFromAWSAnthropic(t, w) ELSE CountTokensFromAnthropic(t, w)
TokenizeAnswer(s, t, w) ==
  CASE s = "AWSBedrock" -> TokenizeFromAWSBedrock(t, w)
    [] s = "AWSAnthropic" -> TokenizeFromAWSAnthropic(t, w)
    [] s = "GCPAnthropic" -> TokenizeFromGCPAnthropic(t, w)
    [] s = "GCPVertexAI" -> TokenizeFromGCPVertexAI(t, w)
    [] OTHER -> TokenizeFromOpenAI(t, w)
EmbeddingsAnswer(s, t, w) ==
  CASE s = "AWSBedrock" -> EmbeddingsFromAWSBedrock(t, w)
    [] s = "GCPVertexAI" -> EmbeddingsFromGCPVertexAI(t, w)
    [] OTHER -> EmbeddingsFromOpenAI(t, w)

ResponseBody(endpoint, s, t, w) ==
  CASE endpoint = "chat" -> ChatAnswer(s, t, w)
    [] endpoint = "messages" -> MessagesAnswer(s, t, w)
    [] endpoint = "count_tokens" -> CountTokensAnswer(s, t, w)
    [] endpoint = "tokenize" -> TokenizeAnswer(s, t, w)
    [] endpoint = "embeddings" -> EmbeddingsAnswer(s, t, w)
    [] endpoint = "responses" -> ResponsesFromOpenAI(t, w)
    [] endpoint = "input_tokens" -> InputTokensFromOpenAI(t, w)
    [] endpoint = "completions" -> CompletionsFromOpenAI(t, w)
    [] endpoint = "images" -> ImagesFromOpenAI(t, w)
    [] endpoint = "speech" -> SpeechFromOpenAI(t, w)
    [] endpoint = "transcription" -> TranscriptionFromOpenAI(t, w)
    [] endpoint = "translation" -> TranslationFromOpenAI(t, w)
    [] endpoint = "rerank" -> RerankFromCohere(t, w)

ResponseError(endpoint, s, e) ==
  CASE endpoint = "completions" -> CompletionsError(e)
    [] endpoint = "count_tokens" -> CountTokensError(e)
    [] endpoint = "rerank" -> RerankError(e)
    [] endpoint = "messages" ->
         (CASE s = "OpenAI" -> MessagesErrorFromOpenAI(e)
            [] s = "AWSBedrock" -> MessagesErrorFromAWSBedrock(e)
            [] OTHER -> MessagesErrorFromAnthropic(e))
    [] endpoint = "embeddings" /\ s = "AWSBedrock" -> EmbeddingsErrorFromAWSBedrock(e)
    [] endpoint \in {"chat", "tokenize"} /\ s = "AWSBedrock" -> bedrockResponseError(e)
    [] endpoint = "chat" /\ s = "AWSAnthropic" -> ChatErrorFromAWSAnthropic(e)
    [] endpoint = "chat" /\ s = "GCPAnthropic" -> ChatErrorFromGCPAnthropic(e)
    [] endpoint = "tokenize" /\ s = "AWSAnthropic" -> TokenizeErrorFromAWSAnthropic(e)
    [] endpoint = "tokenize" /\ s = "GCPAnthropic" -> translateGCPAnthropicErrorToOpenAI(e)
    [] endpoint = "tokenize" /\ s = "OpenAI" -> TokenizeErrorFromOpenAI(e)
    [] endpoint \in {"chat", "tokenize", "embeddings"} /\ s = "GCPVertexAI" -> convertGCPVertexAIErrorToOpenAI(e)
    [] OTHER -> convertErrorOpenAIToOpenAIError(e)

-----------------------------------------------------------------------------
(* BodyMutator: what a backend removes from a body and then sets in it.     *)

HasMutations(m) == m.on

Mutate(m, body) ==
  LET removed == IF m.on /\ m.remove THEN [body EXCEPT !.extra = ""] ELSE body IN
  IF m.on /\ m.set # "" THEN [removed EXCEPT !.extra = m.set] ELSE removed

applyBodyMutation(m, body, raw) == Mutate(m, IF body = NoBody THEN raw ELSE body)

(* Mutant: a retry replays nothing.                                         *)
SetBackendUnforced(b, p, betas, again) ==
  [raw |-> p.raw, req |-> p.req, override |-> b.override, version |-> b.version,
   force |-> p.force, betas |-> betas, filter |-> b.filter]

(* SetBackend: what a new translator of an attempt is given.                *)
SetBackend(b, p, betas, again) ==
  [raw |-> p.raw, req |-> p.req, override |-> b.override, version |-> b.version,
   force |-> again \/ p.force, betas |-> betas, filter |-> b.filter]

(* The anthropic-beta header after an attempt: what the translator's filter *)
(* leaves of it, but on a retry the header mutator restores the client's.   *)
BetasAfter(endpoint, s, a, again) ==
  LET known == IF s = "AWSAnthropic" THEN AWSBetas(a.betas) ELSE a.betas IN
  IF again THEN ask.betas
  ELSE IF /\ endpoint = "messages" /\ s \in {"AWSAnthropic", "GCPAnthropic"}
          /\ filterHeaderValues(known, a.filter) # known
       THEN filterHeaderValues(known, a.filter) ELSE a.betas

(* The body that Envoy has after an attempt.                                *)
BodyAfter(b, a, t, before) ==
  IF t.body # NoBody \/ a.force \/ HasMutations(b.mutation)
  THEN applyBodyMutation(b.mutation, t.body, a.raw) ELSE before

-----------------------------------------------------------------------------
Nothing == Told("", NoModel, 0, 0)
NoTold == [kind |-> "none", type |-> "", answer |-> Nothing, failure |-> LostFailure]
NoAnswer == [form |-> "", model |-> NoModel, usage |-> 0, vectors |-> 0]
NoBackend == [schema |-> "", version |-> "", override |-> NoModel,
              mutation |-> [on |-> FALSE, remove |-> FALSE, set |-> ""],
              filter |-> [mode |-> "", list |-> {}]]

Init ==
  /\ ask \in Requests
  /\ phase = "new"
  /\ rp = [raw |-> NoBody, req |-> Parsed(NoBody).req, force |-> FALSE]
  /\ held = [path |-> Path("", NoModel), body |-> ask.body, betas |-> ask.betas]
  /\ attempts = 0
  /\ tr = [backend |-> NoBackend, t |-> Refused(SetBackend(NoBackend, rp, {}, FALSE), "")]
  /\ got = NoAnswer
  /\ told = NoTold

(* routerProcessor.ProcessRequestBody                                       *)
Receive ==
  /\ phase = "new"
  /\ \E p \in {Parse(ask)} :
       IF p.error # ""
       THEN /\ phase' = "done"
            /\ told' = [NoTold EXCEPT !.kind = IF p.error = "malformed" THEN "400" ELSE "reset"]
            /\ UNCHANGED rp
       ELSE /\ phase' = "parsed"
            /\ rp' = [raw |-> IF p.raw # NoBody THEN p.raw ELSE ask.body, req |-> p.req, force |-> p.raw # NoBody]
            /\ UNCHANGED told
  /\ UNCHANGED <<ask, held, attempts, tr, got>>

(* SetBackend and upstreamProcessor.ProcessRequestHeaders.  An attempt is   *)
(* the first, or Envoy's retry of one whose backend failed.                 *)
Attempt(b) ==
  /\ phase \in {"parsed", "sent"} /\ attempts < MaxAttempts
  /\ attempts' = attempts + 1
  /\ \E a \in {SetBackend(b, rp, held.betas, attempts > 0)} : \E t \in {Translate(ask.endpoint, b.schema, a)} :
       IF t.refused # ""
       THEN /\ phase' = "done"
            /\ told' = [NoTold EXCEPT !.kind = IF t.refused = "invalid" THEN "422" ELSE "reset"]
            /\ UNCHANGED <<rp, held, tr>>
       ELSE /\ phase' = "sent"
            /\ tr' = [backend |-> b, t |-> t]
            /\ rp' = [rp EXCEPT !.req = t.req]
            /\ held' = [path |-> t.path, body |-> BodyAfter(b, a, t, held.body),
                        betas |-> BetasAfter(ask.endpoint, b.schema, a, attempts > 0)]
            /\ UNCHANGED told
  /\ UNCHANGED <<ask, got>>

-----------------------------------------------------------------------------
(* The backends.                                                            *)

(* Where an API takes the model and the mode from, and the formats it       *)
(* takes and answers in ("same": in that of the request).                   *)
Api(model, mode, takes, answers) == [model |-> model, mode |-> mode, takes |-> takes, answers |-> answers]
OpenAIApi == Api("body", "body", {"openai"}, "openai")

Apis(api) ==
  CASE api \in {"deployments/chat/completions", "deployments/embeddings"} -> Api("path", "body", {"openai"}, "openai")
    [] api = "model/converse" -> Api("path", "whole", {"converse"}, "converse")
    [] api = "model/converse-stream" -> Api("path", "streamed", {"converse"}, "converse")
    [] api = "model/invoke" -> Api("path", "whole", {"anthropic", "titan"}, "same")
    [] api = "model/invoke-with-response-stream" -> Api("path", "streamed", {"anthropic"}, "same")
    [] api = "model/count-tokens" -> Api("path", "whole", {"converse", "invoke"}, "bedrock")
    [] api \in {"messages", "messages/count_tokens"} -> Api("body", "body", {"anthropic"}, "same")
    [] api = "anthropic/rawPredict" -> Api("path", "whole", {"anthropic"}, "same")
    [] api = "anthropic/streamRawPredict" -> Api("path", "streamed", {"anthropic"}, "same")
    [] api = "anthropic/count-tokens" -> Api("body", "whole", {"anthropic"}, "same")
    [] api = "google/generateContent" -> Api("path", "whole", {"gemini"}, "same")
    [] api = "google/streamGenerateContent" -> Api("path", "streamed", {"gemini"}, "same")
    [] api = "google/countTokens" -> Api("path", "whole", {"gemini"}, "same")
    [] api = "google/embedContent" -> Api("path", "whole", {"embedContent"}, "same")
    [] api = "google/predict" -> Api("path", "whole", {"predict"}, "same")
    [] api = "rerank" -> Api("body", "whole", {"cohere"}, "same")
    [] OTHER -> OpenAIApi

AskedOf(h) ==
  LET api == Apis(h.path.api) IN
  [model |-> IF api.model = "path" THEN h.path.model ELSE h.body.model,
   stream |-> CASE api.mode = "body" -> h.body.stream [] api.mode = "whole" -> FALSE [] OTHER -> TRUE,
   content |-> h.body.content]

Vectors(content) == IF content[1] \in {"texts", "items", "tokens"} THEN Len(content[2]) ELSE 1

Answers(h) ==
  LET api == Apis(h.path.api) IN
  [form : {IF api.answers = "same" THEN h.body.form ELSE api.answers},
   model : {NoModel, AskedOf(h).model, [NoModel EXCEPT !.name = "served"]},
   usage : {1}, vectors : {Vectors(h.body.content)}]

(* An error that AWS has not named comes from a gateway in front of it.     *)
FaultForm(s, kind) ==
  CASE s \in {"AWSBedrock", "AWSAnthropic"} -> IF kind = "" THEN "openai" ELSE "bedrock"
    [] s = "GCPVertexAI" -> "google"
    [] s \in {"Anthropic", "GCPAnthropic"} -> "anthropic"
    [] s = "Cohere" -> "cohere"
    [] OTHER -> "openai"

Faults(s) ==
  {[form |-> FaultForm(s, kind), type |-> type, kind |-> kind] :
     type \in {"json", "broken", "text", "none"}, kind \in {"", "named"}}

-----------------------------------------------------------------------------
(* upstreamProcessor.ProcessResponseHeaders and ProcessResponseBody         *)

Respond ==
  /\ phase = "sent"
  /\ \E w \in Answers(held) :
       /\ got' = w
       /\ told' = [NoTold EXCEPT !.kind = "answer",
                                 !.answer = ResponseBody(ask.endpoint, tr.backend.schema, tr.t, w)]
  /\ phase' = "done"
  /\ UNCHANGED <<ask, rp, held, attempts, tr>>

Fail ==
  /\ phase = "sent"
  /\ \E e \in Faults(tr.backend.schema) : \E f \in {ResponseError(ask.endpoint, tr.backend.schema, e)} :
       told' = [NoTold EXCEPT !.kind = IF f = LostFailure THEN "reset" ELSE "error", !.type = e.type, !.failure = f]
  /\ phase' = "done"
  /\ UNCHANGED <<ask, rp, held, attempts, tr, got>>

Next == Receive \/ (\E b \in Backends : Attempt(b)) \/ Respond \/ Fail

Spec == Init /\ [][Next]_evars

-----------------------------------------------------------------------------
(* Properties                                                               *)

(* What the attempts' processors share, and Envoy's buffers that one        *)
(* attempt leaves to the next, do not show: a retry sends to its backend    *)
(* the very path and body that a first attempt at it would have sent        *)
(* (forceBodyMutation and applyBodyMutation in ProcessRequestHeaders), and  *)
(* its translator remembers the same for the answer.  Only the beta flags   *)
(* for Bedrock, read from the header as the attempt before left it, may be  *)
(* fewer.                                                                   *)
SentLikeFirst ==
  phase = "sent" =>
    \E p \in {Parse(ask)} :
    \E a \in {SetBackend(tr.backend, [raw |-> IF p.raw # NoBody THEN p.raw ELSE ask.body, req |-> p.req,
                                      force |-> p.raw # NoBody], ask.betas, FALSE)} :
    \E t \in {Translate(ask.endpoint, tr.backend.schema, a)} :
    \E body \in {BodyAfter(tr.backend, a, t, ask.body)} :
      /\ held.path = t.path
      /\ [held.body EXCEPT !.betas = {}] = [body EXCEPT !.betas = {}]
      /\ held.body.betas \subseteq body.betas
      /\ <<tr.t.model, tr.t.stream>> = <<t.model, t.stream>>

(* Counting APIs take the names of base models.                             *)
Meant(api, m) ==
  CASE api = "model/count-tokens" -> [m EXCEPT !.geo = ""]
    [] api = "anthropic/count-tokens" -> [m EXCEPT !.tag = ""]
    [] OTHER -> m

(* Whatever the API of the backend, it is asked what the client meant: in a *)
(* format it takes, for the model of the backend's override or else of the  *)
(* client, in the client's mode, about the client's content, with what      *)
(* hosted Anthropic models demand, with the flags the backend may see, with *)
(* the mutations of this backend and of no other, and for the usage when    *)
(* there are costs to compute (the RequestBody of each translator).         *)
BackendAskedAsMeant ==
  phase = "sent" =>
    LET b == tr.backend
        api == held.path.api
        q == AskedOf(held)
        hosted == held.body.form = "invoke" \/ (held.body.form = "anthropic" /\ b.schema # "Anthropic")
        said == ask.body.content IN
    /\ held.body.form \in Apis(api).takes
    /\ q.model = Meant(api, Or(b.override, ask.body.model))
    /\ q.stream = ask.body.stream
    /\ q.content \in {said}
                     \cup (IF ask.endpoint = "tokenize" THEN {<<"chat", said[2]>>} ELSE {})
                     \cup (IF ask.endpoint = "embeddings" /\ said[1] = "chat"
                           THEN {<<"chat", SelectSeq(said[2], LAMBDA role : role = "user")>>} ELSE {})
    /\ hosted => held.body.version # "" \/ (b.version = "" /\ ask.endpoint \in {"messages", "count_tokens"})
    /\ hosted /\ api # "anthropic/count-tokens" => held.body.max
    /\ held.body.betas \subseteq BedrockBetas \cap filterHeaderValues(held.body.betas, b.filter)
    /\ held.body.extra \in (IF b.mutation.on /\ b.mutation.set # "" THEN {b.mutation.set}
                            ELSE IF b.mutation.on /\ b.mutation.remove THEN {""} ELSE {"", ask.body.extra})
    /\ q.stream /\ Costs /\ api \in {"chat/completions", "deployments/chat/completions"} => held.body.usage

ClientForm == CASE ask.endpoint \in {"messages", "count_tokens"} -> "anthropic"
                [] ask.endpoint = "rerank" -> "cohere"
                [] OTHER -> "openai"

(* The errors of these are left as they are.                                *)
ErrorsAsTheyAre ==
  \/ ask.endpoint \in {"completions", "count_tokens"}
  \/ ask.endpoint = "messages" /\ tr.backend.schema = "AWSAnthropic"
  \/ ask.endpoint = "rerank" /\ told.type = "none"

(* Whatever the backend, the client is told in its own API: an answer in    *)
(* its format, one vector for each input it wanted embedded, and an error   *)
(* in the format and of some kind; what is recorded is the usage that the   *)
(* backend reports and a model that answered or was asked (ResponseBody and *)
(* ResponseError of the translator that SetBackend took for the attempt).   *)
ToldInItsApi ==
  /\ told.kind = "answer" =>
       /\ told.answer.form = ClientForm
       /\ ask.endpoint = "embeddings" => told.answer.vectors = Vectors(ask.body.content)
       /\ told.answer.usage = got.usage \/ ask.endpoint \in Audio \cup {"speech", "tokenize"}
       /\ told.answer.model \in {got.model, Or(tr.backend.override, ask.body.model), tr.t.model}
       /\ ask.endpoint = "chat" => told.answer.model # NoModel
  /\ told.kind = "error" /\ told.type # "broken" /\ ~ErrorsAsTheyAre =>
       /\ told.failure.form = ClientForm
       /\ told.type # "json" => told.failure.kind # "" \/ ask.endpoint = "rerank"
=============================================================================
