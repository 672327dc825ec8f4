--------------------------- MODULE ChatParameters ---------------------------
(***************************************************************************)
(* What a chat request says of the answer it wants, beside its messages:    *)
(* limits, a format, how much to think, the tools.  Each attempt translates *)
(* it for the model of its backend, and the answer is read back by the      *)
(* translator of the attempt that got it (internal/translator:              *)
(* gemini_helper.go, openai_gcpvertexai.go, anthropic_helper.go,            *)
(* openai_awsbedrock.go).                                                   *)
(*                                                                         *)
(* A model is the set of the identifiers its name contains.  Numbers that   *)
(* are not given are Unset.  A text is a sequence of words, spaces and      *)
(* quotes.                                                                  *)
(***************************************************************************)
EXTENDS Integers, SequencesExt, JSONSchemas

CONSTANTS
  Asks,      \* what clients ask: records of the fields that are used below
  Backends,  \* [api, model]
  Matches,   \* the texts that match the guided_regex
  Width,     \* the width of a 32-bit integer
  MaxTries

VARIABLES
  ask,    \* the request, NoAsk before it
  tries,  \* the attempts: what the backend was sent, or a refusal
  told    \* what the client was told, NoAnswer before

pvars == <<ask, tries, told>>

NoAsk == [type |-> "none"]
NoAnswer == [type |-> "none"]
Unset == -(2^Width)
NoSchema == [kind |-> "unset"]
Refused == [ok |-> FALSE]

modelContainsAny(model, identifiers) == model \cap identifiers # {}

\* int32(x) of an int64.
Int32(x) == LET low == x % 2^Width IN IF low < 2^(Width - 1) THEN low ELSE low - 2^Width
Number(x) == IF x = Unset THEN Unset ELSE Int32(x)

\* A field that is not a pointer and is left out of the body when it is 0.
OmitEmpty(x) == IF Number(x) = 0 THEN Unset ELSE Number(x)

\* The limit of the answer: cmp.Or of two fields.
MaxTokens(r) == IF r.maxCompletion # Unset THEN r.maxCompletion ELSE r.maxTokens
StopSequences(r) == IF r.stop.as = "unset" THEN <<>> ELSE r.stop.of

NoFormat == [type |-> "none", schema |-> NoSchema]
Format(type, schema) == [type |-> type, schema |-> schema]

(***************************************************************************)
(* Gemini.                                                                  *)
(***************************************************************************)

responseJSONSchemaAvailable(model) == "gemini" \in model /\ modelContainsAny(model, {"2.5", "3"})
mediaResolutionAvailable(model) == "gemini" \in model /\ "3" \in model
reasoningEffortAvailable(model) == "gemini" \in model /\ "3" \in model
isGeminiFlashModel(model) == "flash" \in model

mapReasoningEffortToThinkingLevel(effort, model) ==
  CASE effort = "none" /\ isGeminiFlashModel(model) -> "minimal"
    [] effort = "low" -> "low"
    [] effort = "medium" -> IF isGeminiFlashModel(model) THEN "medium" ELSE "high"
    [] effort = "high" /\ isGeminiFlashModel(model) -> "high"
    [] OTHER -> "refused"

\* A time that does not parse is left out.
openAITimeRangeFilterToGemini(range) == [k \in {"start", "end"} |-> IF range[k] = "malformed" THEN "" ELSE range[k]]

GeminiTool(tool, whole, first) ==
  CASE tool.type = "function" ->
         IF whole \/ tool.params = NoSchema THEN Ok(tool)
         ELSE IF tool.params.kind # "object" THEN Refused
         ELSE IF tool.params.at = <<>> THEN Ok([tool EXCEPT !.params = NoSchema])
         ELSE Then(jsonSchemaToGemini(tool.params, first), LAMBDA params : Ok([tool EXCEPT !.params = params]))
    [] tool.type = "google_search" -> Ok([tool EXCEPT !.range = openAITimeRangeFilterToGemini(tool.range)])
    [] tool.type = "enterprise_search" -> Ok(tool)
    [] OTHER -> Refused

\* Searches in their order, then the functions in theirs; one without a definition
\* is left out.
openAIToolsToGeminiTools(tools, whole, first) ==
  Then(Whole([i \in DOMAIN tools |-> GeminiTool(tools[i], whole, first)]), LAMBDA all :
    Ok(SelectSeq(all, LAMBDA t : t.type # "function")
         \o SelectSeq(all, LAMBDA t : t.type = "function" /\ t.defined)))

\* The ways in which a request gives a format; at most one may be used.
Formats(r) ==
  {f \in {"response_format", "guided_choice", "guided_regex", "guided_json"} :
     CASE f = "response_format" -> r.format.type # "unset"
       [] f = "guided_choice" -> r.choice # {}
       [] f = "guided_regex" -> r.regex
       [] f = "guided_json" -> r.json # NoSchema}

\* The schema of a response_format, as the model takes it; null reads as no map.
GeminiSchema(r, model, first) ==
  IF r.format.type # "schema" THEN Ok(NoSchema)
  ELSE IF r.format.schema.kind \notin {"object", "null"} THEN Refused
  ELSE IF responseJSONSchemaAvailable(model) THEN Ok(r.format.schema)
  ELSE IF r.format.schema.kind = "null" THEN Refused
  ELSE jsonSchemaToGemini(r.format.schema, first)

\* The format Gemini is given, and the mode in which its answer is read.
GeminiFormat(r, schema) ==
  CASE r.format.type = "text" -> Format("text", NoSchema)
    [] r.format.type = "object" -> Format("object", NoSchema)
    [] r.format.type = "schema" -> Format("schema", schema)
    [] r.choice # {} -> Format("choice", NoSchema)
    [] r.regex -> Format("regex", NoSchema)
    [] r.json # NoSchema -> Format("schema", r.json)
    [] OTHER -> NoFormat

openAIReqToGeminiGenerationConfig(r, model, first) ==
  LET level == IF r.effort # "" /\ reasoningEffortAvailable(model)
               THEN mapReasoningEffortToThinkingLevel(r.effort, model) ELSE "unset"
  IN IF level = "refused" \/ Cardinality(Formats(r)) > 1 THEN Refused
     ELSE Then(GeminiSchema(r, model, first), LAMBDA schema :
            Ok([temperature |-> r.temperature, seed |-> Number(r.seed), n |-> OmitEmpty(r.n),
                max |-> OmitEmpty(MaxTokens(r)), stop |-> StopSequences(r), format |-> GeminiFormat(r, schema),
                thinking |-> [level |-> level, budget |-> Unset, thoughts |-> FALSE]]))

\* Thinking that is disabled, or adaptive, leaves an empty configuration.
getGenerationConfigThinkingConfig(thinking) ==
  [level |-> "unset",
   budget |-> IF thinking.type = "enabled" THEN Int32(thinking.budget) ELSE Unset,
   thoughts |-> thinking.type = "enabled" /\ thinking.thoughts]

applyVendorSpecificFields(r, request, model) ==
  [request EXCEPT !.media = IF r.media # "" /\ mediaResolutionAvailable(model) THEN r.media ELSE @]

openAIMessageToGeminiMessage(r, model, first) ==
  LET thinking(config) == IF r.thinking.type = "unset" THEN config.thinking ELSE getGenerationConfigThinkingConfig(r.thinking)
      request(tools, config) == [ok |-> TRUE, mode |-> config.format.type, tools |-> tools,
                                 is |-> [config EXCEPT !.thinking = thinking(config)], media |-> ""]
  IN Then(openAIToolsToGeminiTools(r.tools, responseJSONSchemaAvailable(model), first), LAMBDA tools :
       Then(openAIReqToGeminiGenerationConfig(r, model, first), LAMBDA config :
         applyVendorSpecificFields(r, request(tools, config), model)))

(***************************************************************************)
(* Claude, at AWS and at GCP, and the Converse API of Bedrock.              *)
(***************************************************************************)

awsOutputConfigModels == {"opus-4-5", "sonnet-4-5"}
gcpOutputConfigModels == awsOutputConfigModels \cup {"opus-4-7"}
effortModels == {"opus-4-5", "opus-4-7"}

outputConfigAvailable(api, model) ==
  \/ api = "gcpanthropic" /\ modelContainsAny(model, gcpOutputConfigModels)
  \/ api = "awsanthropic" /\ modelContainsAny(model, awsOutputConfigModels)

effortAvailable(model) == modelContainsAny(model, effortModels)
mapReasoningEffortToOutputConfigEffort(effort) ==
  IF effort \in {"low", "medium", "high", "xhigh", "max"} THEN effort ELSE "refused"

validateTemperatureForAnthropic(temperature) == temperature # "above 1"

\* A type that is no string is left out, and then the type is "object".
openAIToolParamsToAnthropicInputSchema(params) ==
  Object([type |-> IF Has(params, "type") /\ params.at["type"].kind = "string" THEN params.at["type"] ELSE String("object")]
         @@ [k \in {"properties", "required"} \cap DOMAIN params.at |-> params.at[k]]
         @@ [k \in DOMAIN params.at \ {"type", "properties", "required"} |-> params.at[k]])

AnthropicTool(tool) ==
  IF tool.type # "function" \/ ~tool.defined THEN Refused
  ELSE IF tool.params = NoSchema THEN Ok(tool)
  ELSE IF tool.params.kind # "object" THEN Refused
  ELSE Ok([tool EXCEPT !.params = openAIToolParamsToAnthropicInputSchema(@)])

translateOpenAItoAnthropicTools(tools) ==
  Whole([i \in DOMAIN tools |-> AnthropicTool(tools[i])])

getThinkingConfigParamUnion(thinking) ==
  [level |-> thinking.type, budget |-> IF thinking.type = "enabled" THEN thinking.budget ELSE Unset, thoughts |-> FALSE]

\* Without a limit, 0 is sent for Anthropic to refuse.
buildAnthropicParams(r, api, model) ==
  LET tools == translateOpenAItoAnthropicTools(r.tools)
      formatted == r.format.type = "schema" /\ outputConfigAvailable(api, model)
      effort == IF r.effort # "" /\ effortAvailable(model) THEN mapReasoningEffortToOutputConfigEffort(r.effort) ELSE ""
      malformed == formatted /\ r.format.schema.kind \notin {"object", "null"}
  IN IF ~tools.ok \/ malformed \/ effort = "refused" \/ ~validateTemperatureForAnthropic(r.temperature) THEN Refused
     ELSE [ok |-> TRUE, mode |-> "none", tools |-> tools.is, media |-> "",
           is |-> [temperature |-> r.temperature, seed |-> Unset, n |-> Unset,
                   max |-> IF MaxTokens(r) = Unset THEN 0 ELSE MaxTokens(r), stop |-> StopSequences(r),
                   format |-> IF formatted THEN Format("schema", r.format.schema) ELSE NoFormat,
                   thinking |-> getThinkingConfigParamUnion(r.thinking), effort |-> effort]]

getAwsBedrockThinkingMap(thinking) ==
  [level |-> thinking.type, budget |-> IF thinking.type = "enabled" THEN thinking.budget ELSE Unset, thoughts |-> FALSE]

\* The Converse API takes no format.
BedrockParams(r) ==
  [ok |-> TRUE, mode |-> "none", tools |-> r.tools, media |-> "",
   is |-> [temperature |-> r.temperature, seed |-> Unset, n |-> Unset, max |-> MaxTokens(r), stop |-> StopSequences(r),
           format |-> NoFormat, thinking |-> getAwsBedrockThinkingMap(r.thinking), effort |-> r.effort]]

RequestBody(r, b, first) ==
  CASE b.api = "gemini" -> openAIMessageToGeminiMessage(r, b.model, first)
    [] b.api \in {"awsanthropic", "gcpanthropic"} -> buildAnthropicParams(r, b.api, b.model)
    [] b.api = "bedrock" -> BedrockParams(r)

(***************************************************************************)
(* The answer.  A model answers in the format it was given: with a choice,  *)
(* which Gemini may surround with spaces; with a match, which it writes as  *)
(* a JSON string, its quotes escaped; with a document.                      *)
(***************************************************************************)

Quote == "quote"
Escape == "escape"
Space == "space"

TrimPrefix(text, word) == IF text # <<>> /\ Head(text) = word THEN Tail(text) ELSE text
TrimSuffix(text, word) == IF text # <<>> /\ text[Len(text)] = word THEN SubSeq(text, 1, Len(text) - 1) ELSE text
TrimSpace(text) == TrimSuffix(TrimPrefix(text, Space), Space)

extractTextFromTheFirstPart(parts, mode) ==
  (IF mode = "regex" THEN TrimSuffix(TrimPrefix(parts[1], Quote), Quote) ELSE TrimSpace(parts[1])) \o parts[2]

\* Each part of a response, or of an event of its stream, is trimmed for itself.
extractTextAndThoughtSummaryFromGeminiParts(parts, mode) ==
  LET text(p) == CASE mode = "regex" -> TrimSuffix(TrimPrefix(p, Quote), Quote)
                   [] mode = "choice" -> TrimSpace(p)
                   [] OTHER -> p
  IN FlattenSeq([i \in DOMAIN parts |-> text(parts[i])])

JSONString(m) == <<Quote>> \o FlattenSeq([i \in DOMAIN m |-> IF m[i] = Quote THEN <<Escape, Quote>> ELSE <<m[i]>>]) \o <<Quote>>

Texts(r, format) ==
  CASE format.type = "choice" -> {before \o c \o after : c \in r.choice, before \in {<<>>, <<Space>>}, after \in {<<>>, <<Space>>}}
    [] format.type = "regex" -> {JSONString(m) : m \in Matches}
    [] OTHER -> {}

Cut(text, n) == <<SubSeq(text, 1, n), SubSeq(text, n + 1, Len(text))>>

(***************************************************************************)
(* The request and its attempts.                                            *)
(***************************************************************************)

PInit == ask = NoAsk /\ tries = <<>> /\ told = NoAnswer

Ask(r) ==
  /\ ask = NoAsk
  /\ ask' = r
  /\ UNCHANGED <<tries, told>>

\* An attempt has a translator of its own.  One that refuses the request ends it.
Attempt(b, first) ==
  /\ ask # NoAsk /\ told = NoAnswer /\ Len(tries) < MaxTries
  /\ \A i \in DOMAIN tries : tries[i].sent.ok
  /\ tries' = Append(tries, [to |-> b, sent |-> RequestBody(ask, b, first)])
  /\ UNCHANGED <<ask, told>>

Latest == tries[Len(tries)].sent
Answering == tries # <<>> /\ told = NoAnswer /\ Latest.ok

AnswerText ==
  /\ Answering
  /\ \E text \in Texts(ask, Latest.is.format) : \E n \in 0..Len(text) :
       told' = [type |-> Latest.is.format.type, parts |-> Cut(text, n),
                is |-> extractTextAndThoughtSummaryFromGeminiParts(Cut(text, n), Latest.mode)]
  /\ UNCHANGED <<ask, tries>>

\* A model does not take a schema whose references lead nowhere or go round.
Readable(schema) == jsonSchemaSkipKeys(schema, schema, {}, 0).ok

AnswerDocument ==
  /\ Answering /\ Latest.is.format.type = "schema"
  /\ Latest.is.format.schema.kind = "object" /\ Readable(Latest.is.format.schema)
  /\ \E v \in Accepted(Latest.is.format.schema) : told' = [type |-> "schema", is |-> v]
  /\ UNCHANGED <<ask, tries>>

PNext ==
  \/ \E r \in Asks : Ask(r)
  \/ \E b \in Backends, first \in BOOLEAN : Attempt(b, first)
  \/ AnswerText \/ AnswerDocument

(***************************************************************************)
(* Properties.                                                              *)
(***************************************************************************)

Schemas(r) == {s \in {r.format.schema} \cup {r.tools[i].params : i \in DOMAIN r.tools} : s.kind = "object"}

\* The schemas of a request keep their meaning when they are converted for Gemini
\* models that take only some keywords (see KeepsItsMeaning).
SchemaKeepsItsMeaning == ask # NoAsk => \A s \in Schemas(ask) : KeepsItsMeaning(s)

Narrowed(from, to) == {v \in Accepted(from) : v.kind = "object"} \ Accepted(to)

\* Two parts that meet at a space inside what is said: each is trimmed for itself.
MeetAtASpace(parts) ==
  /\ \A i \in 1..2 : TrimSpace(parts[i]) # <<>>
  /\ Space \in {Last(parts[1]), Head(parts[2])}

\* What became of a number on its way: it arrives if it fits in 32 bits; never as a
\* greater one; and it is missing only if the 32 bits that are left of it are 0.
Arrives(asked, sent) ==
  /\ asked \in 1..(2^(Width - 1) - 1) => sent = asked
  /\ sent > 0 => sent <= asked
  /\ sent = Unset => asked = Unset \/ asked % 2^Width = 0

\* The client gets an answer of the kind it asked for.  Gemini is given every format,
\* or the request is refused (openAIReqToGeminiGenerationConfig, "only one of
\* responseFormat, guidedChoice, guidedRegex, guidedJSON can be specified"); so is
\* Claude its schema, where it takes one (buildAnthropicParams).  What the client then
\* reads is one of its choices, unless two parts of the answer meet at a space inside
\* it, which is trimmed away; a match of its expression, unless that holds a quote,
\* which stays escaped (extractTextAndThoughtSummaryFromGeminiParts); or a document of
\* its schema, if that is written with the keywords Gemini has.  The limit of the
\* answer arrives everywhere, and at Gemini the seed and the number of answers, as far
\* as 32 bits hold them: none is widened, but a limit that is 0 in 32 bits is dropped,
\* and a larger one may arrive small or negative.  A tool can be called with all the
\* arguments the client allows (openAIToolsToGeminiTools,
\* openAIToolParamsToAnthropicInputSchema).
AnswerFitsTheAsk ==
  /\ CASE told.type = "choice" -> told.is \in ask.choice \/ MeetAtASpace(told.parts)
       [] told.type = "regex" -> told.is \in Matches \/ \E i \in 1..2 : Contains(told.parts[i], Escape)
       [] told.type = "schema" ->
            \E s \in {IF ask.json # NoSchema THEN ask.json ELSE ask.format.schema} : Supported(s) => Accepts(s, s, told.is)
       [] OTHER -> TRUE
  /\ \A i \in DOMAIN tries : tries[i].sent.ok =>
       \E sent \in {tries[i].sent.is}, api \in {tries[i].to.api}, tools \in {tries[i].sent.tools} :
         /\ api = "gemini" /\ Formats(ask) # {} => sent.format # NoFormat
         /\ Arrives(MaxTokens(ask), sent.max)
         /\ api = "gemini" => Arrives(ask.seed, sent.seed) /\ Arrives(ask.n, sent.n)
         /\ \A j \in DOMAIN tools, k \in DOMAIN ask.tools :
              tools[j].name = ask.tools[k].name /\ tools[j].params.kind = "object" =>
                EnumeratesNull(ask.tools[k].params) \/ ~Readable(ask.tools[k].params) \/ Narrowed(ask.tools[k].params, tools[j].params) = {}
=============================================================================
