----------------------------- MODULE MCExtProc -----------------------------
(***************************************************************************)
(* Two requests side by side, with an attempt each; one request with        *)
(* several attempts, none of which Envoy abandons, or with fewer, some of   *)
(* which it does; a request to some endpoint, with what each attempt makes  *)
(* of it for its backend; the debug log of a request; what a request asks   *)
(* of its answer; its headers, or its credentials, over its attempts.  A    *)
(* behaviour shows one of these; the variables of the others do not change. *)
(***************************************************************************)
EXTENDS ExtProc, RetryHeaders, Integers, FiniteSets, TLC

CONSTANTS Show, r1, r2

VARIABLES part, ask, phase, parsed, held, attempts, tr, got, told,
          flags, step, asked, live, sends, sets, tells, log,
          wants, tries, given,
          bringing, wire, message, ref, used, outcome

asking == <<ask, phase, parsed, held, attempts, tr, got, told>>
logging == <<flags, step, asked, live, sends, sets, tells, log>>
wanting == <<wants, tries, given>>
signing == <<bringing, wire, message, ref, used, outcome>>

(* Two configurations: the second one lacks a backend and has costs.  One   *)
(* backend has a schema without a translator.                               *)
MCBackend == {"good", "gone", "odd"}
MCUnsupported == {"odd"}
MCConfig == << [backends |-> {"good", "gone", "odd"}, costs |-> FALSE],
               [backends |-> {"good", "odd"}, costs |-> TRUE] >>

MCReq == {r1, r2}
SameID == [r \in Req |-> "id"]
Abandoned == {r2}

(* Requests to every endpoint, streamed where it can be; two that ask for   *)
(* their usage themselves or not; inputs to embed of every kind, for models *)
(* of either API of Vertex; and requests that are refused.                  *)
Name(geo, name, tag) == [geo |-> geo, name |-> name, tag |-> tag]
Blank == [form |-> "none", model |-> Name("", "", ""), stream |-> FALSE, usage |-> FALSE, version |-> "",
          betas |-> {}, max |-> FALSE, content |-> <<"none", <<>>>>, extra |-> ""]
To(endpoint, form, content) ==
    [endpoint |-> endpoint, type |-> "json", good |-> TRUE, betas |-> {},
     body |-> [Blank EXCEPT !.form = form, !.model = Name("", "m", ""), !.content = content, !.extra = "mine",
                            !.max = form = "anthropic"]]

Talk == <<"chat", <<"system", "user">>>>
Words == <<"text", <<"a">>>>
Form(r) == [r EXCEPT !.type = "form"]
Betas == {"context-1m", "advanced-tool-use", "other"}

Streamable ==
    { To("chat", "openai", Talk), To("completions", "openai", Words), To("responses", "openai", Talk),
      To("speech", "openai", Words), Form(To("transcription", "openai", Words)),
      [To("messages", "anthropic", Talk) EXCEPT !.betas = Betas] }
Embedded == { Words, <<"texts", <<"a">>>>, <<"texts", <<"a", "b">>>>, <<"items", <<"a", "b">>>>,
              <<"tokens", <<"a">>>>, Talk, <<"chat", <<"system">>>> }

MCRequests ==
    Streamable \cup {[r EXCEPT !.body.stream = TRUE] : r \in Streamable}
    \cup {[To("chat", "openai", Talk) EXCEPT !.body.stream = TRUE, !.body.usage = TRUE]}
    \cup {To("count_tokens", "anthropic", Talk), To("tokenize", "openai", Talk),
          To("tokenize", "openai", <<"prompt", <<"user">>>>), To("input_tokens", "openai", Talk),
          To("images", "openai", Words), Form(To("translation", "openai", Words)),
          To("rerank", "cohere", <<"texts", <<"a", "b">>>>)}
    \cup {[To("embeddings", "openai", c) EXCEPT !.body.model.name = name] : c \in Embedded, name \in {"m", "embed"}}
    \cup {Form(To("chat", "openai", Talk)), [To("speech", "openai", Words) EXCEPT !.good = FALSE],
          [To("messages", "anthropic", Talk) EXCEPT !.body.model = Name("", "", "")]}

(* Backends of every schema, with and without an override, a version, a     *)
(* mutation of the body, or a filter of beta flags.                         *)
At(schema, override) ==
    [schema |-> schema, version |-> "", override |-> override,
     mutation |-> [on |-> FALSE, remove |-> FALSE, set |-> ""], filter |-> [mode |-> "", list |-> {}]]
Mutated(b, remove, set) == [b EXCEPT !.mutation = [on |-> TRUE, remove |-> remove, set |-> set]]
Filtered(b, mode, beta) == [b EXCEPT !.filter = [mode |-> mode, list |-> {beta}]]
Versioned(b) == [b EXCEPT !.version = "v"]
NoName == Name("", "", "")

MCBackends ==
    { At("OpenAI", NoName), At("OpenAI", Name("", "o", "")), At("Cohere", Name("", "o", "")), At("Anthropic", NoName),
      Mutated(At("AzureOpenAI", Name("", "o", "")), FALSE, "theirs"),
      Mutated(At("Anthropic", Name("", "o", "")), TRUE, ""),
      At("AWSBedrock", Name("us.", "o", "")), At("GCPVertexAI", NoName),
      Versioned(Filtered(At("AWSAnthropic", Name("us.", "o", "")), "Denylist", "context-1m")),
      Filtered(At("AWSAnthropic", Name("us.", "o", "")), "Allowlist", "context-1m"),
      Versioned(Filtered(At("GCPAnthropic", Name("", "o", "@default")), "Allowlist", "other")),
      At("GCPAnthropic", NoName) }

E == INSTANCE Endpoints WITH
       EmbedContentModels <- {"embed"}, Requests <- MCRequests, Backends <- MCBackends,
       Costs <- TRUE, MaxAttempts <- 3, rp <- parsed

(* Structures: a chat whose messages have text, parts, and calls; requests  *)
(* of the other endpoints; and the responses of the translators.            *)
Cell(kind, str, ptr) == [kind |-> kind, str |-> str, ptr |-> ptr]
Leaf(kind, str) == Cell(kind, str, <<>>)
Link(as, to) == [as |-> as, to |-> to]

ChatOf(kind) ==
    << Cell(kind, <<>>, <<Link("messages", 2), Link("messages", 3), Link("messages", 6), Link("messages", 9)>>),
       Cell("system", <<>>, <<Link("content", 11)>>),
       Cell("user", <<>>, <<Link("content", 4), Link("content", 5), Link("content", 10)>>),
       Leaf("text", [text |-> "a"]), Leaf("image_url", [url |-> "b"]),
       Cell("assistant", [content |-> "", refusal |-> "r"],
            <<Link("content", 7), Link("tool_calls", 8), Link("thinking_blocks", 12)>>),
       Leaf("said", [text |-> "c", refusal |-> ""]), Leaf("tool_call", [arguments |-> "d", name |-> "f"]),
       Leaf("tool", [content |-> "e"]), Leaf("file", [file_data |-> "g"]), Leaf("instruction", [text |-> "h"]),
       Leaf("thinking_block", [thinking |-> "k", signature |-> "s"]) >>
Predicted ==
    << Cell("chat", <<>>, <<Link("messages", 2), Link("messages", 4), Link("prediction", 3)>>),
       Cell("user", <<>>, <<Link("content", 5), Link("content", 6)>>), Leaf("prediction", [content |-> "a"]),
       Leaf("developer", [content |-> "c"]), Leaf("input_audio", [data |-> "b"]), Leaf("video_url", [url |-> "v"]) >>
Union(kind, str, as) ==
    << Cell(kind, str, <<Link(as, 2)>>), Cell("union", [type |-> "message"], <<Link("of", 3)>>),
       Leaf("json", [type |-> "text", text |-> "a"]) >>
Turns == << Cell("messages", <<>>, <<Link("messages", 2), Link("system", 4)>>), Cell("turn", <<>>, <<Link("content", 3)>>),
            Leaf("union", [text |-> "a"]), Leaf("union", [text |-> "b"]) >>

Structures ==
    { ChatOf(k) : k \in {"chat", "embeddings of chat", "tokenize of chat"} }
    \cup { Predicted, Turns, Union("completions", <<>>, "prompt"), Union("embeddings", <<>>, "input"),
           Union("responses", [instructions |-> "i", user |-> "u"], "input"),
           Union("rerank", [query |-> "q"], "documents"), Union("count_tokens", <<>>, "messages"),
           Union("input_tokens", [instructions |-> "i"], "input"), <<Leaf("speech", [input |-> "a", instructions |-> ""])>> }
    \cup { <<Leaf(k, [prompt |-> "p"])>> : k \in {"images", "tokenize", "transcription", "translation"} }

Completion(kind) ==
    << Cell(kind, <<>>, <<Link("choices", 2)>>), Cell("choice", <<>>, <<Link("message", 3)>>),
       Cell("message of " \o kind, [content |-> "a"],
            <<Link("tool_calls", 4), Link("audio", 5), Link("reasoning", 6), Link("reasoning", 7), Link("thinking_blocks", 8)>>),
       Leaf("tool_call", [arguments |-> "b"]), Leaf("audio", [data |-> "c", transcript |-> "d"]),
       Leaf("reasoning", [text |-> "e", signature |-> "s"]), Leaf("reasoning", [opaque |-> "o"]),
       Leaf("thinking_block", [thinking |-> "k", signature |-> "s"]) >>
Blocks(kind) ==
    << Cell(kind, <<>>, <<Link("content", 2), Link("content", 3), Link("content", 4)>>),
       Leaf("block", [text |-> "a"]), Leaf("block", [thinking |-> "b"]), Leaf("block", [input |-> "c", name |-> "f"]) >>

MCAnswers ==
    { Completion(k) : k \in {"openai", "gcpvertexai", "awsbedrock", "gcpanthropic"} }
    \cup { Blocks(k) : k \in {"anthropic", "anthropic of openai"} } \cup { <<Leaf("embedding", <<>>)>> }

Setting(key) ==
    << Cell("request_headers", <<>>, <<Link("header_mutation", 2), Link("body_mutation", 5)>>),
       Cell("mutation", <<>>, <<Link("header", 3), Link("header", 4)>>),
       Leaf("header", [key |-> key, value |-> "secret"]), Leaf("header", [key |-> "x-tenant", value |-> "t"]),
       Leaf("body", [body |-> "translated"]) >>
ClientSets == << Cell("headers", <<>>, <<Link("header", 2), Link("header", 3)>>),
                 Leaf("header", [key |-> "x-api-key", value |-> "mine"]), Leaf("header", [key |-> "x-tenant", value |-> "t"]) >>
ServerSets == << Cell("headers", <<>>, <<Link("header", 2)>>), Leaf("header", [key |-> "x-api-key", value |-> "theirs"]) >>

D == INSTANCE DebugLog WITH
       SensitiveKeys <- {"authorization", "x-api-key"}, OverrideKeys <- {"x-aigw-key"},
       AwsKeys <- {"x-aws-session-token"}, ClientHeaders <- ClientSets, ServerHeaders <- ServerSets, Requests <- Structures,
       Answers <- MCAnswers, Mutations <- {Setting("authorization"), Setting("x-aws-session-token")},
       MaxAttempts <- 2, phase <- step, req <- live, sent <- sends, set <- sets, told <- tells

(* Schemas: types, enumerations, keywords Gemini lacks, references that go  *)
(* round, nowhere, into $defs and elsewhere; in properties, items and       *)
(* alternatives.                                                            *)
JS == INSTANCE JSONSchemas WITH jsonSchemaMaxRecursionDepth <- 6, Instances <- {}
Str(s) == JS!String(s)
Typed(t) == JS!Object([type |-> Str(t)])
RefTo(path) == JS!Object("$ref" :> JS!Ref(path))
Nullable == JS!List(<<Str("string"), Str("null")>>)

Leaves ==
  { Typed("string"), Typed("null"), JS!Object([type |-> Nullable]), JS!Object([type |-> JS!List(<<Str("string")>>)]),
    JS!Object([enum |-> JS!List(<<Str("x"), JS!Null>>)]), JS!Object([type |-> Nullable, enum |-> JS!List(<<Str("x"), JS!Null>>)]),
    JS!Object([const |-> Str("x")]), RefTo(<<"$defs", "A">>), RefTo(<<"$defs", "B">>), RefTo(<<"properties", "a">>), RefTo(<<>>),
    JS!Object("$ref" :> Str("x")) }

Around(s) ==
  { JS!Object([properties |-> JS!Object([a |-> s, b |-> Typed("string")]), required |-> JS!List(<<Str("a")>>), type |-> Str("object")]),
    JS!Object([properties |-> JS!Object("$defs" :> s)]), JS!Object([items |-> s, type |-> Str("array")]),
    JS!Object([anyOf |-> JS!List(<<s, Typed("null")>>)]), JS!Object([allOf |-> JS!List(<<s>>)]),
    JS!Object([allOf |-> JS!List(<<Typed("string")>>), properties |-> JS!Object([a |-> s])]),
    JS!Object([oneOf |-> JS!List(<<s, Typed("string")>>)]), JS!Object([allOf |-> JS!List(<<s, s>>)]) }

Defining(s) ==
  { s, JS!Object(("$defs" :> JS!Object([A |-> Typed("string"), B |-> RefTo(<<"$defs", "A">>)])) @@ s.at),
    JS!Object(("$defs" :> JS!Object([A |-> RefTo(<<"$defs", "A">>), B |-> Typed("string")])) @@ s.at) }

Deep(s) == UNION {Around(t) : t \in Around(s)}
ClientSchemas ==
  UNION {Defining(s) : s \in Leaves \cup UNION {Around(l) : l \in Leaves} \cup Deep(RefTo(<<"$defs", "B">>))}

Scalars == {JS!Null, Str("x"), Str("y"), JS!List(<<>>), JS!Object(<<>>)}
Documents ==
  Scalars \cup {JS!Object("a" :> v) : v \in Scalars} \cup {JS!List(<<v>>) : v \in Scalars}
          \cup {JS!Object([a |-> v, b |-> Str("x")]) : v \in Scalars} \cup {JS!Object("$defs" :> v) : v \in Scalars}
          \cup {JS!Object("a" :> JS!Object("a" :> v)) : v \in {JS!Null, Str("x")}}

Unset == [kind |-> "unset"]
PlainAsk ==
  [temperature |-> "unset", maxCompletion |-> -16, maxTokens |-> -16, seed |-> -16, n |-> -16, stop |-> [as |-> "unset"],
   format |-> [type |-> "unset", schema |-> Unset], choice |-> {}, regex |-> FALSE, json |-> Unset, effort |-> "",
   thinking |-> [type |-> "unset"], tools |-> <<>>, media |-> ""]
Tool(type, defined, params, range) == [type |-> type, name |-> IF defined THEN type ELSE "undefined", defined |-> defined, params |-> params, range |-> range]
Range0 == [start |-> "", end |-> ""]
AsSchema(s) == [PlainAsk EXCEPT !.format = [type |-> "schema", schema |-> s]]

MCAsks ==
  {AsSchema(s) : s \in ClientSchemas}
    \cup {[PlainAsk EXCEPT !.temperature = t] : t \in {"0.5", "above 1"}}
    \cup {[PlainAsk EXCEPT !.maxCompletion = c, !.maxTokens = m, !.seed = m, !.n = c] : c, m \in {-16, 0, 5, 7, 8, 12, 15, 16, 21}}
    \cup {[PlainAsk EXCEPT !.stop = s] : s \in {[as |-> "string", of |-> <<"stop">>], [as |-> "array", of |-> <<"a", "b">>]}}
    \cup {[PlainAsk EXCEPT !.format = [type |-> f, schema |-> Unset], !.choice = c, !.regex = r] :
            f \in {"unset", "text", "object"}, c \in {{}, {<<"yes">>, <<"not", "space", "now">>}}, r \in BOOLEAN}
    \cup {[PlainAsk EXCEPT !.format = [type |-> f, schema |-> s], !.json = j] : s \in {Str("x"), JS!Null}, f \in {"unset", "schema"}, j \in {Unset, Typed("string")}}
    \cup {[AsSchema(Typed("string")) EXCEPT !.choice = {<<"yes">>}]}
    \cup {[PlainAsk EXCEPT !.effort = e, !.thinking = t, !.media = "high"] :
            e \in {"", "none", "minimal", "low", "medium", "high", "xhigh"},
            t \in {[type |-> "unset"], [type |-> "disabled"], [type |-> "adaptive"], [type |-> "enabled", budget |-> 9, thoughts |-> TRUE]}}
    \cup {[PlainAsk EXCEPT !.tools = <<Tool("function", TRUE, s, Range0)>>] :
            s \in {Unset, Str("x"), JS!Object(<<>>), JS!Object([type |-> JS!List(<<Str("object"), Str("null")>>)])}
                    \cup UNION {Defining(t) : t \in Around(RefTo(<<"$defs", "B">>))}}
    \cup {[PlainAsk EXCEPT !.tools = <<Tool("function", FALSE, Unset, Range0), t, Tool("function", TRUE, Typed("object"), Range0)>>] :
            t \in {Tool("google_search", TRUE, Unset, [start |-> "malformed", end |-> "noon"]),
                   Tool("enterprise_search", TRUE, Unset, Range0), Tool("image_generation", TRUE, Unset, Range0)}}

ModelAt(api, model) == [api |-> api, model |-> model]
MCModels ==
  { ModelAt("gemini", {"gemini", "flash"}), ModelAt("gemini", {"gemini", "2.5"}), ModelAt("gemini", {"gemini", "3"}),
    ModelAt("gemini", {"gemini", "3", "flash"}), ModelAt("awsanthropic", {"opus-4-7"}),
    ModelAt("gcpanthropic", {"opus-4-7"}), ModelAt("bedrock", {"nova"}) }

P == INSTANCE ChatParameters WITH
       jsonSchemaMaxRecursionDepth <- 6, Instances <- Documents, Asks <- MCAsks, Backends <- MCModels,
       Matches <- {<<"m">>, <<"m", "space", "m">>, <<"m", "quote">>}, Width <- 4, MaxTries <- 2,
       ask <- wants, tries <- tries, told <- given

(* Refs of a route whose policies are of each type, with a credential of    *)
(* their own, of the environment or of none, and with those a request may   *)
(* bring in its headers or its metadata; the route and the backend change   *)
(* some of the same headers and fields.                                     *)
NoMutation == [none |-> TRUE]
Change(set, removes) == [set |-> set, remove |-> removes]
Put(name, value) == [name |-> <<name>>, value |-> <<value>>]

Plainly == [policy |-> NoMutation, pool |-> FALSE, routeHeaders |-> NoMutation, headers |-> NoMutation,
            routeBody |-> NoMutation, body |-> NoMutation, host |-> <<>>, path |-> <<"chat">>,
            translates |-> TRUE, sets |-> <<"model">> :> <<"other">>]
Policy(type, secret, override) ==
  [type |-> type, secret |-> secret, region |-> "us-west-2", override |-> override]
By(from, name, fallback) == [from |-> from, namespace |-> <<"authz">>, name |-> name, fallback |-> fallback]
With(policy) == [Plainly EXCEPT !.policy = policy]

RouteRefs ==
  [plain |-> [Plainly EXCEPT !.translates = FALSE, !.sets = <<>>],
   changed |-> [Plainly EXCEPT !.policy = Policy("APIKey", "s", NoMutation),
                  !.routeHeaders = Change(<<Put("X-Tenant", "route")>>, {<<"x-org">>}),
                  !.headers = Change(<<Put("x-tenant", "backend"), Put("x-team", "backend")>>, {<<"X-Trace">>}),
                  !.routeBody = Change(<<Put("seed", "route")>>, {<<"user">>}),
                  !.body = Change(<<Put("seed", "backend"), Put("n", "backend")>>, {<<"model">>})],
   pool |-> [Plainly EXCEPT !.pool = TRUE, !.translates = FALSE, !.sets = <<>>,
               !.policy = Policy("APIKey", "s", By("headers", <<"X-Cred">>, TRUE)),
               !.routeHeaders = Change(<<Put("x-tenant", "route")>>, {})],
   strict |-> With(Policy("AzureAPIKey", "s", By("headers", <<"X-Cred">>, FALSE))),
   told |-> With(Policy("AnthropicAPIKey", "s", By("metadata", <<>>, FALSE))),
   gcp |-> With(Policy("GCPCredentials", "s", By("metadata", <<"k">>, TRUE))),
   adc |-> With(Policy("GCPCredentials", "", By("headers", <<>>, FALSE))),
   ambient |-> With(Policy("GCPCredentials", "", NoMutation)),
   lost |-> With(Policy("GCPCredentials", "", By("headers", <<>>, TRUE))),
   absent |-> With(Policy("AzureCredentials", "gone", NoMutation)),
   azure |-> With(Policy("AzureCredentials", "s", NoMutation)),
   aws |-> [With(Policy("AWSCredentials", "s", By("headers", <<>>, TRUE))) EXCEPT
              !.host = <<"vpce-1", "bedrock-runtime", "us-east-1", "vpce", "amazonaws", "com">>,
              !.routeBody = Change(<<Put("seed", "route")>>, {})],
   chain |-> [With(Policy("AWSCredentials", "", By("metadata", <<>>, TRUE))) EXCEPT !.host = <<"bedrock", "corp">>]]

SecretData ==
  [s |-> [apiKey |-> <<"key", " ">>, credentials |-> <<"id", "secret", "token">>,
          azureAccessToken |-> <<"azure">>, gcpAccessToken |-> <<"gcp">>]]

Sometimes(name, values) == {<<>>} \cup {<<name>> :> v : v \in values}
AwsHeader(suffix, present) == IF present THEN <<"x-aigw-aws-", suffix>> :> <<"user">> ELSE <<>>
ClientsOwn == (<<":path">> :> <<"v1">>) @@ (<<"authorization">> :> <<"client">>) @@ (<<"x-tenant">> :> <<"client">>)
              @@ (<<"x-org">> :> <<"client">>) @@ (<<"x-trace">> :> <<"client">>)
Struct(fields) == [str |-> <<>>, fields |-> fields]

Metadata ==
  {<<>>, <<"authz">> :> ((<<"k">> :> [str |-> <<"user">>, fields |-> <<>>])
                         @@ (<<"x-aigw-aws-credentials">> :> Struct([accessKeyId |-> <<"user">>]))),
   <<"authz">> :> ((<<"x-aigw-anthropic-api-key">> :> [str |-> <<" ", "user">>, fields |-> <<>>])
                   @@ (<<"x-aigw-aws-credentials">> :>
                         Struct([accessKeyId |-> <<"user">>, secretAccessKey |-> <<"user">>])))}

RequestsCome ==
  { [headers |-> ClientsOwn @@ cred @@ token @@ AwsHeader("access-key-id", id) @@ AwsHeader("secret-access-key", secret)
                 @@ AwsHeader("session-token", session),
     metadata |-> metadata,
     body |-> (<<"model">> :> <<"model">>) @@ (<<"user">> :> <<"client">>)] :
      cred \in Sometimes("x-cred", {<<"user">>, <<" ">>}), token \in Sometimes("x-aigw-gcp-access-token", {<<"user">>}),
      id \in BOOLEAN, secret \in BOOLEAN, session \in BOOLEAN, metadata \in Metadata }

Cred == INSTANCE Credentials WITH
          Refs <- RouteRefs, Secrets <- SecretData, Asks <- RequestsCome, ChainCred <- <<"role", "secret", "token">>,
          AdcToken <- <<>>, Lower <- (<<"X-Cred">> :> <<"x-cred">>) @@ (<<"X-Tenant">> :> <<"x-tenant">>)
                                     @@ (<<"X-Trace">> :> <<"x-trace">>),
          MaxTries <- 3, ask <- bringing, tries <- used, body <- message, at <- ref

(***************************************************************************)
(* Headers: a path, which every translator sets; a header that carries a    *)
(* credential and one that does not; the trace context; and the upstream    *)
(* host.  The backends remove, set, authenticate, or rewrite.               *)
(***************************************************************************)

MCKey == {":path", "x-ai-eg-upstream-host", "authorization", "x-tenant", "traceparent"}
MCValue == {"client", "route", "backend1", "backend2"}
MCIgnored == {":path", "x-ai-eg-upstream-host"}

Only(k, v) == [x \in MCKey |-> IF x = k THEN v ELSE "absent"]
Nothing == [x \in MCKey |-> "absent"]

MCClientHeaders == {h \in [MCKey -> {"client", "absent"}] : h[":path"] = "client"}

MCTarget == {"plain", "keyed", "pathed", "removing", "setting", "both"}
MCRemove == [b \in MCTarget |-> CASE b = "removing" -> {"authorization", "x-tenant", ":path"}
                                   [] b = "both" -> {"x-tenant"}
                                   [] OTHER -> {}]
MCSet == [b \in MCTarget |-> CASE b = "setting" -> Only("authorization", "route")
                                [] b = "both" -> Only("x-tenant", "route")
                                [] OTHER -> Nothing]
MCAuth == [b \in MCTarget |-> CASE b = "keyed" -> Only("authorization", "backend1")
                                 [] b = "pathed" -> [Only("authorization", "backend2") EXCEPT ![":path"] = "backend2"]
                                 [] OTHER -> Nothing]

(* Translators that set the path only, and one that also rewrites a header. *)
SetsPath == [b \in MCTarget |-> [k \in MCKey |-> [v \in MCValue \cup {"absent"} |->
                IF k # ":path" THEN "absent" ELSE IF b = "plain" THEN "backend1" ELSE "route"]]]
Rewrites == [SetsPath EXCEPT !["keyed"]["x-tenant"] =
                [v \in MCValue \cup {"absent"} |-> IF v = "client" THEN "backend1" ELSE "absent"]]

MCInit ==
    /\ part \in Show
    /\ D!DInit /\ (part # "log" => flags = [debug |-> FALSE, redact |-> FALSE])
    /\ P!PInit
    /\ Init
    /\ E!Init /\ (part # "endpoints" => ask = CHOOSE r \in MCRequests : TRUE)
    /\ HeadersInit /\ (part # "headers" => backend = CHOOSE b \in Target : TRUE)
    /\ Cred!CredInit /\ (part # "credentials" => bringing = CHOOSE a \in RequestsCome : TRUE)

(* The bound of either part.                                                *)
Within ==
    IF part = "two" THEN \A r \in Req : envoy'[r].attempt <= 1
    ELSE /\ Cardinality({r \in Req : envoy'[r].pc # "new"}) <= 1
         /\ \A r \in Timeouts : envoy'[r].attempt <= MaxAttempts - 1

OneIsQuiet ==
    /\ part = "race"
    /\ \E r \in Req : stream[r] = "closed" /\ envoy[r].pc = "end"
    /\ \A r \in Req, a \in Attempt : up[r][a].pc \in {"none", "answered", "ended"}
    /\ UNCHANGED vars

Answered == phase = "done" /\ UNCHANGED asking
Logged == step = "done" /\ UNCHANGED logging
Over == tries # <<>> /\ UNCHANGED wanting
CredEnds == used = 3 /\ UNCHANGED signing

MCNext ==
    \/ part \in {"two", "race"} /\ ((Next /\ Within) \/ OneIsQuiet)
         /\ UNCHANGED <<part, asking, logging, wanting, headersVars, signing>>
    \/ part = "endpoints" /\ (E!Next \/ Answered) /\ UNCHANGED <<part, vars, logging, wanting, headersVars, signing>>
    \/ part = "log" /\ (D!DNext \/ Logged) /\ UNCHANGED <<part, vars, asking, wanting, headersVars, signing>>
    \/ part = "params" /\ (P!PNext \/ Over) /\ UNCHANGED <<part, vars, asking, logging, headersVars, signing>>
    \/ part = "headers" /\ HeadersNext /\ UNCHANGED <<part, vars, asking, logging, wanting, signing>>
    \/ part = "credentials" /\ (Cred!CredNext \/ CredEnds) /\ UNCHANGED <<part, vars, asking, logging, wanting, headersVars>>

MCSpec == MCInit /\ [][MCNext]_<<vars, part, asking, logging, wanting, headersVars, signing>>

(***************************************************************************)
(* The properties of Endpoints.                                             *)
(***************************************************************************)

\* Whatever API the backend has, it is asked what the client meant: the model, the
\* mode, the content, and what that API demands (the RequestBody methods); and a
\* retry sends what a first attempt at its backend would have sent
\* (forceBodyMutation and applyBodyMutation in ProcessRequestHeaders).
BackendAskedAsMeant == part = "endpoints" => E!BackendAskedAsMeant /\ E!SentLikeFirst

\* Whatever API the backend has, the client is told in its own, and what is
\* recorded is what the backend reports (ResponseBody and ResponseError).
ToldInItsApi == part = "endpoints" => E!ToldInItsApi

\* The debug log disturbs no request, response or mutation it shows, and replaces
\* the credentials and, with redaction on, the content that it is to replace: not
\* the headers of responses, thinking blocks, refusals, audio and video URLs, nor
\* what only counts tokens (RedactSensitiveInfoFromRequest, RedactBody,
\* RedactAnthropicBody, redactHeaderMutation and its callers).
DebugLogIsACopy == part = "log" => D!DebugLogIsACopy

\* The schemas of a request keep their meaning when they are converted for the Gemini
\* models that take only some keywords (jsonSchemaToGemini).
SchemaKeepsItsMeaning == part = "params" /\ tries = <<>> => P!SchemaKeepsItsMeaning

\* The client gets an answer of the kind and length it asked for, from a model that
\* can be asked for it (openAIReqToGeminiGenerationConfig, buildAnthropicParams,
\* extractTextAndThoughtSummaryFromGeminiParts), and its tools can be called with all
\* the arguments it allows.
AnswerFitsTheAsk == part = "params" => P!AnswerFitsTheAsk

\* Every attempt uses the credential that the request brought for its backend, or
\* else the policy's if it may, and reaches the backend with nothing of an earlier
\* attempt, with a signature of what is sent, and with the changes of the route
\* before those of the backend (resolveCredentialOverride, HeaderMutator.Mutate,
\* credentialOverrideHandler.Do, signWith).
SentAsMeant == part = "credentials" => Cred!SentAsMeant
=============================================================================
