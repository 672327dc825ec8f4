------------------------------ MODULE MCStreams ------------------------------
(***************************************************************************)
(* Instances of Streams, Framing, Metering and Conversations, which are     *)
(* parts of their own: a behaviour shows how a stream is cut into events,   *)
(* or how the events are translated, or how a response is measured and      *)
(* priced, or a conversation, each of whose requests is translated for the  *)
(* backend it goes to; the variables of the others do not change.           *)
(***************************************************************************)
EXTENDS Streams

CONSTANTS
  Show,    \* which of them are shown
  Inputs

VARIABLES part, stream, pos, buf, delim, got, eof, torn,
          loaded, req, attempt, meta, reports, books, tries, clock, end,
          who, prompt, history, turn, sending, answer, heard, fresh, counts

cutting == <<stream, pos, buf, delim, got, eof, torn>>
metering == <<loaded, req, attempt, meta, reports, books, tries, clock, end>>
talking == <<who, prompt, history, turn, sending, answer, heard, fresh, counts>>

Cutting == INSTANCE Framing

(* Costs by kind and by expression: one that would be negative for a        *)
(* request that used nothing, one that is so when there is more cached than *)
(* put in, keys that the route defines twice, and quotas of a backend.      *)
Expr(add, sub, less) == <<[add |-> add, sub |-> sub, less |-> less]>>
Cost(key, type, cel) == [key |-> key, type |-> type, cel |-> cel]
Uncached == Cost("cost", "CEL", Expr({"in", "out"}, {"cached"}, 0))
Quota(route, backend, model, cel) ==
  [key |-> "quota_cost", type |-> "CEL", cel |-> cel, route |-> route, backend |-> backend, model |-> model]

Priced ==
  { [defaults |-> <<>>, routes |-> [r1 |-> <<>>, r2 |-> <<>>], quotas |-> <<>>],
    [defaults |-> <<Cost("cost", "OutputToken", <<>>), Cost("total", "TotalToken", <<>>)>>,
     routes |-> [r1 |-> <<Cost("cost", "InputToken", <<>>), Cost("thought", "ReasoningToken", <<>>), Uncached>>,
                 r2 |-> <<Cost("created", "CacheCreationInputToken", <<>>)>>],
     quotas |-> <<Quota("r1", "ns/b1", "m1", Expr({"total"}, {}, 0)), Quota("r1", "ns/b1", "m", Expr({"out"}, {}, 0)),
                  Quota("r2", "ns/b2", "m", Expr({"in"}, {"cached"}, 0)), Quota("r2", "ns/b1", "m1", Expr({"in"}, {}, 1))>>],
    [defaults |-> <<Uncached>>,
     routes |-> [r1 |-> <<Cost("total", "CEL", Expr({"total"}, {}, 1))>>, r2 |-> <<>>], quotas |-> <<>>],
    [defaults |-> <<Cost("cached", "CachedInputToken", <<>>)>>,
     routes |-> [r1 |-> <<Cost("total", "CEL", <<>>)>>, r2 |-> <<>>], quotas |-> <<>>] }

Served ==
  [b1 |-> [short |-> "ns/b1", provider |-> "openai", override |-> "m1", replaces |-> FALSE, length |-> 10,
           headers |-> "x-team" :> "client"],
   b2 |-> [short |-> "ns/b2", provider |-> "anthropic", override |-> "", replaces |-> TRUE, length |-> 20,
           headers |-> "x-team" :> "route"]]

Reported == {<<>>, [in |-> 3, cached |-> 1, out |-> 1], [out |-> 3, total |-> 6, reasoning |-> 2],
           [cached |-> 5, created |-> 1]}

Metered == INSTANCE Metering WITH
           Specs <- Priced, Backends <- Served, Routes <- {"r1", "r2"}, Model <- "m",
           LogHeaders <- "x-team" :> "team", Reports <- Reported, MaxChunks <- 3, MaxTime <- 2, MaxTries <- 2

(* What users and models say: text, an image, content of a kind that some   *)
(* backends do not take; thinking, signed or redacted; two calls, of one    *)
(* function or of two; arguments that are cut off.                          *)
Content(type) == [type |-> type, words |-> <<>>, sig |-> 0, call |-> 0, name |-> "", cache |-> FALSE, form |-> ""]
Plain == Content("text")
Cached == [Plain EXCEPT !.cache = TRUE]
Image == [Content("image") EXCEPT !.form = "png"]
Calling(f) == [Content("call") EXCEPT !.name = f]
Signed(i) == [i EXCEPT !.sig = 1]

UsersSay ==
  [c \in {"openai", "anthropic"} |->
     {IF c = "openai" THEN <<Plain, Content("file")>> ELSE <<Content("document"), Plain>>, <<Cached, Image>>}]

Answers(items, stop) ==
  [items |-> items, stop |-> stop, usage |-> [in |-> 3, out |-> 5, read |-> 0, write |-> 0, thoughts |-> 0]]
AnswersCached(items, stop) == [Answers(items, stop) EXCEPT !.usage.read = 2, !.usage.write = 1]

ClaudeSays ==
  { AnswersCached(<<Plain>>, "end_turn"),
    AnswersCached(<<Signed(Content("thinking")), Plain, Calling("f"), Calling("f")>>, "tool_use"),
    Answers(<<Calling("f"), Calling("g")>>, "tool_use"),
    Answers(<<[Content("redacted") EXCEPT !.form = "bytes"], Plain>>, "end_turn"),
    Answers(<<Signed(Content("thinking"))>>, "max_tokens") }

ModelsSay ==
  [anthropic |-> ClaudeSays,
   bedrock |-> ClaudeSays,
   gemini |-> { [Answers(<<Content("thinking"), Signed(Plain)>>, "STOP") EXCEPT !.usage.thoughts = 2],
                Answers(<<Content("thinking"), Plain, Signed(Calling("f")), Calling("g")>>, "STOP"),
                Answers(<<Calling("f"), Calling("f")>>, "STOP") },
   openai |-> { Answers(<<Plain>>, "stop"),
                Answers(<<Content("thinking"), Plain, Calling("f"), Calling("g")>>, "tool_calls"),
                Answers(<<Signed(Content("thinking")), Plain>>, "stop"),
                Answers(<<Plain, [Calling("f") EXCEPT !.form = "cut"]>>, "length") }]

Chat == INSTANCE Conversations WITH
          Asks <- UsersSay, Says <- ModelsSay, MaxAnswers <- 2, MaxInstructions <- 1,
          MaxAttempts <- 2, system <- prompt, phase <- turn, sent <- sending, said <- answer,
          count <- counts

MCInit ==
  /\ part \in Show
  /\ Init /\ (part # "translation" => path = <<"openai", "openai">>)
  /\ Cutting!Init /\ (part # "framing" => stream = CHOOSE i \in Inputs : TRUE)
  /\ Metered!MeterInit /\ (part # "costs" => loaded.global = <<>>)
  /\ Chat!ConvInit /\ (part # "chat" => who = [client |-> "openai", echo |-> "parts"])

(* A conversation is over, or long enough.                                  *)
ChatEnds == turn # "sent" /\ (turn = "client" => counts.answers = 2) /\ UNCHANGED talking

MCNext ==
  \/ part = "translation" /\ Next /\ UNCHANGED <<part, cutting, metering, talking>>
  \/ part = "framing" /\ Cutting!Next /\ UNCHANGED <<part, vars, metering, talking>>
  \/ part = "costs" /\ Metered!MeterNext /\ UNCHANGED <<part, vars, cutting, talking>>
  \/ part = "chat" /\ (Chat!ConvNext \/ ChatEnds) /\ UNCHANGED <<part, vars, cutting, metering>>

MCSpec == MCInit /\ [][MCNext]_<<part, vars, cutting, metering, talking>>

\* However the bytes of a stream arrive, the readers make the events of the whole
\* stream of them, each as soon as it is complete (EventsAreWhole of Framing: sse.go,
\* processBuffer, extractUsageFromBufferEvent, parseGCPStreamingChunks).
EventsAreWhole == part = "framing" => Cutting!EventsAreWhole

\* The MCP proxy takes CR, LF and CRLF alike, wherever a read ends
\* (LineEndsAreHandled of Framing: "handling the different line terminations: CR,
\* LF, CRLF", sse.go:38).
LineEndsAreHandled == part = "framing" => Cutting!LineEndsAreHandled

\* A response that ends well is charged by the objects its request began with, for
\* the backend that answered and for the last counts it reported, and recorded once;
\* one that fails is charged nothing (reconcileFilterConfigSecret,
\* buildDynamicMetadata, ProcessResponseBody, RecordTokenLatency).
MetersAreTrue == part = "costs" => Metered!MetersAreTrue

\* The client of a translated stream gets what the backend said, in its order,
\* and is told the end the backend gave it (Delivered and EndsAsSaid of Streams:
\* the handlers of the stream translators).
MessageIsDelivered == Delivered /\ EndsAsSaid

(***************************************************************************)
(* The properties of Conversations.                                         *)
(***************************************************************************)

\* Whatever backend a request goes to, it gets the whole conversation: the words,
\* calls and results of each side in their order, the instructions (except those an
\* Anthropic client gives an OpenAI backend in a message, which are lost), and the
\* choice of a tool (openAIToAnthropicMessages, openAIMessageToBedrockMessage,
\* openAIMessagesToGeminiContents, anthropicMessagesToOpenAI, and the others).
\* Each result of a tool is given right behind the turn that called it, and each
\* call has one (the aggregation of tool messages in the same functions).  And the
\* tokens that are counted for Bedrock are those of the request a chat would make
\* (tokenizeToBedrockCountTokens), except for the messages it treats differently.
RequestIsTheConversation ==
  part = "chat" => Chat!RequestIsTheConversation /\ Chat!ResultsMeetTheirCalls /\ Chat!CountsWhatChatSends

\* The client hears what the model said, and is told what it is charged
\* (messageToChatCompletion, geminiCandidatesToOpenAIChoices, the ResponseBody
\* methods for Bedrock, openAIResponseToAnthropic); and the model, asked again,
\* finds its own words, calls and signatures (the translations of its answer and
\* back).
SaidIsHeard == part = "chat" => Chat!ReplyIsWhatWasSaid /\ Chat!ModelHearsItself

(***************************************************************************)
(* Streams.                                                                 *)
(***************************************************************************)
AllPaths ==
  {<<"anthropic", "openai">>, <<"anthropic", "bedrock">>, <<"openai", "anthropic">>,
   <<"openai", "bedrock">>, <<"openai", "gemini">>, <<"openai", "openai">>,
   <<"anthropic", "anthropic">>}

\* The content of a stream that is passed on does not matter.
Few(p) == p[1] = p[2]

Blocks == [p \in AllPaths |-> IF Few(p) THEN 1 ELSE IF p = <<"openai", "anthropic">> THEN 2 ELSE 3]

PartsPerPath ==
  [p \in AllPaths |-> IF Few(p) THEN 1 ELSE IF p[2] \in {"anthropic", "bedrock"} THEN 2 ELSE 3]

Raw(input, read, write, output) ==
  [input |-> input, read |-> read, write |-> write, output |-> output]

Starts == {Raw(1, 2, 4, 0)}

\* What the end of a message may report, with and without cache counts.
Stops == {Raw(2, Unset, 5, 3), Raw(1, 3, Unset, 1)}

\* A second message_delta: it corrects counts, or says nothing of them.
Repeats == Raw(Unset, 4, Unset, 4)

Silent == Raw(Unset, Unset, Unset, Unset)

\* The parser for OpenAI clients meets silent ones, too.
Lates ==
  [p \in AllPaths |-> IF p = <<"openai", "anthropic">> THEN {Repeats, Silent} ELSE {Repeats}]

(***************************************************************************)
(* Texts: two events, the first with an id for the MCP proxy, in a given    *)
(* style of line break.                                                     *)
(***************************************************************************)
Break == [LF |-> <<"LF">>, CR |-> <<"CR">>, CRLF |-> <<"CR", "LF">>]

Text(style, id, first, second) ==
  LET nl == Break[style]
      data(c) == <<"da", "ta:", "SP", "{">> \o c \o <<"}">> \o nl
  IN  (IF id THEN <<"id:", "7">> \o nl ELSE <<>>)
        \o data(first) \o nl \o data(second) \o nl

Input(reads, style, first) ==
  [reader |-> reads, text |-> Text(style, reads = "mcp", first, <<"c">>)]

Spaced == <<"a", "SP", "b">>

Framed == {Input(reads, style, Spaced) : reads \in {"mcp", "blocks", "lines", "gemini"}, style \in DOMAIN Break}

=============================================================================
