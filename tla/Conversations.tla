---------------------------- MODULE Conversations ----------------------------
(***************************************************************************)
(* A conversation of a client with models behind the gateway, one request   *)
(* after the other, each with the whole conversation so far.  A request may *)
(* go to any backend, and to another one when an attempt fails; the gateway *)
(* translates it, and translates the answer, which the client adds to the   *)
(* conversation.  The client speaks the OpenAI or the Anthropic API, and an *)
(* OpenAI client returns what a model thought as it got it or as parts of   *)
(* the content.  What is said and which tools are called is arbitrary: the  *)
(* words are numbers, each said once.                                       *)
(***************************************************************************)
EXTENDS AnthropicChats, FiniteSets

CONSTANTS Asks,             \* what a user of each API may say: sequences of items without words
          Says,             \* what each backend may answer, likewise, with its stop reason
          MaxAnswers,       \* answers in a conversation
          MaxInstructions,  \* messages of the system or the developer
          MaxAttempts       \* attempts of one request

VARIABLES who,      \* the client's API, and how it returns thinking
          system,   \* the system prompt of the Anthropic API
          history,  \* the messages of the conversation, in the client's format
          phase,    \* "client": the client's turn; "sent": a backend's; "over"
          sent,     \* the last attempt: the backend, the request, and the choice of a tool
          said,     \* the last answer, and who gave it
          heard,    \* the last answer as the client got it
          fresh,    \* the first number that was not used yet
          count     \* the answers, instructions and attempts so far

chat == <<who, system, history, phase, sent, said, heard, fresh, count>>

OpenAIBackends == {"anthropic", "bedrock", "gemini", "openai"}
AnthropicBackends == {"bedrock", "openai"}
BackendsOf(client) == IF client = "openai" THEN OpenAIBackends ELSE AnthropicBackends

(* The n-th item of an utterance gets the n-th number.                      *)
Utter(items, by, f) ==
  [n \in DOMAIN items |->
     [items[n] EXCEPT !.words = <<f + n>>,
                      !.sig = IF @ = 0 THEN 0 ELSE f + n,
                      !.call = IF items[n].type = "call" /\ by # "gemini" THEN f + n ELSE 0]]

NotSent == [to |-> "none", request |-> Request(<<>>, <<>>), choice |-> "unset", picked |-> "unset"]

ConvInit ==
  /\ who \in {w \in [client : {"openai", "anthropic"}, echo : {"fields", "parts"}] :
                w.client = "anthropic" => w.echo = "parts"}
  /\ system \in {<<>>} \cup {<<[Item("text", <<1>>) EXCEPT !.cache = c]>> : c \in IF who.client = "anthropic" THEN BOOLEAN ELSE {}}
  /\ history = <<>> /\ phase = "client"
  /\ sent = NotSent
  /\ said = [by |-> "none", items |-> <<>>, stop |-> "", usage |-> [in |-> 0, out |-> 0, read |-> 0, write |-> 0, thoughts |-> 0]]
  /\ heard = NoReply
  /\ fresh = 1
  /\ count = [answers |-> 0, instructions |-> 0, attempts |-> 0]

(* The calls that have no result yet.                                       *)
CallsOf(m) == IF who.client = "openai" THEN m.calls ELSE Calls(m.content)

Pending ==
  LET made == UNION {{i.call : i \in ToSet(CallsOf(history[n]))} : n \in DOMAIN history}
      given == IF who.client = "openai" THEN {history[n].call : n \in DOMAIN history}
               ELSE UNION {{i.call : i \in ToSet(Of("result", history[n].content))} : n \in DOMAIN history}
  IN made \ given

LastRole == IF history = <<>> THEN "none" ELSE Last(history).role

Extended(items) == [history EXCEPT ![Len(history)].content = @ \o items]

(* The user speaks; an Anthropic client may do so behind tool results in    *)
(* the same message.                                                        *)
Say ==
  /\ phase = "client" /\ Pending = {} /\ count.answers < MaxAnswers
  /\ \E ask \in Asks[who.client] :
       LET items == Utter(ask, "user", fresh)
           string == ask = <<Item("text", <<>>)>>
       IN /\ \/ LastRole # "user" /\ history' = Append(history, Message("user", string, items))
             \/ LastRole = "user" /\ isOnlyToolResult(Last(history)) /\ history' = Extended(items)
          /\ fresh' = fresh + Len(ask)
  /\ UNCHANGED <<who, system, phase, sent, said, heard, count>>

Instruct ==
  /\ phase = "client" /\ Pending = {} /\ count.instructions < MaxInstructions
  /\ \E string \in BOOLEAN :
       LET role == IF who.client = "openai" /\ ~string THEN "developer" ELSE "system"
           items == Utter(<<Item("text", <<>>), [Item("text", <<>>) EXCEPT !.cache = TRUE]>>, "user", fresh)
       IN history' = Append(history, Message(role, string, IF string THEN <<items[1]>> ELSE items))
  /\ fresh' = fresh + 2
  /\ count' = [count EXCEPT !.instructions = @ + 1]
  /\ UNCHANGED <<who, system, phase, sent, said, heard>>

(* A tool has done what it was called for.  An Anthropic client puts the    *)
(* result into the message with the previous one, or into one of its own.   *)
GiveResult(c) ==
  /\ phase = "client" /\ c \in Pending
  /\ IF who.client = "openai"
     THEN history' = Append(history, [Message("tool", TRUE, <<Item("text", <<fresh + 1>>)>>) EXCEPT !.call = c])
     ELSE LET result == [Item("result", <<fresh + 1>>) EXCEPT !.call = c] IN
          \/ history' = Append(history, Message("user", FALSE, <<result>>))
          \/ LastRole = "user" /\ isOnlyToolResult(Last(history)) /\ history' = Extended(<<result>>)
  /\ fresh' = fresh + 1
  /\ UNCHANGED <<who, system, phase, sent, said, heard, count>>

(* An OpenAI message as a turn.                                             *)
AsTurn(m) ==
  Turn(m.role, IF m.role = "tool" THEN <<[Item("result", Words(m.content)) EXCEPT !.call = m.call]>>
               ELSE m.content \o m.calls)

Instructs(m) == m.role \in {"system", "developer"}

(* A request in the OpenAI format.                                          *)
AsRequest(msgs) ==
  LET told == SelectSeq(msgs, Instructs)
      spoken == SelectSeq(msgs, LAMBDA m : ~Instructs(m))
  IN Request(Each([n \in DOMAIN told |-> told[n].content]), [n \in DOMAIN spoken |-> AsTurn(spoken[n])])

RequestFor(b) ==
  CASE who.client = "openai" /\ b = "anthropic" -> openAIToAnthropicMessages(history)
    [] who.client = "openai" /\ b = "bedrock" -> openAIMessageToBedrockMessage(history)
    [] who.client = "openai" /\ b = "gemini" -> openAIMessagesToGeminiContents(history)
    [] who.client = "openai" /\ b = "openai" -> AsRequest(history)
    [] who.client = "anthropic" /\ b = "bedrock" -> AnthropicToConverse(system, history)
    [] who.client = "anthropic" /\ b = "openai" -> AsRequest(anthropicMessagesToOpenAI(system, history))

ToolChoices(client) == {"unset", "auto", "none", "a name"} \cup IF client = "openai" THEN {"required"} ELSE {"any"}

Picked(b, choice, claude) ==
  CASE who.client = "openai" /\ b = "anthropic" -> translateAnthropicToolChoice(choice)
    [] who.client = "openai" /\ b = "bedrock" -> openAIToolsToBedrockToolConfig(choice, claude)
    [] who.client = "openai" /\ b = "gemini" -> openAIToolChoiceToGeminiToolConfig(choice)
    [] who.client = "anthropic" /\ b = "bedrock" -> convertTools(choice)
    [] who.client = "anthropic" /\ b = "openai" -> anthropicToolChoiceToOpenAI(choice)
    [] OTHER -> choice

(* The first attempt of a request, or a further one at any backend.  A      *)
(* request that cannot be translated is answered by the gateway.  Only the  *)
(* first request chooses a tool.                                            *)
Send(b, choice) ==
  /\ \/ phase = "client" /\ Pending = {} /\ LastRole \in {"user", "tool"} /\ count.answers < MaxAnswers
     \/ phase = "sent" /\ count.attempts < MaxAttempts /\ choice = sent.choice
  /\ count.answers > 0 => choice = "unset"
  /\ \E request \in {RequestFor(b)} :
       /\ \E claude \in BOOLEAN :
            sent' = [to |-> b, request |-> request, choice |-> choice, picked |-> Picked(b, choice, claude)]
       /\ phase' = IF request.ok THEN "sent" ELSE "over"
  /\ count' = [count EXCEPT !.attempts = IF phase = "client" THEN 1 ELSE @ + 1]
  /\ UNCHANGED <<who, system, history, said, heard, fresh>>

(* What an OpenAI backend answers, as it stands.                            *)
OpenAIAnswer(a) ==
  LET usage == [in |-> a.usage.in, out |-> a.usage.out]
      thought == Of("thinking", a.items)
  IN Reply(Words(Of("text", a.items)), Calls(a.items), [n \in DOMAIN thought |-> [thought[n] EXCEPT !.sig = 0]],
           SelectSeq(thought, LAMBDA i : i.sig # 0), a.stop, usage, usage)

Told(a) ==
  CASE who.client = "openai" /\ a.by = "anthropic" -> messageToChatCompletion(a)
    [] who.client = "openai" /\ a.by = "bedrock" -> ConverseToChatCompletion(a)
    [] who.client = "openai" /\ a.by = "gemini" -> geminiCandidatesToOpenAIChoices(a, fresh + Len(a.items) + 1)
    [] who.client = "openai" /\ a.by = "openai" -> OpenAIAnswer(a)
    [] who.client = "anthropic" /\ a.by = "bedrock" -> ConverseToAnthropic(a)
    [] who.client = "anthropic" /\ a.by = "openai" -> openAIResponseToAnthropic(OpenAIAnswer(a))

(* The message the client makes of an answer.  A client that returns        *)
(* thinking in the content sends what is redacted in base64, which is read  *)
(* as bytes.                                                                *)
Echo(r) ==
  IF who.client = "anthropic" THEN Message("assistant", FALSE, r.items)
  ELSE LET thought == IF r.blocks # <<>> THEN r.blocks ELSE r.reasoning
           m == IF who.echo = "parts" /\ thought # <<>>
                THEN Message("assistant", FALSE, thought \o StringMessage("assistant", r.words).content)
                ELSE [StringMessage("assistant", r.words) EXCEPT !.blocks = r.blocks]
       IN [m EXCEPT !.calls = r.calls]

Answer ==
  /\ phase = "sent"
  /\ \E s \in Says[sent.to] :
       \E a \in {[by |-> sent.to, items |-> Utter(s.items, sent.to, fresh), stop |-> s.stop, usage |-> s.usage]} :
         \E r \in {Told(a)} :
           /\ said' = a /\ heard' = r
           /\ history' = IF r.ok THEN Append(history, Echo(r)) ELSE history
           /\ phase' = IF r.ok THEN "client" ELSE "over"
           /\ fresh' = fresh + 2 * Len(s.items)
  /\ sent' = NotSent
  /\ count' = [count EXCEPT !.answers = @ + 1, !.attempts = 0]
  /\ UNCHANGED <<who, system>>

ConvNext ==
  \/ Say
  \/ Instruct
  \/ \E c \in Pending : GiveResult(c)
  \/ \E b \in BackendsOf(who.client), choice \in ToolChoices(who.client) : Send(b, choice)
  \/ Answer

ConvSpec == ConvInit /\ [][ConvNext]_chat

(***************************************************************************)
(* Properties.                                                              *)
(***************************************************************************)

(* The conversation as runs of one side: what it said, the functions it     *)
(* called and the results it gave.  Turns that say nothing are no turns.    *)
Side(role) == IF role \in {"assistant", "model"} THEN "model" ELSE "user"

Heeded(items, ignored) == SelectSeq(items, LAMBDA i : i.type \notin ignored \cup {"thinking", "redacted", "cachePoint"})

Runs(turns, ignored) ==
  FoldLeft(LAMBDA runs, t :
             LET items == Heeded(t.items, ignored) IN
             CASE items = <<>> -> runs
               [] items # <<>> /\ runs # <<>> /\ Last(runs).role = Side(t.role) ->
                    [runs EXCEPT ![Len(runs)].items = @ \o items]
               [] OTHER -> Append(runs, Turn(Side(t.role), items)),
           <<>>, turns)

(* Gemini's requests have no identifiers of calls.                          *)
Ids(items, anonymous) ==
  [n \in DOMAIN items |-> <<IF anonymous THEN 0 ELSE items[n].call, items[n].words>>]

Gist(run, anonymous) ==
  [role |-> run.role,
   words |-> Words(SelectSeq(run.items, LAMBDA i : i.type \notin {"call", "result"})),
   calls |-> Ids(Calls(run.items), anonymous),
   results |-> Ids(Of("result", run.items), anonymous)]

Gists(turns, ignored, anonymous) ==
  LET runs == Runs(turns, ignored) IN [n \in DOMAIN runs |-> Gist(runs[n], anonymous)]

(* The kinds of content that a translator leaves out.                       *)
LeftOut(client, b) ==
  CASE client = "openai" /\ b = "bedrock" -> {"audio", "file"}
    [] client = "anthropic" -> {"document"}
    [] OTHER -> {}

Spoken ==
  LET msgs == SelectSeq(history, LAMBDA m : ~Instructs(m)) IN
  [n \in DOMAIN msgs |-> IF who.client = "openai" THEN AsTurn(msgs[n]) ELSE Turn(msgs[n].role, msgs[n].content)]

Instructions ==
  LET msgs == SelectSeq(history, LAMBDA m : Instructs(m)) IN
  Words(system) \o Words(Each([n \in DOMAIN msgs |-> msgs[n].content]))

(* anthropicMessagesToOpenAI passes over the messages of the system that an *)
(* Anthropic client has in its history; for Bedrock they are promoted.      *)
PassesOverInstructions == who.client = "anthropic" /\ sent.to = "openai"

\* The model is asked what the client asked.  Whatever backend a request goes to,
\* and to whichever it goes after an attempt failed, the backend gets the whole
\* conversation: the words, calls and results of each side in their order, none
\* twice, each on its side; the instructions in theirs; and the choice of a tool
\* in the backend's words, except "none" for Bedrock, which has none.  Missing is only
\* content the translator has no form for and, at an OpenAI backend, instructions that
\* an Anthropic client gave in a message rather than in the system prompt: these are
\* lost (openAIToAnthropicMessages, openAIMessageToBedrockMessage,
\* openAIMessagesToGeminiContents, promoteAnthropicSystemMessagesToParam,
\* anthropicMessagesToOpenAI).
RequestIsTheConversation ==
  phase = "sent" =>
    LET anonymous == sent.to = "gemini" IN
    /\ Gists(sent.request.turns, {}, anonymous) = Gists(Spoken, LeftOut(who.client, sent.to), anonymous)
    /\ Words(sent.request.system) = IF PassesOverInstructions THEN Words(system) ELSE Instructions
    /\ \/ sent.picked = sent.choice
       \/ {sent.picked, sent.choice} = {"any", "required"}
       \/ sent.to = "bedrock" /\ sent.choice = "none"

(* Which call the k-th result of a run answers: by its identifier, or, for  *)
(* Gemini, any of the calls of the function it names.                       *)
Answers(results, k, calls, j) ==
  IF sent.to = "gemini" THEN results[k].name = calls[j].name ELSE results[k].call = calls[j].call

OnlyResults(t) == t.items # <<>> /\ \A n \in DOMAIN t.items : t.items[n].type = "result"

\* Each result is given where its call is looked for: right behind the turn that
\* called, before anything else that is said; each call has one result and each
\* result a call; and the results that come alone come in one turn; although the client may give the results of parallel calls in
\* any order (the aggregation of tool messages in openAIToAnthropicMessages and
\* openAIMessageToBedrockMessage, appendAnthropicUserMessage, isOnlyToolResult,
\* knownToolCalls).
ResultsMeetTheirCalls ==
  phase = "sent" =>
    LET runs == Runs(sent.request.turns, {}) IN
    \A n \in DOMAIN runs :
      LET results == Of("result", runs[n].items)
          calls == IF n = 1 THEN <<>> ELSE Calls(runs[n - 1].items)
      IN /\ Len(results) = Len(calls)
         /\ \A k \in DOMAIN results :
              runs[n].items[k].type = "result" /\ \E j \in DOMAIN calls : Answers(results, k, calls, j)
         /\ \A j \in DOMAIN calls : \E k \in DOMAIN results : Answers(results, k, calls, j)
         /\ sent.to # "openai" =>
              \A t \in 1..Len(sent.request.turns) - 1 :
                ~(OnlyResults(sent.request.turns[t]) /\ OnlyResults(sent.request.turns[t + 1]))

Signatures(items) == {items[n].sig : n \in DOMAIN items} \ {0}

(* The calls whose arguments are JSON; of others nothing may be left.       *)
Whole(items) == SelectSeq(items, LAMBDA i : i.form # "cut" /\ i.words # <<>>)

(* The last turn of the model in the request.                               *)
OwnTurn ==
  LET turns == SelectSeq(sent.request.turns, LAMBDA t : Side(t.role) = "model") IN
  IF turns = <<>> THEN <<>> ELSE Last(turns).items

\* A model that is asked again finds its own words: the text, the calls with
\* their arguments and identifiers, and what it signed when it thought, if the
\* client returned it; the answer was translated for the client and back, by two
\* translators that share no code (messageToChatCompletion,
\* ConverseToChatCompletion, geminiCandidatesToOpenAIChoices, Echo, and the
\* request's translations).
ModelHearsItself ==
  (phase = "sent" /\ said.by = sent.to) =>
    LET gemini == sent.to = "gemini"
        returned == who.client = "anthropic" \/ who.echo = "parts"
        calls == Calls(OwnTurn)
    IN /\ Words(Of("text", OwnTurn)) = Words(Of("text", said.items))
       /\ Ids(Whole(calls), gemini) = Ids(Whole(Calls(said.items)), gemini)
       /\ ~gemini /\ returned => Signatures(said.items) \subseteq Signatures(OwnTurn)
       /\ gemini /\ calls # <<>> =>
            calls[1].sig = IF Signatures(said.items) = {} THEN DummySignature
                           ELSE CHOOSE s \in Signatures(said.items) : TRUE

(* The finish reason that tells the client what the stop reason told.       *)
Finish(stop, calls) ==
  CASE stop \in {"max_tokens", "MAX_TOKENS", "length"} -> {"length", "max_tokens"}
    [] calls # <<>> -> {"tool_calls", "tool_use"}
    [] OTHER -> {"stop", "end_turn"}

HeardItems == IF who.client = "anthropic" THEN heard.items ELSE Append(heard.calls, Item("text", heard.words))

\* The client hears what the model said: its text, each of its calls, under
\* identifiers that no other call of the conversation has, and whether to run
\* tools; and it is told the tokens it is charged, cached ones included (the
\* ResponseBody methods, extractToolCallsFromGeminiParts, the finish reasons,
\* ExtractTokenUsageFromExplicitCaching).
ReplyIsWhatWasSaid ==
  (phase = "client" /\ heard.ok /\ LastRole = "assistant") =>
    LET calls == Calls(HeardItems)
        ids == {calls[n].call : n \in DOMAIN calls}
        u == said.usage
    IN /\ Words(Of("text", HeardItems)) = Words(Of("text", said.items))
       /\ Ids(Whole(calls), TRUE) = Ids(Whole(Calls(said.items)), TRUE)
       /\ Cardinality(ids) = Len(calls) /\ ids \subseteq Pending
       /\ heard.finish \in Finish(said.stop, calls)
       /\ heard.charged = [in |-> u.in + u.read + u.write, out |-> u.out + u.thoughts]
       /\ heard.usage.out = heard.charged.out
       /\ heard.charged.in = IF "read" \in DOMAIN heard.usage
                             THEN heard.usage.in + heard.usage.read + heard.usage.write ELSE heard.usage.in

\* "none means the model will not call any tool" (openai.go): a request that
\* forbids tools makes no backend call one.
NoneForbidsTools ==
  phase = "sent" /\ sent.choice = "none" => sent.picked \in {"none", "unset"}

(* The messages that are counted differently from how they are sent: those   *)
(* of developers are refused, results of tools are not aggregated, and an   *)
(* assistant's message with nothing to send is counted as a turn.           *)
CountedOtherwise ==
  \/ \E n \in DOMAIN history : history[n].role = "developer"
  \/ \E n \in 2..Len(history) : history[n].role = "tool" /\ history[n - 1].role = "tool"
  \/ \E n \in DOMAIN history : history[n].role = "assistant" /\ AsTurn(history[n]).items = <<>>

\* What is counted is what would be sent (tokenizeToBedrockCountTokens): the number
\* of tokens of a conversation is that of the request a chat would make of it, unless
\* the conversation has messages that the two treat differently (CountedOtherwise).
CountsWhatChatSends ==
  phase = "sent" /\ who.client = "openai" /\ sent.to = "bedrock" /\ ~CountedOtherwise =>
    tokenizeToBedrockCountTokens(history) = sent.request
=============================================================================
