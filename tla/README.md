# Verification of the Envoy AI Gateway

TLA+ models of the Envoy AI Gateway, translated from its Go code, with TLC
configurations that check them on small instances and TLAPS proofs of the
properties that matter most. `PROJECT.json` maps every definition to the lines
it models, and lists the runs, the mutants that show that each property can
fail, the hazards and the findings.

## The system

A change of a resource runs through the controllers (`internal/controller`) to
the Gateway controller, which writes the filter configuration into Secrets and
rolls out the pods of the gateway with the external processor in them. Envoy
Gateway translates the generated routes and passes them through the extension
server (`internal/extensionserver`), which points Envoy at the processor, at
the MCP proxy and at the rate limit service. The processor (`internal/extproc`)
loads the configuration from its volume. Envoy calls it twice for a request:
once at the router filter, and once at the upstream filter for every attempt,
where the request is translated to the API of its backend
(`internal/translator`), its headers and body are mutated, and it is
authenticated. The response takes the way back, piece by piece when it is
streamed, and is measured and priced. The MCP proxy (`internal/mcpproxy`), in
the same process, fans requests out to the MCP servers behind a route.

| Part | Module | What is hard about it |
| --- | --- | --- |
| Filter configuration | `ConfigDelivery`, `ConfigBundle` | parts and index are written, synced and read one by one; processes restart |
| Propagation between controllers | `Propagation` | bounded channels, queues, caches that are behind, finalizers, failures |
| Gateway rollout | `GatewayRollout` | decisions on lists that are out of date, pods replaced meanwhile |
| Credential rotation | `Rotation` | expiry against retries, conflicts and stale reads |
| MCP route resources | `MCPResources` | a long sequence of calls, any of which may fail |
| Quotas | `QuotaDescriptors`, `Quota` | two programs must name a bucket alike; late start |
| Extension server | `XdsModify` | its input may be older than what it reads itself |
| Streams and attempts of a request | `ExtProc` | handlers of one request on several goroutines, retries, timeouts |
| Headers over retries | `RetryHeaders` | what one attempt changed is still there in the next |
| Credentials, mutations | `Credentials` | the same, for credentials that come with the request |
| Endpoints and translators | `Translators`, `Endpoints` | a parsed request shared by attempts in different formats |
| Conversations | `ToBackendChats`, `AnthropicChats`, `Conversations` | what one backend said is shown to another in its own form |
| Parameters and schemas | `ChatParameters`, `JSONSchemas` | a subset of keywords must keep the meaning |
| Streamed responses | `StreamClients`, `ToAnthropicStreams`, `ToOpenAIStreams`, `Streams` | events cut and lost anywhere |
| Event framing | `Framing` | bytes cut anywhere |
| Costs and metrics | `Metering` | the configuration changes while a request is served |
| Debug log | `DebugLog` | redacted copies of structures that stay in use |
| MCP fan-out and streams | `MCPFanout`, `MCPToolSignal` | goroutines, a bounded channel, partial failure, resumption |
| MCP sessions | `MCPSession`, `MCPAuthorization` | sessions that outlive configurations and seeds |

`MC*` modules give the constants their values and put parts together in one run,
`*_proofs` modules and `MCPResources_calls` hold the theorems and lemmas. Parts that
a run puts together with `EXTENDS` (`GatewayRollout`, `Rotation` and `MCPResources`
in `MCKeeping`, `MCPFanout` and `MCPToolSignal` in `MCMCP`, `ExtProc` and
`RetryHeaders` in `MCExtProc`) have names of their own for variables and actions, so
that the run checks the definition that the theorem states.

## Modules

Variables keep the names of the fields, channels and objects they stand for, and
actions and operators the names of the functions. Where an operator ends in a
comment `mutant`, it is the body of a plausible bug that a property must catch.

**ConfigBundle.** `version` and `writing` belong to the controller, `secretParts`
and `secretIndex` to the API server, `volParts`, `volIndex` and `volMtime` to the
kubelet, the rest to the watcher; `published` is history. Each Secret write,
each refresh of a file, each `stat` and each read is an action. The checksum is
taken to tell payloads apart; `PrefixFree` follows from the UUID that ends every
payload. `ConfigDelivery`, the abstract specification, is refined with
`running <- Running`.

**ExtProc.** `rp` and `up` are the fields of the router and upstream processors
that control depends on, `envoy` is what Envoy does with a request (external),
`acct` what metrics, span and costs have recorded. Handlers are atomic per
message, as one goroutine serves a stream; streams interleave. A failing handler
ends its stream, and Envoy replies by itself through the response path.
`Timeouts` is the set of requests whose attempts Envoy may give up while the
upstream filter still works on them.

**RetryHeaders, Credentials.** `request` (`headers`) is what Envoy holds,
`original` what the router filter kept. An attempt applies the translator, the
mutation and the credentials in the order of the code. `Credentials` also builds
the handlers from policies as `controller/gateway.go` does.

**Translators, Endpoints.** A body is its format, the fields that translators
touch and one value for its content. `Endpoints` follows one request over its
attempts; `rp` holds the parsed request that they share.

**ToBackendChats, AnthropicChats, Conversations.** Messages are sequences of
items; words are numbers, each said once, so that anything lost, repeated or
moved shows. `Conversations` lets a client talk to changing backends and compares
what each gets with what was said.

**ChatParameters, JSONSchemas.** A schema is a document; what it accepts on a
small set of instances is compared before and after the conversion. The model of
a backend is the set of identifiers that its name contains, as the code tests for
them.

**Streams and its helpers.** A provider says a message of blocks; the events it
sends are cut into calls anywhere and may be lost. A translator is the record of
what outlives a call. `StreamClients` says what a client understands. `Framing`
does the same for bytes and events.

**Metering.** The objects that define costs change while a response is served;
`Metering` follows them into the configuration, through the evaluation and into
dynamic metadata and metrics.

**DebugLog.** Structures are graphs of cells, as Go lays them out, so that a
redaction that writes into a shared cell is seen.

**MCPFanout, MCPToolSignal.** `worker[b]` is the goroutine of a backend; `wg`,
`channel`, `closed` are the Go objects; `log`, `answer` and `responses` are
history; `kind` chooses between the three ways to consume the channel. In
`MCPToolSignal` `notify` counts the channels made so far and `watched` is the
one a stream waits on.

**MCPSession, MCPAuthorization.** The proxy keeps no session, so the state is the
session ID, the backends' sessions, the seeds and the configuration. Texts that
the proxy puts together and takes apart are sequences of their parts.

**Propagation.** One object of each of ten kinds with its cache, queue and
finalizer; `config` records the versions the written configuration was made from.

**GatewayRollout.** `api` and `seen` are the routes and the GatewayConfig in the
API server and in the cache, `dep` the workload with its annotated hash, `pods`
the replicas; `job` is the reconcile with what it has read so far. The webhook,
the workload's controller and evictions are actions of their own.

**Rotation.** `credential` is the Secret, `cached` what the controller's cache has of
it, `work` the reconcile, `wake` the time of the requeue, and `served` the expiry of
the credential that the gateway was told of.

**MCPResources.** `spec` and `seenSpec` are the MCP routes in the API server and in
the cache, `made` and `seenMade` the objects generated from them; `task` is the
reconcile with the calls that it has still to make, in the order of `syncMCPRoute`.

**Quota, XdsModify.** Each reconcile is a sequence of actions, one for each call;
what it reads comes from a cache where the code reads from one.

## Runs

A run whose module has several parts shows one of them in each behaviour: `part`
is chosen in the initial state, and the variables of the others do not change.

| Run | Shows |
| --- | --- |
| `requests` | Two requests with one `x-request-id`, and requests of three attempts with failures, local replies and, for some, abandoned attempts: the map of processors is exact, requests do not mix, retries carry their own body, a response meets its attempt, and the accounts agree with what happened. Requests to every endpoint and backend: each backend is asked what was meant in its own API (`BackendAskedAsMeant`), and the client is told in its own (`ToldInItsApi`). The debug log never changes what is logged and replaces what it is to replace (`DebugLogIsACopy`). Schemas keep their meaning, and the answer fits what was asked for (`AnswerFitsTheAsk`). Headers and credentials of a retry are those of a first attempt (`RetryIsLikeFirst`, `SentAsMeant`). |
| `streams` | The client can follow the stream (`WellFormed`), gets all of it (`MessageIsDelivered`), and usage is what the provider reported (`UsageIsTrue`); parsers find the same events however the bytes are cut (`EventsAreWhole`); costs and metrics are those of the objects the request began with (`MetersAreTrue`); every backend gets the whole conversation and what a model said comes back to it (`RequestIsTheConversation`, `SaidIsHeard`). |
| `delivery` | Four configurations, one too large and one refused by the receiver, with failing writes and a restart: what is loaded is whole and was published (`LoadedWhole`), a bundle that is skipped is the one that runs (`SkipsOnlyWhatItRuns`), the delivery implements `ConfigDelivery` (`Delivers`) and the last configuration is reached for good (`Converges`). The rate limit service has the limits in force (`SnapshotIsCurrent`); with the policies of the last translation, every bucket that is checked has a limit (`ChecksAreLimited`), and requests are charged where they were checked, at a cost a policy states (`ChargesMeetChecks`). |
| `propagation` | When all is quiet the written configuration is that of the objects (`RestIsSettled`), and it gets quiet (`Converges`). |
| `mcp` | Lists are complete, the channel is closed once and in time (`FanoutIsWhole`), streams resume where they stopped (`ResumePoint`), clients that are told of a change list it, sessions and names lead back to their backend (`SessionsKept`), challenges lead to access, and every wait ends (`WaitsEnd`). |
| `keeping` | A gateway always has a valid credential and the next rotation is scheduled (`CredentialsKept`); the resources of MCP routes are those asked for (`ResourcesAsAsked`); pods have the processor when a route needs it (`PodsServeRoutes`) and rollouts end (`EveryRolloutEnds`). Requests run the filters their route needs and endpoints end up with the right names (`RequestsRunTheirFilters`, `NamesSettle`). |

A property that is false of some inputs says so: a conjunct of its own names the
exception (`lost` in `Propagation`; `LostInCall`, `Unannounced`, `TextAfterCall` in
`Streams`; `Knows`, `torn` in `Framing`; `PassesOverInstructions`, `CountedOtherwise`
in `Conversations`; `MeetAtASpace`, `Arrives` in `ChatParameters`; `Content` in
`DebugLog`; `UpToDate`, `Plain` in `Quota`), and the inputs include it. They are listed
below, or are the subject of one of the six runs that are expected to be violated:
each states what the repository says and the code does not do, and `findings` quotes
the line.

| Run | The code |
| --- | --- |
| `retry_translation` | lets the restored headers of a retry overwrite what the translator set |
| `propagation_deletion` | removes the finalizer of a route though the deletion could not be announced, so that the configuration keeps the route; and announces the deletion of a BackendSecurityPolicy while it is still there, so that the configuration may keep the policy |
| `quota_clients` | charges rules of type Distinct, and inverted ones, to another bucket than they are checked against |
| `quota_translation` | reconciles the route for a changed QuotaPolicy, which leaves the HTTPRoute as it was, so that Envoy Gateway does not translate again |
| `mcp_lines` | splits an event whose CRLF is cut between two reads of the MCP proxy |
| `stream_text` | sends the text of a Bedrock stream without the start of its block to an Anthropic client |

## Bounds

Every bound is a constant of a module, given its value in a `.cfg` or in the `MC`
module.

- `delivery`: four versions, so that a bundle grows, shrinks, is refused and is
  rewritten while its parts overlap; parts of two bytes and three slots, so that
  one version does not fit; one restart, which may fall into the middle of a write.
  Two quota policies that meet at a backend, three changes of policies, backends or
  the route.
- `requests`: two requests are enough to mix, three attempts for a retry to follow
  a retry. In the parts about endpoints, the log and parameters a request has two
  attempts. Integers that the code narrows have 4 bits (`Width`), and some do not fit.
  Three attempts at backends that remove, set and authenticate differently.
- `mcp`: two backends, so that one is early and one late, or one fails; two events
  of each, so that one is overtaken; room for two in the channel (200 in the code),
  so that it fills; three loads, so that one falls on each side of `Watch` and of a
  write; one reload, two seeds and one failing call for a session.
- `propagation`: one object of each kind in a chain, room for one event in a
  channel (100 in the code), two changes, a fault and a restart.
- `keeping`: two pods, two changes; a window of two units of time with lifetimes
  below, around and above it, two faults; two MCP routes that share backends;
  two edits of an AIGatewayRoute between translations.
- `streams`: messages of up to three blocks, cut into calls and lost anywhere;
  conversations long enough for a call, its result and an answer.

No run uses symmetry. `CHECK_DEADLOCK FALSE` is given for `propagation` and `keeping`,
where the changes are bounded and the controllers rest after the last one; elsewhere
a stuttering action says when the system may stop.

## Fairness

- `ConfigBundle`: weak fairness of the controller (controller-runtime queues a
  failed reconciliation again), of each refresh by the kubelet (it syncs volumes
  periodically) and of the watcher (a ticker drives it); strong fairness of
  `LoadConfig`, as a receiver that can take a configuration is offered it at each
  tick. Failing writes and crashes are not fair, and `SecretWriteFails` does not hit the
  last version of an instance, which stands for the retry that succeeds.
- `MCPFanout`: weak fairness of every goroutine, which the Go scheduler gives.
  That the answer of a backend ends relies on Envoy's timeouts, as a comment in
  `NewMCPProxy` says. `MCPToolSignal`: weak fairness of the loader and the streams.
- `Propagation`: weak fairness of the watches, of each delivery from a channel and
  of each reconcile; faults are bounded, so that the retry succeeds in the end.
- `GatewayRollout`: weak fairness of the watches, of the deletion of finalized
  routes, of the controllers of the workload and of `Reconcile`.
- `XdsModify`: weak fairness of the translation of a change and of a restart, strong
  fairness of the reconcile of the HTTPRoute, which is retried until it meets a
  cache that is up to date. That Envoy Gateway translates again when a call of
  the extension server failed is assumed of that program.

`WaitsEnd` makes an exception for a full channel that nobody empties any more: a
send does not look at the context, so beyond 200 pending events the goroutines
stay.

## Proofs

TLAPS checks the theorems for every value of the constants that satisfies the named
assumptions of the modules and the hypotheses of the theorem. Every invariance
proof has the same shape: the inductive invariant `Inv` holds initially, a lemma for
every action shows that it is preserved, and `Inv` implies the property. TLC checked
each `Inv` on the instance of the run before it was proved.

- `ConfigBundle_proofs`: `TypeCorrect`, `SkipIsSafe`, and `Refinement` of
  `ConfigDelivery`. `Inv` adds that versions only move forward (`OrderInv`), where
  the watcher is among its parts (`PositionInv`), and that what it read is what the
  files hold as long as they are not newer than the time it took (`MtimeInv`),
  which is why files are examined before they are read. `PrefixFree` makes versions
  recognisable by their parts.
- `ExtProc_proofs`: `TypeCorrect`, `RegistryCorrect`, `RequestsKeptApart`,
  `RetriesReplaceBody`, `ResponsesMeetTheirAttempt`, `AccountsTrue`. A request in
  progress has its stream (`StreamInv`) and the attempts that found the router
  processor were counted (`AttemptInv`). The last two theorems are about
  requests whose attempts Envoy does not abandon (those outside `Timeouts`), and
  add `TurnInv`, only the attempt that Envoy waits for touches the router
  processor, and `AccountInv`, what has been recorded at each stage of a request.
- `MCPFanout_proofs`: `TypeCorrect`, `FanoutWhole`, `ResumesWhereItStopped`. `Inv`
  counts the goroutines that have not left the wait group, says what each holds, and
  that results in the channel or taken from it are those of the backends that
  answered. The last theorem assumes that every event has an ID
  (`Unnumbered = FALSE`), and adds `OrderInv`: events of a backend are sent in order
  and the ID that the proxy remembers is that of the last.
- `GatewayRollout_proofs`: `TypeCorrect`, `PodsServe`. Versions of the GatewayConfig
  come in order, and a pod of the present generation was made after the template got
  its hash (`Ordered`); a pod has the processor only if there was a filter
  configuration (`Grounded`). Unless it is to run again, a reconcile has the routes
  that are live, and every pod that it has not listed is as they demand
  (`Reconciling`, `UpToDate`); after the last one the template has the hash of the
  configuration (`Reconciled`).
- `Components_proofs`, about three small components:
  `RetryHeaders`: `HeadersTypeCorrect`, `RetriesLikeFirst`. The latter assumes `Plain`:
  translators set pseudo headers only and there is no tracer; `retry_translation`
  shows what happens otherwise. `ReservedKept` says that headers the mutator ignores
  are only changed by what every attempt sets again.
  `MCPToolSignal`: `SignalTypeCorrect`, `ListsAreFresh`. Routes are stored before the
  channel is closed (`Loading`), and a stream that was woken was woken by a
  configuration that is in force (`Signalled`).
  `Rotation`: `RotationTypeCorrect`, `AlwaysKept`. A timer is set for no later than some
  rotation (`Bounded`), a policy that was notified owns the Secret, so that a cache
  that is behind is followed by another reconcile (`Owned`), the timer about to be set
  is right (`Planned`), and the gateway has the credential of the Secret (`Notified`).
  `RotationAssumption` says that a credential is rotated some time before it expires.
  Both theorems have the hypothesis `~Coincidence`, that the clock does not pass the
  rotation time within `executeRotation`; `Coincidence = TRUE` refutes the property.
- `MCPResources_proofs`: `TypeCorrect`, `AsAsked`. `MCPResources_calls` defines `Inv` and
  proves what the calls of a reconcile are: each one fits the route that is reconciled
  (`Fits`), none reads what an earlier one writes (`Apart`), those of a backend follow
  each other (`Follows`), and every object that the route asks for, or that is left of a
  backend that went, has its call (`Decided`, `Starts`). A property about rest does not
  say what holds in the middle of a reconcile, so `Inv` does: the cache is right where it
  is not behind (`Cached`), a reconcile works with the route of the cache or the route is
  queued again (`Working`), and what a route asks for is there or a call to make it
  is still to come (`Complete`; `Shared` for the Backend of the proxy, with a prompt
  cache). For what is to be removed, while no call fails and the cache is prompt, the
  HTTPRoute of a backend is the sign that there is a filter and the filter the sign that
  there is a credential (`Tied`), which is why orphans that are found by their HTTPRoute
  leave nothing behind; and what a route does not ask for is gone or a call to remove it
  is still to come (`Cleared`). `ResourcesAssumption` asks that sets of backends can be
  put in order (`Ordered`), which is true of finite ones.
- `Propagation_proofs`: `TypeCorrect`, `RestSettled`. `Inv` says which objects may go
  and which linger (`Objects`), how far the cache is behind (`Cached`), what a
  reconcile has in hand at each stage (`Jobs`), and, the heart of it, that the
  configuration is the one the cache calls for or word of the change is on its way to
  the gateway, through whichever queues, channels and reconciles are in between
  (`Configured`); the same for what is generated from a route (`Generated`). The
  hypothesis `Announced` leaves out deletions that the code does not announce:
  of what routes refer to, of policies of pools, and of routes that have no
  finalizer yet. `lost`, in the property, is the announcements that failed since the
  Gateway was last reconciled and whose error the code only logs: while there are
  any, nothing is claimed. `propagation_deletion` shows what happens in both cases.

Only model-checked:

- liveness (`Converges`, `WaitsEnd`, `EveryRolloutEnds`, `NamesSettle`), which is out
  of the prover's reach;
- `LoadedWhole` (in `MCDelivery`), whose step from the parts, which `Refinement`
  covers, to the bytes needs induction over sequences; the stream properties and `MetersAreTrue`,
  which are about folds over sequences; the properties of conversations, schemas,
  parameters and quotas, which are about recursive functions of data;
- `DebugLogIsACopy`, `SentAsMeant`, `BackendAskedAsMeant`, `ToldInItsApi`,
  `RequestsRunTheirFilters`, `SessionsKept` and `ChallengesLead`, which compare what
  is built from sequences of settings with a reference definition of the same kind.

## Where the code and its description part

Besides the six violated runs, the models show the following. A name in brackets is
a property that is defined and would be refuted if a cfg checked it, or a constant
whose other value refutes one.

Controllers

- A route whose finalizer cannot be removed at the first try may stay
  (`DeletionCompletes`); pods keep a processor that no route needs any more
  (`PodsReleased`); MCP resources of backends that left a route stay
  (`NothingLeft`, `mcp_route.go:246`).
- Deletions of BackendSecurityPolicies, Secrets, AIServiceBackends, GatewayConfigs
  and ReferenceGrants, and of a route before its finalizer is set, do not reach the
  filter configuration until something else changes (`EarlyDelete`). Inference pools
  never notify gateways. The `-mcpAddr` flag stays after the last MCP route is gone
  until the next event. A read that fails in announcing the deletion of a route or
  MCP route, or a QuotaPolicy to its routes, is logged and not repeated
  (`controller.go:598`, `quota_policy.go:220`).
- A rotation may happen twice when the cache is behind. If the clock passes the
  rotation time within `executeRotation`, no call is scheduled (`Coincidence`).
- MCP routes that share a Backend, or leave a SecurityPolicy behind, depend on the
  cache being up to date. With several controller replicas the webhook's cache may
  be behind the leader's.
- Route-level mutations take precedence over those of a backend
  (`ai_gateway_route.go:361`), but a route-level removal does not override a
  backend-level setting of the same name.
- After a change of a QuotaPolicy Envoy checks requests against the buckets of the
  policies at the last translation, which the rate limit service may not have any
  more; `ChecksAreLimited` and `ChargesMeetChecks` are claimed once something else
  (an edit of the route's backends, anything Envoy Gateway watches) has led to the next.
- The cost of a model that two QuotaPolicies price comes from the first of an
  unordered list (`CostOfTheFirst`). `MergeDescriptors` does not merge the children
  of a lone first node. A service quota is charged and not checked. The same
  selector at another rule index makes another bucket.

Extension server

- A route index that is behind gives endpoints the wrong names until the next
  translation, and may be out of range in `maybeModifyCluster`. An edit that is undone
  before it is reconciled leaves wrong names (`Reverts`).
- An EDS cluster is named after its first reference, whatever the weight. Endpoint
  picker filters come in the order of a map. A changed `StreamIdleTimeout` is not part
  of the HTTPRoute. `resolveClusterRule` knows names of five parts only. In a cluster
  that mixes TLS and plaintext backends, plaintext egress bypasses the forward proxy.

External processor

- When Envoy abandons an attempt while its handler runs, a response may meet another
  attempt's state; the theorems exclude these requests (`Timeouts`,
  `processor_impl.go:79`). A request whose completion fails may be recorded twice
  (`processor_impl.go:347`). Headers that a tracer adds are lost on a retry
  (`header_mutator.go:95`).
- A retry at an Anthropic backend of AWS lacks the betas that an earlier attempt
  filtered, and gets back the client's value over the filtered one.
- A request whose body no translator replaced is signed for AWS with an empty payload
  (`aws.go:84` states the assumption). Constants where a header is both set by a
  mutation and the input of a credential are left out.
- A cost with an unsigned subtraction below zero fails the end of the response after
  usage was recorded. `filterconfig.go:92` calls an empty route name a wildcard, and
  `NewRuntimeConfig` refuses it. A stream that comes in one message has no
  inter-token latency. Costs are exact up to 2^53.
- With redaction on the log still has count-tokens and input-tokens requests, audio
  and video URLs, the thinking blocks of requests and answers
  (`openai_openai.go:255`), the refusal of an assistant message (`openai.go:641`) and
  the headers of responses (`server.go:331`) as they are. `DebugLogIsACopy` has them
  in its inputs and leaves exactly these fields out of what it says is replaced.

Translators

- Anthropic and Bedrock answers keep their first text only, and the last of several
  thinking blocks. User audio, files and video (Bedrock), refusals (Gemini), and
  documents and images in tool results (Anthropic) are dropped. Gemini puts calls
  before text and has no call IDs.
- `thinking_blocks` of a request are not sent to Anthropic and Bedrock
  (comment at `openai_awsbedrock.go:478`). Redacted content needs a string for
  Anthropic and bytes for Bedrock.
- `tool_choice` "none" becomes a tool named "none" on Claude at Bedrock
  (`NoneForbidsTools`). `response_format` is dropped on Bedrock, and on Claude models
  that are not listed. "high" is refused for Gemini models other than Flash though
  the comment of the helper maps it. On Gemini `thinking` replaces the effort.
- JSON schemas: references below "#/properties/..." or below a property named like a
  skipped key stay unresolved; siblings of `$ref` and `allOf`, `oneOf`, `const` and
  `additionalProperties` are dropped; an enumeration with null but without a nullable
  type loses null; recursive schemas are refused. 64-bit parameters are narrowed to
  32 bits for Gemini: a limit, seed or number of answers that does not fit arrives
  small or negative, and a limit whose low 32 bits are 0 is not sent
  (`gemini_helper.go:750`), so that the answer has none. The parts of an answer are
  trimmed one by one, so that a choice cut at a space loses it
  (`gemini_helper.go:917`); an escaped quote in a match of an expression stays escaped.
- Completions and embeddings have no fallback for the model of a response. Errors of
  completions, count-tokens and messages at AWS are passed on as they are. A body
  that is JSON by its header only ends the stream of a translator that decodes it.
- System messages inside the history of an Anthropic client do not reach an OpenAI
  backend (`openai_helper.go:107`), though they do reach Bedrock and Anthropic
  backends: `PassesOverInstructions`, an exception of `RequestIsTheConversation`.
- The Bedrock token counter refuses developer messages, makes each tool message a turn
  of its own and keeps empty assistant messages, unlike the chat endpoint, though
  `tokenize_awsbedrock.go:45` says that it "counts exactly what the chat path sends":
  `CountedOtherwise`, an exception of `RequestIsTheConversation`.
- Anthropic token counting leaves out tool descriptions and cache marks.

Streams

- Text right after a tool call of an OpenAI provider goes into the block of the call
  (`TextAfterCall`); an empty OpenAI stream gives `message_delta` without a start; a
  Bedrock block without deltas gives a stop without a start, and text without
  `contentBlockStart` a delta without one (`Unannounced`); an Anthropic stream lost
  inside a call sends the call again (`LostInCall`).
- Usage that Bedrock reports in a later call is missing from `message_delta`
  (`UsageInMessageDelta`); a silent `message_delta` overwrites the output count of a
  passed-through stream.
- An MCP event stream with CRLF that is cut between CR and LF splits an event, and
  Gemini drops white space at a cut (`torn`). `processBuffer` knows blank lines of LF
  only (`openai_helper.go:669`), and `extractUsageFromBufferEvent` lines that end in
  LF (`Knows`): with other line ends they find an event late or not at all.

MCP proxy

- A stream resumes after the last event that had an ID (`Unnumbered`,
  `session.go:140`). A list fails when a backend sends another message
  before its response (`ListsSurviveNotifications`), and a change between the load and
  the watch is not told (`NoChangeMissed`, `session.go:256`). A change of the roots does not wait for
  all backends (`handlers.go:1939`). A configuration without its MCP part leaves the
  old routes (`config.go:188`).
- Merged capabilities depend on the order of a map for extensions
  (`session.go:690` claims stability). Request IDs above 2^53 are not exact. A reload
  inside a call mixes two configurations. Rules on path, host or parameters may
  decide differently for listing and calling.

## Not modelled

The watcher of a single configuration file (superseded by bundles), the API schemas
and custom resource types (data without control), tracing, the binaries and the
`aigw` command line (wiring), and the models endpoint (a lookup). Within the modelled
parts, logging, wording, encodings, signatures, CEL evaluation and body mutations of
multipart forms are left out. `PROJECT.json` lists each part with the reason.
