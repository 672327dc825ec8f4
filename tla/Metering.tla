------------------------------ MODULE Metering ------------------------------
(***************************************************************************)
(* What a request costs and what is measured of it.  The controller writes *)
(* the costs of the gateway, of its routes and of quota policies into the  *)
(* filter configuration (controller/gateway.go); the external processor    *)
(* adds up the usage a response reports, records it, and gives Envoy the   *)
(* costs as dynamic metadata, which rate limits and access logs read       *)
(* (extproc/processor_impl.go, metrics/metrics_impl.go, llmcostcel).       *)
(*                                                                         *)
(* An expression adds and subtracts kinds of tokens and a number: that is  *)
(* where an unsigned subtraction may fail.  Usage, metadata and headers    *)
(* are functions on what is present.                                       *)
(***************************************************************************)
EXTENDS Naturals, SequencesExt, FiniteSetsExt, TLC

CONSTANTS
    Specs,       \* [defaults, routes, quotas]: costs the objects may define
    Backends,    \* by name: [short, provider, override, replaces, length, headers]
    Routes,
    Model,       \* the model the client asks for
    LogHeaders,  \* LogRequestHeaderAttributes: attribute by header
    Reports,     \* the usage that one message of a response may report
    MaxChunks, MaxTime, MaxTries  \* bounds

VARIABLES
    loaded,   \* the configuration the processor runs, with its objects
    req,      \* the request: [route, stream, config]
    attempt,  \* its attempt: [backend, headers, start, usage, first, out, itl]
    meta,     \* dynamic metadata that Envoy has for the request
    reports,  \* history: the reports of this attempt
    books,    \* what was recorded of the request
    tries,
    clock,
    end       \* "before" the request, "open", "ok" or "failed"

Refused == [refused |-> TRUE]
Nothing == <<>>

-----------------------------------------------------------------------------
(* llmcostcel.  The arguments are the six kinds of usage (and names, which  *)
(* these expressions do not look at).                                       *)

Of(usage, kind) == IF kind \in DOMAIN usage THEN usage[kind] ELSE 0

SumOf(usage, kinds) == MapThenSumSet(LAMBDA k : Of(usage, k), kinds)

Overflow == [overflow |-> TRUE]
Amount(n) == [amount |-> n]

EvaluateProgram(expr, usage) ==
  LET plus == SumOf(usage, expr.add)
      minus == SumOf(usage, expr.sub) + expr.less IN
  IF minus > plus THEN Overflow ELSE Amount(plus - minus)

(* A program is tried on a request that used nothing.                       *)
NewProgram(expr) == IF EvaluateProgram(expr, Nothing) = Overflow THEN Refused ELSE expr

-----------------------------------------------------------------------------
(* The costs in the filter configuration; an expression that does not       *)
(* compile, or is missing, fails the reconcile.                             *)

validateCELExpression(cost) == IF cost.cel = Nothing THEN Refused ELSE NewProgram(cost.cel[1])

Scoped(cost, route) ==
  [key |-> cost.key, type |-> cost.type, cel |-> cost.cel, route |-> route, backend |-> "", model |-> ""]
Valid(cost) == cost.type # "CEL" \/ validateCELExpression(cost) # Refused

aigwGlobalLLMRequestCostToFilterAPI(cost) == IF Valid(cost) THEN Scoped(cost, "") ELSE Refused
aigwLLMRequestCostToFilterAPI(cost, route) == IF Valid(cost) THEN Scoped(cost, route) ELSE Refused

(* Mutant: the first definition of a key is kept.                           *)
FirstOfKeys(costs) ==
  SelectSeq(costs, LAMBDA c : \E i \in DOMAIN costs : c = costs[i] /\ \A j \in 1..(i - 1) : costs[j].key # c.key)

(* dedup: the last definition of a key.                                     *)
LastOfKeys(costs) ==
  SelectSeq(costs, LAMBDA c : \E i \in DOMAIN costs :
                                c = costs[i] /\ \A j \in (i + 1)..Len(costs) : costs[j].key # c.key)

(* A route's costs: those of quota policies, unless the expression fails,   *)
(* then its own.                                                            *)
OfRoute(spec, route) ==
  SelectSeq(spec.quotas, LAMBDA c : c.route = route /\ NewProgram(c.cel[1]) # Refused)
  \o LastOfKeys([i \in DOMAIN spec.routes[route] |-> aigwLLMRequestCostToFilterAPI(spec.routes[route][i], route)])

(* reconcileFilterConfigSecret, as far as costs go.                         *)
FilterConfig(spec) ==
  IF \E cost \in {spec.defaults[i] : i \in DOMAIN spec.defaults}
              \cup UNION {{spec.routes[r][i] : i \in DOMAIN spec.routes[r]} : r \in Routes} : ~Valid(cost)
  THEN Refused
  ELSE [global |-> [i \in DOMAIN spec.defaults |-> aigwGlobalLLMRequestCostToFilterAPI(spec.defaults[i])],
        costs |-> FlattenSeq([i \in DOMAIN SetToSeq(Routes) |-> OfRoute(spec, SetToSeq(Routes)[i])]), spec |-> spec]

(* The costs of NewRuntimeConfig: programs compile once more, and a cost of *)
(* a route names it.                                                        *)
NewRuntimeConfig(config) ==
  IF config = Refused THEN Refused
  ELSE IF \/ \E cost \in Range(config.costs) : cost.route = ""
          \/ \E cost \in Range(config.costs) \cup Range(config.global) :
               cost.cel # Nothing /\ NewProgram(cost.cel[1]) = Refused
  THEN Refused ELSE config

-----------------------------------------------------------------------------
(* The cost of a usage.                                                     *)

evalCost(cost, usage) ==
  CASE cost.type = "InputToken" -> Amount(Of(usage, "in"))
    [] cost.type = "CachedInputToken" -> Amount(Of(usage, "cached"))
    [] cost.type = "CacheCreationInputToken" -> Amount(Of(usage, "created"))
    [] cost.type = "OutputToken" -> Amount(Of(usage, "out"))
    [] cost.type = "TotalToken" -> Amount(Of(usage, "total"))
    [] cost.type = "ReasoningToken" -> Amount(Of(usage, "reasoning"))
    [] cost.type = "CEL" -> EvaluateProgram(cost.cel[1], usage)

evalRuntimeRequestCost(cost, usage) == evalCost(cost, usage)
evalRuntimeGlobalRequestCost(cost, usage) == evalCost(cost, usage)

ModelHeader == "x-ai-eg-model"

Applies(cost) ==
  /\ cost.backend \in {"", Backends[attempt.backend].short}
  /\ cost.route = req.route
  /\ cost.model \in {"", attempt.headers[ModelHeader]}

(* The last of the costs for each key.                                      *)
Emitted(costs, values) ==
  [key \in {costs[i].key : i \in DOMAIN costs} |->
     values[CHOOSE i \in DOMAIN costs : costs[i].key = key /\ \A j \in DOMAIN costs : costs[j].key = key => j <= i]]

(* Refused stands for the error of a cost that overflows.  The model that a *)
(* response names is left out.                                              *)
buildDynamicMetadata(config, usage) ==
  LET mine == SelectSeq(config.costs, Applies)
      keys == {mine[i].key : i \in DOMAIN mine}
      others == SelectSeq(config.global, LAMBDA c : c.key \notin keys)
      own == [i \in DOMAIN mine |-> evalRuntimeRequestCost(mine[i], usage)]
      rest == [i \in DOMAIN others |-> evalRuntimeGlobalRequestCost(others[i], usage)] IN
  IF Overflow \in Range(own) \cup Range(rest) THEN Refused
  ELSE Emitted(mine, own) @@ Emitted(others, rest)
       @@ ("model_name_override" :> attempt.headers[ModelHeader])
       @@ ("ai_service_backend_name" :> Backends[attempt.backend].short)
       @@ ("route_name" :> req.route)

(* The metadata of the request phase, which stays when the request is       *)
(* tried again.                                                             *)
buildBackendDynamicMetadata(name) == "backend_name" :> name
buildContentLengthDynamicMetadataOnRequest(length) == "content_length" :> length
buildRequestHeaderDynamicMetadata(headers) ==
  LET present == {h \in DOMAIN LogHeaders : h \in DOMAIN headers} IN
  [a \in {LogHeaders[h] : h \in present} |-> headers[CHOOSE h \in present : LogHeaders[h] = a]]
mergeDynamicMetadata(base, extra) == extra @@ base

-----------------------------------------------------------------------------
(* metrics                                                                  *)

Override(usage, report) == report @@ usage

NewMetrics == [first |-> Nothing, out |-> 0, itl |-> Nothing]

(* SetBackend, SetOriginalModel, SetRequestModel.                           *)
buildBaseAttributes ==
  [provider |-> Backends[attempt.backend].provider, original |-> Model, request |-> attempt.headers[ModelHeader]]

(* The first message gives the time to the first token; the end gives the   *)
(* time since then and the tokens it is divided by.                         *)
RecordTokenLatency(a, tokens, eos) ==
  LET out == Max({a.out, tokens}) IN
  IF a.first = Nothing THEN [a EXCEPT !.first = <<clock - a.start>>]
  ELSE [a EXCEPT !.out = out,
                 !.itl = IF eos /\ out > 1 THEN <<clock - a.start - a.first[1], out - 1>> ELSE @]

mergeWithTokenLatencyMetadata(metadata, a) ==
  ("token_latency_ttft" :> a.first) @@ ("token_latency_itl" :> a.itl) @@ metadata

RecordTokenUsage(b, usage) == [b EXCEPT !.usage = Append(@, [usage |-> usage, by |-> buildBaseAttributes])]
RecordRequestCompletion(b, success) ==
  [b EXCEPT !.completions = Append(@, [success |-> success, by |-> buildBaseAttributes])]

-----------------------------------------------------------------------------
MeterInit ==
  /\ \E spec \in Specs : loaded = NewRuntimeConfig(FilterConfig(spec)) /\ loaded # Refused
  /\ req = Nothing /\ attempt = Nothing /\ meta = Nothing /\ reports = <<>>
  /\ books = [usage |-> <<>>, completions |-> <<>>]
  /\ tries = 0 /\ clock = 0 /\ end = "before"

(* The objects change; a configuration with an error leaves the former one. *)
LoadConfig(spec) ==
  LET config == NewRuntimeConfig(FilterConfig(spec)) IN
  /\ loaded' = IF config = Refused THEN loaded ELSE config
  /\ UNCHANGED <<req, attempt, meta, reports, books, tries, clock, end>>

(* A request keeps the configuration it begins with.                        *)
Begin(route, stream) ==
  /\ end = "before" /\ end' = "open"
  /\ req' = [route |-> route, stream |-> stream, config |-> loaded]
  /\ UNCHANGED <<loaded, attempt, meta, reports, books, tries, clock>>

(* SetBackend and ProcessRequestHeaders, first or when Envoy tries again,   *)
(* which it does before any of the response's body.                         *)
Attempt(b) ==
  LET backend == Backends[b]
      headers == (ModelHeader :> IF backend.override = "" THEN Model ELSE backend.override) @@ backend.headers
      length == IF backend.replaces \/ tries > 0
                THEN buildContentLengthDynamicMetadataOnRequest(backend.length) ELSE Nothing IN
  /\ end = "open" /\ reports = <<>> /\ tries < MaxTries
  /\ tries' = tries + 1
  /\ attempt' = NewMetrics @@ [backend |-> b, headers |-> headers, start |-> clock, usage |-> Nothing]
  /\ meta' = mergeDynamicMetadata(meta, mergeDynamicMetadata(
               mergeDynamicMetadata(length, buildBackendDynamicMetadata(b)),
               buildRequestHeaderDynamicMetadata(headers)))
  /\ UNCHANGED <<loaded, req, reports, books, clock, end>>

(* A response that is bad, or that cannot be translated.                    *)
Fail ==
  /\ end = "open" /\ tries > 0
  /\ end' = "failed" /\ books' = RecordRequestCompletion(books, FALSE)
  /\ UNCHANGED <<loaded, req, attempt, meta, reports, tries, clock>>

(* ProcessResponseBody of a good response; one that is not streamed comes   *)
(* as one message.                                                          *)
ProcessResponseBody(report, eos) ==
  LET usage == Override(attempt.usage, report)
      counted == [attempt EXCEPT !.usage = usage]
      timed == IF req.stream THEN RecordTokenLatency(counted, Of(usage, "out"), eos) ELSE counted
      recorded == IF eos THEN RecordTokenUsage(books, usage) ELSE books
      priced == eos /\ (req.config.global # <<>> \/ req.config.costs # <<>>)
      costs == buildDynamicMetadata(req.config, usage)
      failed == priced /\ costs = Refused
      told == IF req.stream THEN mergeWithTokenLatencyMetadata(costs, timed) ELSE costs IN
  /\ end = "open" /\ tries > 0 /\ Len(reports) < MaxChunks
  /\ req.stream \/ eos
  /\ reports' = Append(reports, [usage |-> report, at |-> clock])
  /\ attempt' = timed
  /\ books' = IF eos THEN RecordRequestCompletion(recorded, ~failed) ELSE recorded
  /\ meta' = IF priced /\ ~failed THEN mergeDynamicMetadata(meta, told) ELSE meta
  /\ end' = IF failed THEN "failed" ELSE IF eos THEN "ok" ELSE "open"
  /\ UNCHANGED <<loaded, req, tries, clock>>

Tick == end = "open" /\ clock < MaxTime /\ clock' = clock + 1
        /\ UNCHANGED <<loaded, req, attempt, meta, reports, books, tries, end>>

(* What a translator reports is cumulative.                                 *)
Said(kind) ==
  LET those == {i \in DOMAIN reports : kind \in DOMAIN reports[i].usage} IN
  IF those = {} THEN 0 ELSE reports[Max(those)].usage[kind]
Cumulative(report) == "out" \in DOMAIN report => report["out"] >= Said("out")

MeterNext ==
  \/ \E spec \in Specs : LoadConfig(spec)
  \/ \E route \in Routes, stream \in BOOLEAN : Begin(route, stream)
  \/ \E b \in DOMAIN Backends : Attempt(b)
  \/ Fail \/ Tick
  \/ \E report \in Reports, eos \in BOOLEAN : Cumulative(report) /\ ProcessResponseBody(report, eos)

-----------------------------------------------------------------------------
(* What a request should cost, from the objects and from what was reported. *)

Kind == [InputToken |-> "in", CachedInputToken |-> "cached", CacheCreationInputToken |-> "created",
         OutputToken |-> "out", TotalToken |-> "total", ReasoningToken |-> "reasoning"]
Terms(cost) == IF cost.type = "CEL" THEN cost.cel[1] ELSE [add |-> {Kind[cost.type]}, sub |-> {}, less |-> 0]
Plus(cost) == MapThenSumSet(Said, Terms(cost).add)
Minus(cost) == MapThenSumSet(Said, Terms(cost).sub) + Terms(cost).less

(* The definition of a key that holds: the route's last, else that of a     *)
(* quota for the backend and the model that served, else the gateway's.     *)
ServedModel == IF Backends[attempt.backend].override # "" THEN Backends[attempt.backend].override ELSE Model

InForce(key) ==
  LET spec == req.config.spec
      own == SelectSeq(spec.routes[req.route], LAMBDA c : c.key = key)
      quota == SelectSeq(spec.quotas, LAMBDA c :
                 /\ c.key = key /\ c.route = req.route /\ c.cel[1].less = 0
                 /\ c.backend = Backends[attempt.backend].short /\ c.model = ServedModel)
      default == SelectSeq(spec.defaults, LAMBDA c : c.key = key)
      all == default \o quota \o own IN
  IF all = <<>> THEN {} ELSE {all[Len(all)]}

Keys == {c.key : c \in UNION {Range(s.defaults) \cup Range(s.quotas) \cup UNION {Range(s.routes[r]) : r \in Routes} :
                                 s \in Specs}}
Costs == UNION {InForce(key) : key \in Keys}
Overdrawn == \E cost \in Costs : Minus(cost) > Plus(cost)

Meant == [provider |-> Backends[attempt.backend].provider, original |-> Model, request |-> ServedModel]
Final == [kind \in UNION {DOMAIN reports[i].usage : i \in DOMAIN reports} |-> Said(kind)]

(* The metadata that prices the request, and nothing else of a cost.        *)
Priced ==
  /\ \A key \in Keys : key \in DOMAIN meta <=> InForce(key) # {}
  /\ \A cost \in Costs : meta[cost.key].amount + Minus(cost) = Plus(cost)
  /\ Costs # {} => /\ meta["model_name_override"] = ServedModel /\ meta["route_name"] = req.route
                   /\ meta["ai_service_backend_name"] = Backends[attempt.backend].short
                   /\ req.stream => meta["token_latency_ttft"] = <<reports[1].at - attempt.start>>
                   /\ req.stream => meta["token_latency_itl"] =
                        IF Len(reports) > 1 /\ Said("out") > 1
                        THEN <<reports[Len(reports)].at - reports[1].at, Said("out") - 1>> ELSE Nothing

(* The metadata of the attempt that is being made, not of a former one.     *)
OfThisAttempt ==
  /\ meta["backend_name"] = attempt.backend
  /\ IF tries > 1 \/ Backends[attempt.backend].replaces
     THEN meta["content_length"] = Backends[attempt.backend].length ELSE "content_length" \notin DOMAIN meta
  /\ \A h \in DOMAIN LogHeaders \cap DOMAIN attempt.headers : meta[LogHeaders[h]] = attempt.headers[h]

(* A response that ends well is charged by the objects its request began    *)
(* with, for the backend that answered and for the last counts it reported, *)
(* and recorded once, with those counts; one that fails, be it because a    *)
(* cost would be negative, is charged nothing (reconcileFilterConfigSecret, *)
(* buildDynamicMetadata, ProcessResponseBody, RecordTokenLatency).          *)
MetersAreTrue ==
  /\ tries > 0 => OfThisAttempt
  /\ end = "ok" => /\ Priced
                   /\ books = [usage |-> <<[usage |-> Final, by |-> Meant]>>,
                               completions |-> <<[success |-> TRUE, by |-> Meant]>>]
  /\ end # "ok" => Keys \cap DOMAIN meta = {}
  /\ end = "failed" => /\ books.completions = <<[success |-> FALSE, by |-> Meant]>>
                       /\ books.usage # <<>> => Overdrawn /\ books.usage = <<[usage |-> Final, by |-> Meant]>>
=============================================================================
