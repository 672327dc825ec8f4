------------------------------ MODULE ExtProc ------------------------------
(***************************************************************************)
(* The external processor serving Envoy (server.go, processor_impl.go).    *)
(* For every request Envoy opens one stream at the router filter, which    *)
(* sees the request, and later the response; and one stream at the         *)
(* upstream filter for each attempt to reach a backend, which only sees    *)
(* the request headers.  Every stream has its own goroutine.  An attempt   *)
(* finds the router processor of its request in a map keyed by an internal *)
(* request ID, and leaves itself there as the processor of the response.   *)
(*                                                                         *)
(* Envoy's side (routing, retries, timeouts, local replies, clients that   *)
(* go away) is modelled from how the code relies on it.                    *)
(***************************************************************************)
EXTENDS Naturals, Sequences

CONSTANTS
    Req,         \* requests
    XRequestID,  \* XRequestID[r]: the x-request-id header, not always unique
    Backend,
    Unsupported, \* backends with a schema the endpoint has no translator for
    Config,      \* the configurations loaded one after the other
    MaxAttempts, \* bound on the attempts of a request
    Timeouts,    \* requests on whose attempts Envoy may give up while the
                 \* upstream filter is still working on them
    None

ASSUME ExtProcAssumption ==
    /\ Unsupported \subseteq Backend
    /\ MaxAttempts \in Nat /\ MaxAttempts > 0
    /\ Timeouts \subseteq Req
    /\ None \notin Req /\ None \notin Req \X (1..MaxAttempts)
    /\ Config \in Seq([backends : SUBSET Backend, costs : BOOLEAN])
    /\ Config # <<>>

Attempt == 1..MaxAttempts

VARIABLES
    config,            \* Server.config, as an index of Config
    routerProcessors,  \* Server.routerProcessorsPerReqID
    stream,            \* the stream at the router filter
    rp,                \* routerProcessor, by request
    up,                \* upstreamProcessor, by request and attempt
    envoy,             \* what Envoy is doing with the request
    acct               \* what has been recorded about the request

vars == <<config, routerProcessors, stream, rp, up, envoy, acct>>

(* internalReqID: the request ID and a UUID, which the request stands for. *)
InternalReqID(r) == <<XRequestID[r], r>>

NewRouterProcessor ==
    [config |-> 0, streaming |-> FALSE, force |-> FALSE, usage |-> FALSE,
     filter |-> None, count |-> 0, localReply |-> FALSE]

NewUpstreamProcessor == [pc |-> "none", backend |-> None, parent |-> None,
                         sent |-> FALSE, replaced |-> FALSE]

Init ==
    /\ config = 1
    /\ routerProcessors = [id \in {InternalReqID(r) : r \in Req} |-> None]
    /\ stream = [r \in Req |-> "none"]
    /\ rp = [r \in Req |-> NewRouterProcessor]
    /\ up = [r \in Req |-> [a \in Attempt |-> NewUpstreamProcessor]]
    /\ envoy = [r \in Req |-> [pc |-> "new", attempt |-> 0, from |-> 0, status |-> "bad", chunked |-> FALSE]]
    /\ acct = [r \in Req |-> [ok |-> 0, fail |-> 0, usage |-> 0, spans |-> 0, ends |-> 0,
                              first |-> FALSE, charged |-> FALSE, served |-> FALSE]]

-----------------------------------------------------------------------------
(* Server.LoadConfig.                                                      *)
LoadConfig ==
    /\ config + 1 \in DOMAIN Config
    /\ config' = config + 1
    /\ UNCHANGED <<routerProcessors, stream, rp, up, envoy, acct>>

-----------------------------------------------------------------------------
(* The stream at the router filter, up to the routing decision.            *)

(* Mutant: an exit that forgets the map.                                   *)
CloseStreamLeaks(r) ==
    /\ stream' = [stream EXCEPT ![r] = "closed"]
    /\ envoy' = [envoy EXCEPT ![r].pc = "end"]
    /\ UNCHANGED routerProcessors

(* Process: whatever ends the stream, its router processor is forgotten.   *)
CloseStream(r) ==
    /\ stream' = [stream EXCEPT ![r] = "closed"]
    /\ routerProcessors' = [routerProcessors EXCEPT ![InternalReqID(r)] = None]
    /\ envoy' = [envoy EXCEPT ![r].pc = "end"]

RouterHeaders(r) ==
    /\ envoy[r].pc = "new"
    /\ stream' = [stream EXCEPT ![r] = "open"]
    /\ routerProcessors' = [routerProcessors EXCEPT ![InternalReqID(r)] = r]
    /\ rp' = [rp EXCEPT ![r].config = config]
    /\ envoy' = [envoy EXCEPT ![r].pc = "body"]
    /\ UNCHANGED <<config, up, acct>>

(* No processor for the path: a 404, and the stream is over.               *)
UnsupportedPath(r) ==
    /\ envoy[r].pc = "new"
    /\ CloseStream(r)
    /\ UNCHANGED <<config, rp, up, acct>>

(* routerProcessor.ProcessRequestBody.  A streaming request that does not  *)
(* ask for its token usage is rewritten when costs are configured.         *)
RouterBody(r, streaming, asked) ==
    LET force == Config[rp[r].config].costs /\ streaming /\ ~asked IN
    /\ envoy[r].pc = "body"
    /\ rp' = [rp EXCEPT ![r].streaming = streaming, ![r].force = force,
                        ![r].usage = ~streaming \/ asked \/ force]
    /\ acct' = [acct EXCEPT ![r].spans = @ + 1]
    /\ envoy' = [envoy EXCEPT ![r].pc = "route"]
    /\ UNCHANGED <<config, routerProcessors, stream, up>>

(* The body is malformed: a 400 right away.                                *)
RouterBodyRejected(r) ==
    /\ envoy[r].pc = "body"
    /\ envoy' = [envoy EXCEPT ![r].pc = "end"]
    /\ UNCHANGED <<config, routerProcessors, stream, rp, up, acct>>

RouterBodyFails(r) ==
    /\ envoy[r].pc = "body"
    /\ CloseStream(r)
    /\ UNCHANGED <<config, rp, up, acct>>

(* Envoy closes the stream: the request is done, or its client is gone.    *)
StreamEnds(r) ==
    /\ stream[r] = "open"
    /\ CloseStream(r)
    /\ UNCHANGED <<config, rp, up, acct>>

-----------------------------------------------------------------------------
(* Envoy (external): routes, attempts and replies of its own.              *)

(* A reply that does not come from a backend takes the response path too.  *)
LocalReply(r) == [envoy EXCEPT ![r].pc = "respond", ![r].from = 0, ![r].status = "bad"]

NoRoute(r) ==
    /\ envoy[r].pc = "route"
    /\ envoy' = LocalReply(r)
    /\ UNCHANGED <<config, routerProcessors, stream, rp, up, acct>>

NewAttempt(r, b) ==
    LET a == envoy[r].attempt + 1 IN
    /\ envoy[r].pc \in {"route", "retry"}
    /\ up' = [up EXCEPT ![r][a] = [@ EXCEPT !.pc = "headers", !.backend = b]]
    /\ envoy' = [envoy EXCEPT ![r].pc = "upstream", ![r].attempt = a]
    /\ UNCHANGED <<config, routerProcessors, stream, rp, acct>>

(* A backend fails in a way that is retried; or is out of retries.         *)
BackendFails(r) ==
    /\ envoy[r].pc = "sent"
    /\ envoy' = IF envoy[r].attempt < MaxAttempts
                THEN [envoy EXCEPT ![r].pc = "retry"]
                ELSE LocalReply(r)
    /\ UNCHANGED <<config, routerProcessors, stream, rp, up, acct>>

BackendResponds(r, status) ==
    /\ envoy[r].pc = "sent"
    /\ envoy' = [envoy EXCEPT ![r].pc = "respond", ![r].from = envoy[r].attempt, ![r].status = status]
    /\ UNCHANGED <<config, routerProcessors, stream, rp, up, acct>>

(* Envoy gives up on an attempt the external processor still works on, and *)
(* tries again (a per-try timeout, a connection that fails), or replies    *)
(* (the message timeout of the filter).                                    *)
PerTryTimeout(r) ==
    /\ r \in Timeouts
    /\ envoy[r].pc = "upstream"
    /\ envoy[r].attempt < MaxAttempts
    /\ envoy' = [envoy EXCEPT ![r].pc = "retry"]
    /\ UNCHANGED <<config, routerProcessors, stream, rp, up, acct>>

MessageTimeout(r) ==
    /\ r \in Timeouts
    /\ envoy[r].pc = "upstream"
    /\ envoy' = LocalReply(r)
    /\ UNCHANGED <<config, routerProcessors, stream, rp, up, acct>>

-----------------------------------------------------------------------------
(* The stream of an attempt at the upstream filter.                        *)

(* Envoy still waits for this attempt.                                     *)
Awaited(r, a) == envoy[r].pc = "upstream" /\ envoy[r].attempt = a

(* The stream ends with an error; Envoy replies with a 500 of its own.     *)
AttemptFails(r, a) ==
    /\ up' = [up EXCEPT ![r][a] = [@ EXCEPT !.pc = "ended"]]
    /\ envoy' = IF Awaited(r, a) THEN LocalReply(r) ELSE envoy

(* Server.setBackend finds no such backend in the configuration that is    *)
(* current by now, or no router processor, its stream having ended.        *)
SetBackendFindsNothing(r, a) ==
    /\ up[r][a].pc = "headers"
    /\ \/ up[r][a].backend \notin Config[config].backends
       \/ routerProcessors[InternalReqID(r)] = None
    /\ AttemptFails(r, a)
    /\ UNCHANGED <<config, routerProcessors, stream, rp, acct>>

(* upstreamProcessor.SetBackend, when there is no translator ...           *)
SetBackendFails(r, a) ==
    LET q == routerProcessors[InternalReqID(r)] IN
    /\ up[r][a].pc = "headers"
    /\ up[r][a].backend \in Config[config].backends \cap Unsupported
    /\ q # None
    /\ rp' = [rp EXCEPT ![q].count = @ + 1]
    /\ acct' = [acct EXCEPT ![q].fail = @ + 1]
    /\ AttemptFails(r, a)
    /\ UNCHANGED <<config, routerProcessors, stream>>

(* Mutant: the router processor is looked up by the x-request-id.          *)
SetBackendByRequestID(r, a) ==
    \E q \in {s \in Req : XRequestID[s] = XRequestID[r] /\ routerProcessors[InternalReqID(s)] = s} :
        /\ up[r][a].pc = "headers"
        /\ up[r][a].backend \in Config[config].backends \ Unsupported
        /\ rp' = [rp EXCEPT ![q].count = @ + 1, ![q].filter = <<r, a>>]
        /\ up' = [up EXCEPT ![r][a] = [@ EXCEPT !.pc = "bound", !.parent = q]]
        /\ UNCHANGED <<config, routerProcessors, stream, envoy, acct>>

(* Mutant: the first attempt stays the processor of the response.          *)
SetBackendOnce(r, a) ==
    LET q == routerProcessors[InternalReqID(r)] IN
    /\ up[r][a].pc = "headers"
    /\ up[r][a].backend \in Config[config].backends \ Unsupported
    /\ q # None
    /\ rp' = [rp EXCEPT ![q].count = @ + 1, ![q].filter = IF @ = None THEN <<r, a>> ELSE @]
    /\ up' = [up EXCEPT ![r][a] = [@ EXCEPT !.pc = "bound", !.parent = q]]
    /\ UNCHANGED <<config, routerProcessors, stream, envoy, acct>>

(* ... and when there is one.                                              *)
SetBackend(r, a) ==
    LET q == routerProcessors[InternalReqID(r)] IN
    /\ up[r][a].pc = "headers"
    /\ up[r][a].backend \in Config[config].backends \ Unsupported
    /\ q # None
    /\ rp' = [rp EXCEPT ![q].count = @ + 1, ![q].filter = <<r, a>>]
    /\ up' = [up EXCEPT ![r][a] = [@ EXCEPT !.pc = "bound", !.parent = q]]
    /\ UNCHANGED <<config, routerProcessors, stream, envoy, acct>>

(* Mutant: off by one.                                                     *)
onSecondRetry(q) == rp[q].count > 2

onRetry(q) == rp[q].count > 1

(* upstreamProcessor.ProcessRequestHeaders: the request is translated for  *)
(* the backend; the translator, or a mutation, may or may not produce a    *)
(* body, and a retry always does.                                          *)
UpstreamHeaders(r, a, newBody) ==
    LET q == up[r][a].parent IN
    /\ up[r][a].pc = "bound"
    /\ up' = [up EXCEPT ![r][a] =
                  [@ EXCEPT !.pc = "answered", !.sent = Awaited(r, a),
                            !.replaced = newBody \/ onRetry(q) \/ rp[q].force]]
    /\ envoy' = IF Awaited(r, a) THEN [envoy EXCEPT ![r].pc = "sent"] ELSE envoy
    /\ UNCHANGED <<config, routerProcessors, stream, rp, acct>>

(* respondLocally: the gateway answers, with a 422 or a 401.               *)
UpstreamRejects(r, a) ==
    LET q == up[r][a].parent IN
    /\ up[r][a].pc = "bound"
    /\ rp' = [rp EXCEPT ![q].localReply = TRUE]
    /\ acct' = [acct EXCEPT ![q].fail = @ + 1, ![q].ends = @ + 1]
    /\ AttemptFails(r, a)
    /\ UNCHANGED <<config, routerProcessors, stream>>

(* The translation or the backend authentication fails.                    *)
UpstreamHeadersFail(r, a) ==
    /\ up[r][a].pc = "bound"
    /\ acct' = [acct EXCEPT ![up[r][a].parent].fail = @ + 1]
    /\ AttemptFails(r, a)
    /\ UNCHANGED <<config, routerProcessors, stream, rp>>

-----------------------------------------------------------------------------
(* The response, at the router filter.                                     *)

(* routerProcessor hands it to the attempt it knows of, if any; a reply of *)
(* the gateway itself is passed through.                                   *)
Handled(r) == rp[r].filter # None /\ ~rp[r].localReply

(* upstreamProcessor.ProcessResponseHeaders; a response may have no body.  *)
ResponseHeaders(r, endOfStream) ==
    /\ envoy[r].pc = "respond"
    /\ envoy' = [envoy EXCEPT
                    ![r].pc = IF endOfStream THEN "end" ELSE "replying",
                    ![r].chunked = Handled(r) /\ rp[r].streaming /\ envoy[r].status = "200"]
    /\ UNCHANGED <<config, routerProcessors, stream, rp, up, acct>>

(* An error in either half of the response ends the stream.                *)
ResponseFails(r) ==
    /\ envoy[r].pc \in {"respond", "replying"}
    /\ Handled(r)
    /\ acct' = [acct EXCEPT ![r].fail = @ + 1]
    /\ CloseStream(r)
    /\ UNCHANGED <<config, rp, up>>

(* upstreamProcessor.ProcessResponseBody, for a chunk that is not the last *)
(* one; there are such chunks only if the mode was overridden.             *)
ResponseChunk(r) ==
    /\ envoy[r].pc = "replying"
    /\ envoy[r].chunked
    /\ acct' = IF ~Handled(r) THEN acct
               ELSE IF rp[r].streaming THEN [acct EXCEPT ![r].first = TRUE]
               ELSE [acct EXCEPT ![r].usage = @ + 1]
    /\ UNCHANGED <<config, routerProcessors, stream, rp, up, envoy>>

(* What the last or only chunk records.                                    *)
RecordSuccess(r, costs) ==
    [acct[r] EXCEPT !.ok = @ + 1, !.usage = @ + 1, !.ends = @ + 1,
                    !.first = rp[r].streaming, !.charged = costs]

RecordFailure(r) == [acct[r] EXCEPT !.fail = @ + 1, !.ends = @ + 1]

(* Mutant: the costs are those of the current configuration.               *)
CurrentCosts(r) == Config[config].costs

RequestCosts(r) == Config[rp[r].config].costs

(* ProcessResponseBody for that chunk: of a good response, of an error, or *)
(* of a response that is passed through.                                   *)
ResponseBody(r) ==
    LET recorded == IF ~Handled(r) THEN acct[r]
                    ELSE IF envoy[r].status = "bad" THEN RecordFailure(r)
                    ELSE RecordSuccess(r, RequestCosts(r)) IN
    /\ envoy[r].pc = "replying"
    /\ acct' = [acct EXCEPT ![r] = [recorded EXCEPT !.served = envoy[r].from # 0]]
    /\ envoy' = [envoy EXCEPT ![r].pc = "end"]
    /\ UNCHANGED <<config, routerProcessors, stream, rp, up>>

(* The costs cannot be computed: the usage has been recorded by then.      *)
CostsFail(r) ==
    /\ envoy[r].pc = "replying"
    /\ Handled(r)
    /\ envoy[r].status # "bad"
    /\ RequestCosts(r)
    /\ acct' = [acct EXCEPT ![r].fail = @ + 1, ![r].usage = @ + 1]
    /\ CloseStream(r)
    /\ UNCHANGED <<config, rp, up>>

-----------------------------------------------------------------------------
Quiet ==
    /\ \A r \in Req : stream[r] = "closed" /\ envoy[r].pc = "end"
    /\ \A r \in Req, a \in Attempt : up[r][a].pc \in {"none", "answered", "ended"}

Done == Quiet /\ UNCHANGED vars

RouterStep(r) ==
    \/ RouterHeaders(r) \/ UnsupportedPath(r)
    \/ \E streaming, asked \in BOOLEAN : RouterBody(r, streaming, asked)
    \/ RouterBodyRejected(r) \/ RouterBodyFails(r) \/ StreamEnds(r)

EnvoyStep(r) ==
    \/ NoRoute(r) \/ (\E b \in Backend : NewAttempt(r, b))
    \/ BackendFails(r) \/ (\E status \in {"200", "2xx", "bad"} : BackendResponds(r, status))
    \/ PerTryTimeout(r) \/ MessageTimeout(r)

AttemptStep(r, a) ==
    \/ SetBackendFindsNothing(r, a) \/ SetBackendFails(r, a) \/ SetBackend(r, a)
    \/ (\E newBody \in BOOLEAN : UpstreamHeaders(r, a, newBody))
    \/ UpstreamRejects(r, a) \/ UpstreamHeadersFail(r, a)

ResponseStep(r) ==
    \/ (\E endOfStream \in BOOLEAN : ResponseHeaders(r, endOfStream))
    \/ ResponseFails(r) \/ ResponseChunk(r) \/ ResponseBody(r) \/ CostsFail(r)

Next ==
    \/ LoadConfig
    \/ \E r \in Req : RouterStep(r) \/ EnvoyStep(r) \/ ResponseStep(r)
    \/ \E r \in Req, a \in Attempt : AttemptStep(r, a)
    \/ Done

Spec == Init /\ [][Next]_vars

-----------------------------------------------------------------------------
EnvoyPc == {"new", "body", "route", "upstream", "sent", "retry", "respond", "replying", "end"}

RouterProcessor ==
    [config : DOMAIN Config \cup {0}, streaming : BOOLEAN, force : BOOLEAN, usage : BOOLEAN,
     filter : (Req \X Attempt) \cup {None}, count : Nat, localReply : BOOLEAN]
UpstreamProcessor ==
    [pc : {"none", "headers", "bound", "answered", "ended"}, backend : Backend \cup {None},
     parent : Req \cup {None}, sent : BOOLEAN, replaced : BOOLEAN]
EnvoyRequest ==
    [pc : EnvoyPc, attempt : Attempt \cup {0}, from : Attempt \cup {0},
     status : {"200", "2xx", "bad"}, chunked : BOOLEAN]
Account ==
    [ok : Nat, fail : Nat, usage : Nat, spans : Nat, ends : Nat,
     first : BOOLEAN, charged : BOOLEAN, served : BOOLEAN]

(* The values of the variables; a router processor that is in use has the  *)
(* configuration it was made with.                                         *)
TypeOK ==
    /\ config \in DOMAIN Config
    /\ routerProcessors \in [{InternalReqID(r) : r \in Req} -> Req \cup {None}]
    /\ stream \in [Req -> {"none", "open", "closed"}]
    /\ rp \in [Req -> RouterProcessor]
    /\ up \in [Req -> [Attempt -> UpstreamProcessor]]
    /\ envoy \in [Req -> EnvoyRequest]
    /\ acct \in [Req -> Account]
    /\ \A r \in Req : stream[r] = "open" => rp[r].config # 0

(* The map of router processors holds exactly the requests whose stream is *)
(* open: every exit of Process removes its entry, and only its own.        *)
RegistryMatchesStreams ==
    \A r \in Req : routerProcessors[InternalReqID(r)] = IF stream[r] = "open" THEN r ELSE None

(* Requests with the same x-request-id do not mix: an attempt works on the *)
(* state of its own request and answers for no other.                      *)
RequestsDoNotMix ==
    /\ \A r \in Req, a \in Attempt : up[r][a].parent \in {r, None}
    /\ \A r \in Req : rp[r].filter # None => rp[r].filter[1] = r

(* A backend never gets the body an earlier attempt left behind: once an   *)
(* attempt went out, every later one that goes out replaces the body.      *)
RetryReplacesBody ==
    \A r \in Req : \A a, c \in Attempt :
        c < a /\ up[r][c].sent /\ up[r][a].sent => up[r][a].replaced

(* Unless Envoy gives up on its attempts too early, the response to a      *)
(* request is processed by the attempt that was answered, neither by       *)
(* another one nor as a reply of the gateway itself.                       *)
ResponseMeetsItsAttempt ==
    \A r \in Req \ Timeouts :
        envoy[r].pc \in {"respond", "replying"} /\ envoy[r].from # 0 =>
            rp[r].filter = <<r, envoy[r].from>> /\ ~rp[r].localReply

(* A request the gateway answers itself is a failure, recorded once, with  *)
(* its span ended once, although the reply takes the response path.        *)
LocalReplyRecordedOnce(r) ==
    rp[r].localReply =>
        acct[r].fail = 1 /\ acct[r].ok = 0 /\ acct[r].usage = 0 /\ acct[r].ends = 1

(* A response of a backend that was passed on to its end is accounted for: *)
(* one completion, one span ended; of a success the usage, once, and the   *)
(* time to the first token if it was streamed.                             *)
ServedIsAccounted(r) ==
    acct[r].served =>
        /\ acct[r].ok + acct[r].fail = 1
        /\ acct[r].spans = 1 /\ acct[r].ends = 1
        /\ acct[r].usage = acct[r].ok
        /\ acct[r].first <=> rp[r].streaming /\ acct[r].ok = 1

(* What is recorded of a request is what happened to it: no request is     *)
(* both a success and a failure, or ends its span twice, and it is only    *)
(* charged for tokens whose count the backend was asked to report, even if *)
(* costs were configured while it was in flight (and unless Envoy gives up *)
(* on its attempts too early).                                             *)
AccountsAreTrue ==
    \A r \in Req \ Timeouts :
        /\ LocalReplyRecordedOnce(r)
        /\ ServedIsAccounted(r)
        /\ acct[r].ok <= 1 /\ (acct[r].ok = 1 => acct[r].fail = 0)
        /\ acct[r].ends <= acct[r].spans
        /\ acct[r].charged => rp[r].usage
=============================================================================
