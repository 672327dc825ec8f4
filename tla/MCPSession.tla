----------------------------- MODULE MCPSession -----------------------------
(***************************************************************************)
(* internal/mcpproxy: the life of an MCP session and how the proxy finds   *)
(* the backend a client's message is for.  The proxy keeps no session: the *)
(* session ID it hands out is the encrypted list of the sessions it opened *)
(* on the backends, and every request is served from that ID, from the     *)
(* configuration in force and from names, URIs, request IDs and progress   *)
(* tokens into which the proxy wrote the backend's name on the way to the  *)
(* client.  Configurations are reloaded and encryption seeds replaced      *)
(* while sessions live; the calls that open a session may fail one by one. *)
(*                                                                         *)
(* A text the proxy takes apart is a sequence of its parts: "b__t" is      *)
(* <<b, "__", t>>.  Backend names hold no separator.                       *)
(***************************************************************************)
EXTENDS MCPAuthorization

CONSTANTS Backend,      \* the MCP servers
          Stateless,    \* the ones that give no session ID
          Names,        \* the names of their tools and prompts (sequences)
          URIs,         \* the URIs of their resources (sequences)
          IDs,          \* the IDs of their requests: [type, value]
          ProgressTokens,
          Exact,        \* integers up to here survive a float64 (2^53)
          Capabilities, \* [Backend -> what the server declares]
          Confs,        \* the configurations of the route, NoRoute among them
          NoRoute,
          Client,       \* the client: [claims, scopes]
          MaxReloads, MaxRestarts, MaxFaults

VARIABLES conf,     \* the configuration of the route (mcpProxyConfig.routes)
          seeds,    \* [primary, fallback]: the seeds of the process
          init,     \* per backend, how far initializeSession is
          token,    \* the client's session ID; NoToken
          server,   \* the sessions alive on each backend
          call,     \* the request being served; NoCall
          last,     \* how the last request ended
          reloads, faults

vars == <<conf, seeds, init, token, server, call, last, reloads, faults>>

NoToken == [seed |-> 0, entries |-> << >>]
NoCall == [asked |-> << >>]
NoSession == 0
-----------------------------------------------------------------------------
(* Names, URIs and IDs on their way through the proxy.                     *)

Malformed == [backend |-> "", what |-> << >>]

(* strings.Index / SplitN: what stands before and after the first sep.     *)
Cut(text, sep) ==
  LET at == {i \in DOMAIN text : text[i] = sep}
      i == Min(at)
  IN  IF at = {} \/ i # 2 THEN Malformed
      ELSE [backend |-> text[1], what |-> SubSeq(text, i + 1, Len(text))]

downstreamResourceName(name, b) == <<b, "__">> \o name

upstreamResourceName(full) == Cut(full, "__")

(* ui://rest becomes ui://backend/rest, any other URI backend+URI.         *)
downstreamResourceURI(uri, b) ==
  IF uri[1] = "ui://" THEN <<"ui://", b, "/">> \o Tail(uri) ELSE <<b, "+">> \o uri

upstreamResourceURI(full) ==
  IF full[1] = "ui://"
    THEN LET c == Cut(Tail(full), "/")
         IN  IF c = Malformed THEN c ELSE [c EXCEPT !.what = <<"ui://">> \o @]
    ELSE Cut(full, "+")

(* maybeServerToClientRequestModify: the ID the client sees; strings go    *)
(* in base64, so that no separator remains in them.                        *)
maybeServerToClientRequestModify(id, b) ==
  <<IF id.type = "s" THEN [base64 |-> id.value] ELSE id.value, "__", id.type, "__", b>>

(* An integer goes through a float64 on its way back: between Exact and    *)
(* twice as much, odd ones are rounded.                                    *)
AsFloat64(n) ==
  IF n <= Exact \/ n % 2 = 0 THEN n ELSE IF n % 4 = 1 THEN n - 1 ELSE n + 1

DecodedID(full) ==
  IF full[3] = "s" THEN [type |-> "s", value |-> full[1].base64]
  ELSE [type |-> full[3], value |-> AsFloat64(full[1])]

(* maybeUpdateProgressTokenMetadata does to a progress token what the       *)
(* above does to an ID; the way back keeps integers.                       *)
maybeUpdateProgressTokenMetadata(id, b) == maybeServerToClientRequestModify(id, b)

DecodedProgressToken(full) ==
  [type |-> full[3], value |-> IF full[3] = "s" THEN full[1].base64 ELSE full[1]]

Parsed(full, id) ==
  IF Len(full) # 5 THEN Malformed ELSE [backend |-> full[5], what |-> id]
-----------------------------------------------------------------------------
(* The session ID.                                                         *)

(* A flag below another is only looked at when that one is set; extensions *)
(* have no flag.                                                           *)
encodeCapabilityFlags(caps) ==
  {c \in caps : c # "extensions" /\ (c = "tools.listChanged" => "tools" \in caps)}

decodeCapabilityFlags(flags) ==
  {c \in flags : c = "tools.listChanged" => "tools" \in flags}

clientToGatewaySessionIDFromEntries(entries) ==
  [b \in DOMAIN entries |-> [sid |-> entries[b].sid, flags |-> encodeCapabilityFlags(entries[b].caps)]]

backendSessionIDs(id) ==
  [b \in DOMAIN id |-> [sid |-> id[b].sid, caps |-> decodeCapabilityFlags(id[b].flags)]]

(* FallbackEnabledSessionCrypto: IDs are written under the primary seed and *)
(* read under either.                                                      *)
Encrypt(entries) == [seed |-> seeds.primary, entries |-> entries]

(* Mutant: only the primary seed is tried.                                 *)
DecryptsWithPrimary(t) == t.seed = seeds.primary

Decrypts(t) == t.seed \in {seeds.primary, seeds.fallback}

(* sessionFromID; the route is not looked at here.                         *)
sessionFromID(t) == backendSessionIDs(t.entries)
-----------------------------------------------------------------------------
(* Opening a session.                                                      *)

Init ==
  /\ conf \in Confs \ {NoRoute}
  /\ seeds = [primary |-> 1, fallback |-> 0]
  /\ init = << >> /\ token = NoToken /\ call = NoCall /\ last = NoCall
  /\ server = [b \in Backend |-> {}]
  /\ reloads = 0 /\ faults = 0

(* newSession's selection: without a selector every backend of the route.  *)
selectedBackends ==
  IF conf = NoRoute THEN {}
  ELSE {b \in conf.backends : authorizeRequest(conf.backendSelector, <<b, "">>, Client).allowed}

(* "initialize": the calls to the selected backends start together.  No     *)
(* route, or no backend left by the selector, is an error at once.         *)
newSession ==
  /\ init = << >> /\ token = NoToken /\ call = NoCall
  /\ init' = [b \in selectedBackends |-> [at |-> "initialize", sid |-> NoSession]]
  /\ UNCHANGED <<conf, seeds, token, server, call, last, reloads, faults>>

(* An ID for one more session of a server.                                 *)
NewID(b) == IF b \in Stateless THEN NoSession ELSE Min((1 .. Cardinality(server[b]) + 1) \ server[b])

(* initializeSession's first call opens a session on the server.  The call *)
(* may fail before or after that (a refusal, or an answer that is not a    *)
(* result).                                                                *)
Initialized(b, ok) ==
  /\ b \in DOMAIN init /\ init[b].at = "initialize"
  /\ ok \/ faults < MaxFaults
  /\ init' = [init EXCEPT ![b] = [at |-> IF ok THEN "notify" ELSE "failed", sid |-> NewID(b)]]
  /\ server' = [server EXCEPT ![b] = @ \cup ({NewID(b)} \ {NoSession})]
  /\ faults' = faults + (IF ok THEN 0 ELSE 1)
  /\ UNCHANGED <<conf, seeds, token, call, last, reloads>>

Refused(b) ==
  /\ b \in DOMAIN init /\ init[b].at = "initialize" /\ faults < MaxFaults
  /\ init' = [init EXCEPT ![b].at = "failed"]
  /\ faults' = faults + 1
  /\ UNCHANGED <<conf, seeds, token, server, call, last, reloads>>

(* initializeSession's second call, notifications/initialized, must be     *)
(* accepted; when it is not, the session stays open on the server.         *)
Notified(b, ok) ==
  /\ b \in DOMAIN init /\ init[b].at = "notify"
  /\ ok \/ faults < MaxFaults
  /\ init' = [init EXCEPT ![b].at = IF ok THEN "done" ELSE "failed"]
  /\ faults' = faults + (IF ok THEN 0 ELSE 1)
  /\ UNCHANGED <<conf, seeds, token, server, call, last, reloads>>

(* wg.Wait and after: failed backends are left out of the session ID; with *)
(* none left the request fails.                                            *)
SessionCreated ==
  LET done == {b \in DOMAIN init : init[b].at = "done"}
  IN  /\ init # << >> /\ \A b \in DOMAIN init : init[b].at \in {"done", "failed"}
      /\ token' = IF done = {} THEN NoToken
                  ELSE Encrypt(clientToGatewaySessionIDFromEntries(
                         [b \in done |-> [sid |-> init[b].sid, caps |-> Capabilities[b]]]))
      /\ init' = << >>
      /\ UNCHANGED <<conf, seeds, server, call, last, reloads, faults>>
-----------------------------------------------------------------------------
(* Serving a request of a session.                                         *)

(* toolSelector.allows: what is excluded is out; listed names win over     *)
(* expressions; without either every tool is in.                           *)
allows(selector, tool) ==
  /\ tool \notin selector.exclude \cup selector.excludeRegexps
  /\ IF selector.include # {} THEN tool \in selector.include
     ELSE selector.includeRegexps # {} => tool \in selector.includeRegexps

getBackendForRoute(b) == conf # NoRoute /\ b \in conf.backends

getCompositeSessionEntry(session, b) == b \in DOMAIN session

(* tools/list: the backends of the session that have tools are asked; what *)
(* they list goes through the selector of the backend and, as a tools/call *)
(* of that tool, through the authorization of the route.                   *)
mergeToolsList(session) ==
  {<<b, t>> \in (DOMAIN session) \X Names :
     /\ "tools" \in session[b].caps
     /\ getBackendForRoute(b)
     /\ allows(conf.toolSelectors[b], t)
     /\ authorizeRequest(conf.authorization, <<b, t>>, Client).allowed}

(* The handlers, up to the backend they find in what the client was given  *)
(* and sends back.                                                         *)
handlePromptGetRequest(b, name) == upstreamResourceName(downstreamResourceName(name, b))

handleResourceReadRequest(b, uri) == upstreamResourceURI(downstreamResourceURI(uri, b))

handleResourcesSubscribeRequest(b, uri) == handleResourceReadRequest(b, uri)

handleCompletionComplete(b, ref) ==
  IF ref \in URIs THEN handleResourceReadRequest(b, ref) ELSE handlePromptGetRequest(b, ref)

handleClientToServerResponse(b, id) ==
  LET full == maybeServerToClientRequestModify(id, b) IN Parsed(full, DecodedID(full))

handleClientToServerNotificationsProgress(b, pt) ==
  LET full == maybeUpdateProgressTokenMetadata(pt, b) IN Parsed(full, DecodedProgressToken(full))

Routed(kind, b, what) ==
  CASE kind \in {"tools/call", "prompts/get"} -> handlePromptGetRequest(b, what)
    [] kind = "resources/read"         -> handleResourceReadRequest(b, what)
    [] kind = "resources/subscribe"    -> handleResourcesSubscribeRequest(b, what)
    [] kind = "completion/complete"    -> handleCompletionComplete(b, what)
    [] kind = "response"               -> handleClientToServerResponse(b, what)
    [] kind = "notifications/progress" -> handleClientToServerNotificationsProgress(b, what)

(* What the client may expect: the message concerns a backend that the      *)
(* route and the session have, and a tool that tools/list lists.           *)
Expected(kind, b, what) ==
  LET session == sessionFromID(token)
  IN  /\ seeds.primary <= token.seed + 1
      /\ conf # NoRoute
      /\ b \in (DOMAIN token.entries) \cap conf.backends
      /\ kind = "tools/call" => <<b, what>> \in mergeToolsList(session)

Reply(asked, status, to, sid, what) ==
  /\ call' = NoCall
  /\ last' = [asked |-> asked, status |-> status, to |-> to, sid |-> sid, what |-> what,
              steady |-> asked.reloads = reloads]

Error(asked, status) == Reply(asked, status, "", NoSession, << >>)

(* servePOST up to the lookup of the backend.  A session ID that cannot be *)
(* read, or a text that cannot be taken apart, is answered 400, a backend *)
(* the route does not have 404.                                            *)
servePOST(kind, b, what) ==
  /\ token # NoToken /\ call = NoCall
  /\ kind = "tools/call" => "tools" \in Capabilities[b]
  /\ LET asked == [kind |-> kind, to |-> b, what |-> what, reloads |-> reloads,
                   expected |-> Expected(kind, b, what)]
         route == Routed(kind, b, what)
     IN  IF ~Decrypts(token) THEN Error(asked, 400)
         ELSE IF route = Malformed THEN Error(asked, 400)
         ELSE IF ~getBackendForRoute(route.backend) THEN Error(asked, 404)
         ELSE call' = [asked |-> asked, route |-> route] /\ last' = NoCall
  /\ UNCHANGED <<conf, seeds, init, token, server, reloads, faults>>

(* invokeAndProxyResponse: the call to the backend, which may fail.        *)
invokeAndProxyResponse(b, what) ==
  \/ Reply(call.asked, 200, b, sessionFromID(token)[b].sid, what) /\ UNCHANGED faults
  \/ faults < MaxFaults /\ faults' = faults + 1 /\ Error(call.asked, 500)

Fails(status) == Error(call.asked, status) /\ UNCHANGED faults

(* The rest of handleToolCallRequest, which reads the configuration again: *)
(* a route that has gone since is an error, a backend that has gone has no *)
(* selector any more.                                                      *)
handleToolCallRequest ==
  LET b == call.route.backend
      t == call.route.what
  IN  /\ call # NoCall /\ call.asked.kind = "tools/call"
      /\ IF conf = NoRoute THEN Fails(500)
         ELSE IF b \in conf.backends /\ ~allows(conf.toolSelectors[b], t) THEN Fails(400)
         ELSE IF \/ ~authorizeRequest(conf.authorization, <<b, t>>, Client).allowed
                 \/ ~getCompositeSessionEntry(sessionFromID(token), b)
           THEN Fails(403)
         ELSE invokeAndProxyResponse(b, t)
      /\ UNCHANGED <<conf, seeds, init, token, server, reloads>>

(* The rest of the other handlers is the session's entry and the call.     *)
handleOthers ==
  LET b == call.route.backend
  IN  /\ call # NoCall /\ call.asked.kind # "tools/call"
      /\ IF getCompositeSessionEntry(sessionFromID(token), b)
           THEN invokeAndProxyResponse(b, call.route.what) ELSE Fails(403)
      /\ UNCHANGED <<conf, seeds, init, token, server, reloads>>
-----------------------------------------------------------------------------
(* Ends, reloads and restarts.                                             *)

(* session.Close: each backend that gave a session ID is sent a DELETE;    *)
(* the ones that fail are logged and passed over.                          *)
Closing(session) == {b \in DOMAIN session : session[b].sid # NoSession}

serverDELETE ==
  /\ token # NoToken /\ call = NoCall
  /\ LET session == sessionFromID(token)
     IN  \E failed \in SUBSET Closing(session) :
           /\ faults + Cardinality(failed) <= MaxFaults
           /\ ~Decrypts(token) => failed = {}
           /\ server' = [b \in Backend |->
                IF Decrypts(token) /\ b \in Closing(session) \ failed
                  THEN server[b] \ {session[b].sid} ELSE server[b]]
           /\ faults' = faults + Cardinality(failed)
  /\ token' = NoToken /\ last' = NoCall
  /\ UNCHANGED <<conf, seeds, init, call, reloads>>

(* LoadConfig, at any moment of a request.                                 *)
LoadConfig ==
  /\ reloads < MaxReloads
  /\ conf' \in Confs \ {conf}
  /\ reloads' = reloads + 1 /\ last' = NoCall
  /\ UNCHANGED <<seeds, init, token, server, call, faults>>

(* The process is replaced by one with a new seed and the old one as       *)
(* fallback.  Requests under way are cut off, and the calls they wait for  *)
(* with them.                                                              *)
Restart ==
  /\ seeds.primary <= MaxRestarts
  /\ faults + Cardinality(DOMAIN init) <= MaxFaults
  /\ seeds' = [primary |-> seeds.primary + 1, fallback |-> seeds.primary]
  /\ faults' = faults + Cardinality(DOMAIN init)
  /\ init' = << >> /\ call' = NoCall /\ last' = NoCall
  /\ UNCHANGED <<conf, token, server, reloads>>

Next ==
  \/ newSession \/ SessionCreated \/ serverDELETE \/ LoadConfig \/ Restart
  \/ \E b \in Backend :
       \/ Refused(b)
       \/ \E ok \in BOOLEAN : Initialized(b, ok) \/ Notified(b, ok)
       \/ \E t \in Names, kind \in {"tools/call", "prompts/get", "completion/complete"} :
            servePOST(kind, b, t)
       \/ \E u \in URIs, kind \in {"resources/read", "resources/subscribe", "completion/complete"} :
            servePOST(kind, b, u)
       \/ \E id \in IDs : servePOST("response", b, id)
       \/ \E pt \in ProgressTokens : servePOST("notifications/progress", b, pt)
  \/ handleToolCallRequest \/ handleOthers

Spec == Init /\ [][Next]_vars
-----------------------------------------------------------------------------
(* What a backend gives a client (a tool or prompt name, a resource URI,    *)
(* the ID of a request, a progress token) leads back to that backend, to   *)
(* the session the client has with it, as the backend wrote it; a tool can *)
(* be called exactly when tools/list lists it; and everything works as     *)
(* long as the route and the session have the backend, across restarts     *)
(* with one new seed, unless the backend fails the call.  Only a reload    *)
(* inside the request makes a difference (handlers reading m.routes twice).*)
GoesBack ==
  last # NoCall =>
    /\ last.status = 200 => /\ last.to = last.asked.to
                            /\ last.what = last.asked.what
                            /\ last.sid = token.entries[last.to].sid
    /\ last.steady => (last.status \in {200, 500}) = last.asked.expected

(* The sessions open on backends that neither the client's session ID nor   *)
(* an initialization under way holds.                                      *)
Stray ==
  {<<b, s>> \in Backend \X UNION {server[b] : b \in Backend} :
     /\ s \in server[b]
     /\ ~(b \in DOMAIN token.entries /\ token.entries[b].sid = s)
     /\ ~(b \in DOMAIN init /\ init[b].at # "failed" /\ init[b].sid = s)}

(* The proxy loses track of a session on a backend only where a call to    *)
(* that backend failed or was cut off (initializeSession does not close    *)
(* what it opened, Close passes over failures): at most one session for    *)
(* each failed call, whatever reloads did to the route, as long as session *)
(* IDs do not outlive two changes of the seed.                             *)
StraysAreFailures == seeds.primary <= 2 => Cardinality(Stray) <= faults

(* The challenges of the route's authorization lead to access, whichever   *)
(* of the scopes in its rules the client has already.  Every configuration *)
(* is met before a session is open.                                        *)
ChallengesLead ==
  conf # NoRoute /\ token = NoToken /\ init = << >> =>
    \A b \in conf.backends, t \in Names, had \in SUBSET ScopesOf(conf.authorization) :
      ChallengeIsEnough(conf.authorization, <<b, t>>, [Client EXCEPT !.scopes = had])
=============================================================================
