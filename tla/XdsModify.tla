------------------------------ MODULE XdsModify ------------------------------
(***************************************************************************)
(* internal/extensionserver: what the extension server adds to the xDS     *)
(* that Envoy Gateway translates, and when.  An AIGatewayRoute is edited;  *)
(* the controller writes the HTTPRoute generated from it; Envoy Gateway    *)
(* translates HTTPRoutes into clusters, routes and listeners and passes    *)
(* them through the extension server, which reads the AIGatewayRoute again *)
(* to put backend names on endpoints.  The HTTPRoute a translation starts  *)
(* from may be older than the AIGatewayRoute the extension server reads.   *)
(*                                                                         *)
(* A rule is [refs, pool, timeout]: refs is a sequence of                  *)
(* [backend, zero, priority] (zero: weight 0), pool the inference pool the *)
(* one ref names, or NoPool.  A filter is [kind, id].                      *)
(***************************************************************************)
EXTENDS Naturals, Sequences, FiniteSets, FiniteSetsExt, SequencesExt

CONSTANTS Specs,       \* the contents the AIGatewayRoute may have
          NoPool,
          Address,     \* the Backend that an AIServiceBackend names
          Tls,         \* the Backends reached over TLS
          Sites,       \* [mode, standalone, filters, proxy, upstream]: installations
          OtherRoutes, \* routes of the listener that are not of the AIGatewayRoute
          Limited,     \* AIServiceBackends with a QuotaPolicy
          LogHeaders,  \* whether request headers are logged
          Reverts,     \* whether an edit may undo one the controller has not seen
          MaxEdits

VARIABLES spec,   \* the AIGatewayRoute
          seen,   \* the AIGatewayRoute the controller last reconciled
          http,   \* the HTTPRoute generated from it
          dirty,  \* Envoy Gateway has a change to translate
          running, \* the controller, which holds the extension server, runs
          site,   \* this installation
          xds,    \* what Envoy was last given
          edits

vars == <<spec, seen, http, dirty, running, site, xds, edits>>

NoXds == [clusters |-> << >>, routes |-> << >>, filters |-> << >>,
          backendRoutes |-> << >>, backendFilters |-> << >>, pickers |-> {}]
-----------------------------------------------------------------------------
(* ai_gateway_route.go: the HTTPRoute.  It names Backends, not             *)
(* AIServiceBackends; those and the priorities are in an annotation only,  *)
(* the stream idle timeout nowhere.                                        *)

(* Mutant: no annotation.                                                  *)
NoAnnotation(rules) == << >>

buildPriorityAnnotation(rules) ==
  [i \in DOMAIN rules |->
     [j \in DOMAIN rules[i].refs |-> <<rules[i].refs[j].backend, rules[i].refs[j].priority>>]]

newHTTPRoute(rules) ==
  [rules |-> [i \in DOMAIN rules |->
                [refs |-> [j \in DOMAIN rules[i].refs |->
                             [to |-> Address[rules[i].refs[j].backend], zero |-> rules[i].refs[j].zero]],
                 pool |-> rules[i].pool]],
   annotation |-> buildPriorityAnnotation(rules)]
-----------------------------------------------------------------------------
(* Envoy Gateway's clusters for a rule (external): one with the endpoints  *)
(* of its enabled backends in order, or one whose endpoints come later, or *)
(* one for each backend.  ref 0: the cluster's name has no backend index.  *)
(* A TLS backend has a transport socket of its own.                        *)
Cluster(i, j, pool, refs, known) ==
  [rule |-> i, ref |-> j, pool |-> pool, known |-> known,
   endpoints |-> IF known THEN [k \in DOMAIN refs |-> [to |-> refs[k].to, name |-> << >>, priority |-> 0]]
                 ELSE << >>,
   name |-> << >>, upstream |-> site.upstream,
   sockets |-> {[inner |-> r.to, proxied |-> FALSE] : r \in {s \in Range(refs) : s.to \in Tls}}]

ClustersOfRule(i, rule) ==
  LET enabled == SelectSeq(rule.refs, LAMBDA r : ~r.zero)
  IN  IF rule.pool # NoPool THEN << Cluster(i, 0, rule.pool, enabled, FALSE) >>
      ELSE IF site.mode = "perBackend"
        THEN [j \in DOMAIN rule.refs |-> Cluster(i, j, NoPool, <<rule.refs[j]>>, TRUE)]
      ELSE << Cluster(i, 0, NoPool, enabled, site.mode = "inline") >>

ClustersOf(route) ==
  FlattenSeq([i \in DOMAIN route.rules |-> ClustersOfRule(i, route.rules[i])]) \o
  [k \in DOMAIN OtherRoutes |-> Cluster(0, 0, OtherRoutes[k].pool, << >>, TRUE)]
-----------------------------------------------------------------------------
(* maybeModifyCluster.                                                     *)

PerRouteRuleRefBackendName(rule, i, j) == <<rule.refs[j].backend, i, j>>

setEndpointMetadataBackendName(e, rule, i, j) ==
  [e EXCEPT !.name = PerRouteRuleRefBackendName(rule, i, j), !.priority = rule.refs[j].priority]

(* Only the cluster has a name where it has no endpoints yet: that of its   *)
(* ref, or of the rule's first.                                            *)
setClusterMetadataBackendName(c, rule) ==
  IF c.pool = NoPool /\ (c.known \/ rule.refs = << >>) THEN c.name
  ELSE PerRouteRuleRefBackendName(rule, c.rule, IF c.ref = 0 THEN 1 ELSE c.ref)

(* The refs the endpoints of a cluster are taken to be of, by position.    *)
EnabledRefs(rule) == SelectSeq([j \in DOMAIN rule.refs |-> j], LAMBDA j : ~rule.refs[j].zero)

(* The names on its endpoints.                                             *)
NamedEndpoints(c, rule) ==
  [k \in DOMAIN c.endpoints |->
     IF c.ref # 0 THEN setEndpointMetadataBackendName(c.endpoints[k], rule, c.rule, c.ref)
     ELSE IF k \in DOMAIN EnabledRefs(rule)
       THEN setEndpointMetadataBackendName(c.endpoints[k], rule, c.rule, EnabledRefs(rule)[k])
     ELSE c.endpoints[k]]

(* More refs than endpoints, or a pool's rule without refs: an index out of *)
(* range.  Nothing recovers the panic, so the process ends.                *)
OutOfRange(c, rule) ==
  \/ c.pool # NoPool /\ rule.refs = << >>
  \/ c.pool = NoPool /\ c.known /\ c.ref = 0 /\ Len(EnabledRefs(rule)) > Len(c.endpoints)

wrapClusterInForwardProxy(sockets) ==
  IF sockets = {} THEN {[inner |-> NoPool, proxied |-> TRUE]}
  ELSE {[inner |-> s.inner, proxied |-> TRUE] : s \in sockets}

maybeWrapClusterInForwardProxy(c) ==
  IF site.proxy /\ c.pool = NoPool THEN wrapClusterInForwardProxy(c.sockets) ELSE c.sockets

(* The upstream filters go before the codec, which is made if need be.     *)
UpstreamFilters(c) ==
  IF "ext_proc" \in Range(c.upstream) THEN c.upstream
  ELSE (IF c.upstream = << >> THEN << >> ELSE Front(c.upstream)) \o <<"ext_proc", "header_mutation", "codec">>

(* Whether the cluster is one of a rule and ref still stored.              *)
Known(c, rules) ==
  /\ c.rule \in DOMAIN rules
  /\ c.ref # 0 => c.ref \in DOMAIN rules[c.rule].refs

maybeModifyCluster(c, rules) ==
  IF ~Known(c, rules) THEN c
  ELSE [c EXCEPT !.name = setClusterMetadataBackendName(c, rules[c.rule]),
                 !.endpoints = NamedEndpoints(c, rules[c.rule]),
                 !.sockets = maybeWrapClusterInForwardProxy(c),
                 !.upstream = UpstreamFilters(c)]

Panics(clusters, rules) ==
  \E k \in DOMAIN clusters :
    Known(clusters[k], rules) /\ OutOfRange(clusters[k], rules[clusters[k].rule])

(* A cluster for the picker of every cluster of a pool.                    *)
buildClustersForInferencePoolEndpointPickers(clusters) ==
  {clusters[k].pool : k \in DOMAIN clusters} \ {NoPool}
-----------------------------------------------------------------------------
(* Routes and listeners.                                                   *)

Filter(kind, id) == [kind |-> kind, id |-> id]
AIGateway == Filter("ext_proc", "aigateway")
Quotas == Filter("ratelimit", "quota")
HeaderToMetadata == Filter("header_to_metadata", "")
Router == Filter("router", "")

httpFilterNameForInferencePool(pool) == Filter("ext_proc", pool)
Pickers(pools) == {httpFilterNameForInferencePool(p) : p \in pools}

(* The routes of the HTTPRoute: its rules' and, last, the one that catches *)
(* the rest.  PostRouteModify marks those of pools.                        *)
RouteOf(i, pool) ==
  [rule |-> i, annotated |-> TRUE, mcp |-> "", pool |-> pool, off |-> {}, on |-> {},
   authn |-> FALSE, limited |-> FALSE, timeout |-> 0]

RoutesOf(route) ==
  [i \in DOMAIN route.rules |-> RouteOf(i, route.rules[i].pool)] \o
  << RouteOf(0, NoPool) >> \o OtherRoutes

Where(filters, kinds) == {i \in DOMAIN filters : filters[i].kind \in kinds}

BeforeRouter(filters, f) == InsertAt(filters, Min(Where(filters, {"router"})), f)

PoolsOf(routes) == {routes[i].pool : i \in DOMAIN routes} \ {NoPool}

(* The pools of a listener's routes in the order of a map: one for every   *)
(* route with a pool, so a pool may come twice.                            *)
PoolOrders(routes) ==
  LET with == {i \in DOMAIN routes : routes[i].pool # NoPool}
  IN  {[k \in DOMAIN s |-> routes[s[k]].pool] : s \in SetToSeqs(with)}

(* The filters a listener may get.                                         *)
patchListenerWithInferencePoolFilters(filters, routes) ==
  {Front(filters) \o [k \in DOMAIN pools |-> httpFilterNameForInferencePool(pools[k])] \o << Last(filters) >> :
     pools \in PoolOrders(routes)}

(* The pickers of all other pools are switched off.                        *)
patchVirtualHostWithInferencePool(route, pools) == Pickers(pools \ {route.pool})

(* Outside a cluster there are no annotations to go by.                    *)
isRouteGeneratedByAIGateway(route) == IF site.standalone THEN route.mcp = "" ELSE route.annotated

enableRouterLevelAIGatewayExtProcOnRoute(route) ==
  IF isRouteGeneratedByAIGateway(route) THEN {AIGateway} ELSE {}

afterExtProcFilterPrefixes ==
  {"ext_proc", "wasm", "lua", "rbac", "local_ratelimit", "ratelimit", "custom_response",
   "credential_injector", "compressor", "router"}

(* Mutant: the filter goes where the others go.                            *)
InsertBeforeRouter(filters) == BeforeRouter(filters, AIGateway)

(* Before the first of those, or right after the last buffer filter when   *)
(* that comes later.                                                       *)
insertAIGatewayExtProcFilter(filters) ==
  LET first == Min(Where(filters, afterExtProcFilterPrefixes))
      buffers == Where(filters, {"buffer"})
  IN  IF buffers # {} /\ Max(buffers) >= first THEN InsertAt(filters, Max(buffers) + 1, AIGateway)
      ELSE InsertAt(filters, first, AIGateway)

insertRouterLevelAIGatewayExtProc(filters, routes) ==
  IF \E i \in DOMAIN routes : AIGateway \in routes[i].on
    THEN insertAIGatewayExtProcFilter(filters) ELSE filters

(* maybeSetStreamIdleTimeout, from the stored rule.                        *)
maybeSetStreamIdleTimeout(route, rules) ==
  IF route.rule \in DOMAIN rules THEN rules[route.rule].timeout ELSE route.timeout

(* maybeUpdateMCPRoutes: the other rules of an MCP route's main HTTPRoute  *)
(* need no client authentication.                                          *)
maybeUpdateMCPRoutes(route) == route.authn /\ route.mcp # "well-known"

createRoutesForBackendListener(routes) == SelectSeq(routes, LAMBDA r : r.mcp = "backend")

isMCPBackendHTTPFilter(f) == f.id = "mcp"

extractMCPBackendFiltersFromMCPProxyListener(filters) == SelectSeq(filters, isMCPBackendHTTPFilter)

createBackendListener(filters) == filters \o << HeaderToMetadata, Router >>

insertRequestHeaderToMetadataFilter(filters) ==
  IF ~LogHeaders \/ HeaderToMetadata \in Range(filters) THEN filters
  ELSE BeforeRouter(filters, HeaderToMetadata)

(* Clusters for each backend have names that resolveClusterRule does not   *)
(* take.                                                                   *)
resolveClusterRule(route, rules) ==
  IF (site.mode = "perBackend" /\ route.pool = NoPool) \/ route.rule \notin DOMAIN rules THEN << >>
  ELSE rules[route.rule].refs

patchRoutesWithQuotaRateLimits(route, rules) ==
  /\ isRouteGeneratedByAIGateway(route)
  /\ \E r \in Range(resolveClusterRule(route, rules)) : r.backend \in Limited

injectQuotaRateLimitFilterIntoListener(filters, routes) ==
  IF \E i \in DOMAIN routes : routes[i].limited THEN BeforeRouter(filters, Quotas) ELSE filters
-----------------------------------------------------------------------------
(* PostTranslateModify, on what Envoy Gateway made of the HTTPRoute.       *)
ModifiedRoutes(routes, rules) ==
  [i \in DOMAIN routes |->
     [routes[i] EXCEPT
        !.off = patchVirtualHostWithInferencePool(routes[i], PoolsOf(routes)),
        !.on = enableRouterLevelAIGatewayExtProcOnRoute(routes[i]),
        !.timeout = maybeSetStreamIdleTimeout(routes[i], rules),
        !.authn = maybeUpdateMCPRoutes(routes[i]),
        !.limited = patchRoutesWithQuotaRateLimits(routes[i], rules)]]

ModifiedFilters(routes) ==
  {insertRouterLevelAIGatewayExtProc(filters, routes) :
     filters \in patchListenerWithInferencePoolFilters(site.filters, routes)}

(* The per-backend routes and filters of MCP move to a listener of theirs; *)
(* the last filters are added.                                             *)
Response(clusters, routes, filters) ==
  LET moved == createRoutesForBackendListener(routes)
      kept == SelectSeq(routes, LAMBDA r : r.mcp # "backend")
      left == IF moved = << >> THEN filters ELSE SelectSeq(filters, LAMBDA f : ~isMCPBackendHTTPFilter(f))
  IN  [clusters |-> clusters,
       routes |-> kept,
       filters |-> injectQuotaRateLimitFilterIntoListener(insertRequestHeaderToMetadataFilter(left), kept),
       backendRoutes |-> moved,
       backendFilters |-> IF moved = << >> THEN << >>
                          ELSE createBackendListener(extractMCPBackendFiltersFromMCPProxyListener(filters)),
       pickers |-> buildClustersForInferencePoolEndpointPickers(clusters)]

PostTranslateModify(clusters) ==
  {Response([k \in DOMAIN clusters |-> maybeModifyCluster(clusters[k], spec)], x[1], x[2]) :
   x \in UNION {{<<routes, filters>> : filters \in ModifiedFilters(routes)} :
                  routes \in {ModifiedRoutes(RoutesOf(http), spec)}}}
-----------------------------------------------------------------------------
Init ==
  /\ spec \in Specs
  /\ site \in Sites
  /\ seen = spec
  /\ http = newHTTPRoute(spec)
  /\ dirty = TRUE
  /\ running = TRUE
  /\ xds = NoXds
  /\ edits = 0

EditRoute(new) ==
  /\ edits < MaxEdits
  /\ new # spec
  /\ ~Reverts => new # seen
  /\ spec' = new
  /\ edits' = edits + 1
  /\ UNCHANGED <<seen, http, dirty, running, site, xds>>

(* syncAIGatewayRoute writes the HTTPRoute; Envoy Gateway sees a write that *)
(* changes it.                                                             *)
SyncHTTPRoute ==
  /\ running
  /\ seen # spec
  /\ seen' = spec
  /\ http' = newHTTPRoute(spec)
  /\ dirty' = (dirty \/ http' # http)
  /\ UNCHANGED <<spec, running, site, xds, edits>>

(* Envoy Gateway translates after a change, or for reasons of its own.     *)
Translate ==
  /\ running
  /\ \E clusters \in {ClustersOf(http)} :
       /\ ~Panics(clusters, spec)
       /\ xds' \in PostTranslateModify(clusters)
  /\ dirty' = FALSE
  /\ UNCHANGED <<spec, seen, http, running, site, edits>>

(* A panic in the call: Envoy keeps what it has.                           *)
Crash ==
  /\ running
  /\ Panics(ClustersOf(http), spec)
  /\ running' = FALSE
  /\ dirty' = TRUE
  /\ UNCHANGED <<spec, seen, http, site, xds, edits>>

(* The call returns an error.                                              *)
Fail ==
  /\ running
  /\ dirty' = TRUE
  /\ UNCHANGED <<spec, seen, http, running, site, xds, edits>>

Restart ==
  /\ ~running
  /\ running' = TRUE
  /\ UNCHANGED <<spec, seen, http, dirty, site, xds, edits>>

Next == \/ \E new \in Specs : EditRoute(new)
        \/ SyncHTTPRoute
        \/ Translate
        \/ Crash
        \/ Fail
        \/ Restart

(* Envoy Gateway is only sure to translate after a change; no other step   *)
(* clears dirty.                                                           *)
TranslateChange == running /\ dirty /\ ~Panics(ClustersOf(http), spec) /\ dirty' = FALSE

(* A controller that is ended and restarted again and again gets to write  *)
(* the HTTPRoute in the end.                                               *)
Fairness == SF_vars(SyncHTTPRoute) /\ WF_dirty(TranslateChange) /\ WF_vars(Restart)

Spec == Init /\ [][Next]_vars /\ Fairness
-----------------------------------------------------------------------------
(* What Envoy does with a request (external).  The filter chain is made on *)
(* the route that matches first; the AI gateway's filter then sets the     *)
(* model header, which selects the route that the filters after it see.    *)
Seen(filters, k, first, last) ==
  IF AIGateway \in first.on /\ \E j \in 1..(k - 1) : filters[j] = AIGateway THEN last ELSE first

Acts(filters, k, first, last) ==
  LET route == Seen(filters, k, first, last)
  IN  CASE filters[k] = AIGateway -> AIGateway \in first.on
        [] filters[k] = Quotas -> route.limited
        [] OTHER -> filters[k] \notin route.off

Run(filters, first, last) == {filters[k] : k \in {i \in DOMAIN filters : Acts(filters, i, first, last)}}

(* The pairs of routes a request may see: one of the AIGatewayRoute's      *)
(* first matches the route that catches the rest.                          *)
Requests(routes) ==
  {<<r, r>> : r \in Range(routes)} \cup
  {<<a, b>> \in Range(routes) \X Range(routes) : a.annotated /\ a.rule = 0 /\ b.annotated}

(***************************************************************************)
(* Every request runs through the filters of the route that serves it      *)
(* (insertAIGatewayExtProcFilter, patchVirtualHostWithInferencePool,       *)
(* injectQuotaRateLimitFilterIntoListener): the AI gateway's filter exactly *)
(* on routes of an AIGatewayRoute, then the endpoint picker of the route's *)
(* pool and no other, whose cluster exists, and the quota check where the  *)
(* route has one, though the chain was made for the route that matched     *)
(* before the model was known.  The AI gateway's filter is behind every    *)
(* buffer filter, and ahead of the filters that need its result.           *)
(***************************************************************************)
RequestsRunTheirFilters ==
  \A q \in Requests(xds.routes) :
    LET run == Run(xds.filters, q[1], q[2])
        at == {k \in DOMAIN xds.filters : xds.filters[k] = AIGateway}
    IN  /\ AIGateway \in run <=> isRouteGeneratedByAIGateway(q[2])
        /\ run \cap Pickers(xds.pickers) = Pickers({q[2].pool} \ {NoPool})
        /\ {q[2].pool} \ {NoPool} \subseteq xds.pickers
        /\ Quotas \in run <=> q[2].limited
        /\ Last(xds.filters) = Router
        /\ q[2].authn => q[2].mcp = "main"
        /\ \A k \in at, b \in Where(xds.filters, {"buffer"}) : b < k
        /\ \A k \in at : \A i \in 1..(k - 1) :
             xds.filters[i].kind \in afterExtProcFilterPrefixes =>
               \E b \in Where(xds.filters, {"buffer"}) : i < b

(* Clusters that carry what the stored rules say.                          *)
ServesRule(c, rule) ==
  /\ c.pool = rule.pool
  /\ "ext_proc" \in Range(c.upstream) /\ Last(c.upstream) = "codec"
  /\ site.proxy /\ c.pool = NoPool => c.sockets # {} /\ \A s \in c.sockets : s.proxied
  /\ ~c.known => c.name = PerRouteRuleRefBackendName(rule, c.rule, 1)
  /\ \A k \in DOMAIN c.endpoints : \E j \in DOMAIN rule.refs :
       /\ c.ref \in {0, j}
       /\ c.ref = 0 => ~rule.refs[j].zero
       /\ c.endpoints[k].to = Address[rule.refs[j].backend]
       /\ c.endpoints[k].name = PerRouteRuleRefBackendName(rule, c.rule, j)
       /\ c.endpoints[k].priority = rule.refs[j].priority

ServesSpec ==
  /\ {xds.clusters[k].rule : k \in DOMAIN xds.clusters} \ {0} = DOMAIN spec
  /\ \A k \in DOMAIN xds.clusters :
       xds.clusters[k].rule # 0 => ServesRule(xds.clusters[k], spec[xds.clusters[k].rule])

(***************************************************************************)
(* Once the AIGatewayRoute stays as it is, Envoy ends running with clusters     *)
(* whose endpoints carry the name and the priority of the backend ref they *)
(* were made from, with the upstream filter and the forward proxy          *)
(* (maybeModifyCluster), although translations of an older HTTPRoute put   *)
(* names on the wrong endpoints, or end the process, on the way.  Only the *)
(* annotation of buildPriorityAnnotation tells Envoy Gateway of a change   *)
(* that leaves the HTTPRoute's rules alone.                                *)
(***************************************************************************)
NamesSettle == <>[]ServesSpec
=============================================================================
