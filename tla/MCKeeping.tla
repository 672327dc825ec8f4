------------------------------ MODULE MCKeeping ------------------------------
(***************************************************************************)
(* Controllers that keep something in being and share nothing: the one that *)
(* rotates credentials, the one that generates the resources of MCP routes, *)
(* the one that gives the pods of a Gateway their processors; and the       *)
(* extension server, which keeps requests on the way to their filters and   *)
(* backends, in four installations, while the AIGatewayRoute is edited.  A  *)
(* behaviour shows one of them; the variables of the others do not change.  *)
(***************************************************************************)
EXTENDS GatewayRollout, Rotation, MCPResources

CONSTANTS Reverts, MaxRouteEdits

VARIABLES part, routeSpec, reconciled, http, dirty, running, site, xds, routeEdits

translating == <<routeSpec, reconciled, http, dirty, running, site, xds, routeEdits>>

(***************************************************************************)
(* Routes and installations.                                                *)
(***************************************************************************)
(* AIGatewayRoutes that differ in the number of refs and rules, in a        *)
(* disabled ref, in the priorities, in the AIServiceBackend of one Backend, *)
(* and in pools.                                                            *)
Ref(b, zero, priority) == [backend |-> b, zero |-> zero, priority |-> priority]
Rule(refs, timeout) == [refs |-> refs, pool |-> "none", timeout |-> timeout]
PoolRule(p) == [refs |-> <<Ref(p, FALSE, 0)>>, pool |-> p, timeout |-> 0]

RouteSpecs ==
  { << Rule(<<Ref("b1", FALSE, 0)>>, 0) >>,
    << Rule(<<Ref("b1", TRUE, 0), Ref("b2", FALSE, 1)>>, 0), PoolRule("p1") >>,
    << Rule(<<Ref("b1", FALSE, 1), Ref("b2", FALSE, 0)>>, 1) >>,
    << Rule(<<Ref("b3", FALSE, 0)>>, 0) >>,
    << PoolRule("p1"), PoolRule("p2"), PoolRule("p1") >> }

AddressOf == [b \in {"b1", "b2", "b3", "p1", "p2"} |-> IF b = "b3" THEN "b1" ELSE b]

F(name) == [kind |-> name, id |-> ""]
Scripted == <<F("cors"), F("lua"), F("router")>>
Buffered == <<F("ext_proc"), F("buffer"), F("wasm"), [kind |-> "credential_injector", id |-> "mcp"], F("router")>>

Site(mode, filters, proxy, upstream) ==
  [mode |-> mode, standalone |-> mode = "eds", filters |-> filters, proxy |-> proxy, upstream |-> upstream]

Installations ==
  { Site("inline", Scripted, TRUE, <<>>), Site("inline", Buffered, FALSE, <<"injector", "codec">>),
    Site("eds", Buffered, TRUE, <<>>), Site("perBackend", Scripted, TRUE, <<"injector", "codec">>) }

(* A route of another HTTPRoute with a pool, one without, and those of an   *)
(* MCPRoute.                                                                *)
Other(mcp, pool, authn) ==
  [rule |-> 0, annotated |-> FALSE, mcp |-> mcp, pool |-> pool, off |-> {}, on |-> {},
   authn |-> authn, limited |-> FALSE, timeout |-> 0]

Others == <<Other("", "p2", FALSE), Other("", "none", FALSE), Other("main", "none", TRUE),
            Other("well-known", "none", TRUE), Other("backend", "none", FALSE)>>

X == INSTANCE XdsModify WITH
       Specs <- RouteSpecs, NoPool <- "none", Address <- AddressOf, Tls <- {"b1"},
       Sites <- Installations, OtherRoutes <- Others, Limited <- {"b2"}, LogHeaders <- TRUE,
       spec <- routeSpec, seen <- reconciled, edits <- routeEdits, MaxEdits <- MaxRouteEdits

MCInit ==
  /\ part \in {"rotation", "resources", "rollout", "xds"}
  /\ Init /\ (workload = "deployment" <=> api.ai = "live")
          /\ (part # "rollout" => workload = CHOOSE w \in Workloads : TRUE)
  /\ RotationInit /\ (part # "rotation" => kind = "late")
  /\ ResourcesInit /\ (part # "resources" => scenario = CHOOSE s \in Scenarios : TRUE)
  /\ X!Init /\ (part # "xds" => /\ routeSpec = CHOOSE s \in RouteSpecs : TRUE
                               /\ site = CHOOSE s \in Installations : TRUE)

MCNext ==
  \/ part = "rollout" /\ Next /\ UNCHANGED <<part, rotation, resources, translating>>
  \/ part = "rotation" /\ RotationNext /\ UNCHANGED <<part, vars, resources, translating>>
  \/ part = "resources" /\ ResourcesNext /\ UNCHANGED <<part, vars, rotation, translating>>
  \/ part = "xds" /\ X!Next /\ UNCHANGED <<part, vars, rotation, resources>>

(* Fairness as in GatewayRollout and XdsModify.                             *)
MCSpec ==
  /\ MCInit /\ [][MCNext]_<<part, vars, rotation, resources, translating>>
  /\ \A o \in Objects : WF_vars(part = "rollout" /\ Watch(o))
  /\ \A r \in Routes : WF_vars(part = "rollout" /\ Release(r))
  /\ WF_vars(part = "rollout" /\ CreatePod) /\ WF_vars(part = "rollout" /\ CreateWorkload)
  /\ WF_vars(part = "rollout" /\ Observe) /\ WF_vars(part = "rollout" /\ Reconcile)
  /\ SF_translating(part = "xds" /\ X!SyncHTTPRoute)
  /\ WF_dirty(part = "xds" /\ X!TranslateChange)
  /\ WF_translating(part = "xds" /\ X!Restart)

\* The rollouts come to an end (annotateGatewayPods).
EveryRolloutEnds == (part = "rollout") => RolloutsEnd

\* Every request runs through the filters of the route that serves it: the AI
\* gateway's, its pool's endpoint picker and no other, and its quota check
\* (PostTranslateModify).
RequestsRunTheirFilters == part = "xds" => X!RequestsRunTheirFilters

\* Once the AIGatewayRoute stays as it is, the endpoints Envoy has carry the names
\* and priorities of the backend refs they were made from (maybeModifyCluster,
\* buildPriorityAnnotation).
NamesSettle == part = "xds" => X!NamesSettle

(***************************************************************************)
(* Scenarios of MCPResources: a backend that comes and goes, with its key   *)
(* in a secret or not; the security policies; routes that share the Backend *)
(* of the proxy.                                                            *)
(***************************************************************************)
Play(routes, backends, kinds, auths, n, prompt) ==
  [ routes |-> routes, auths |-> auths, changes |-> n, prompt |-> prompt,
    refs |-> {f \in [Backends -> {"absent"} \cup kinds] :
                \A b \in Backends \ backends : f[b] = "absent"} ]

Plays ==
  { Play({"r1"}, {"b1"}, {"plain", "key"}, {"none"}, 2, FALSE),
    Play({"r1"}, {}, {}, {"none", "apiKey", "oauth"}, 2, FALSE),
    Play({"r1", "r2"}, {}, {}, {"none"}, 4, FALSE),
    Play({"r1"}, {"b1", "b2"}, {"key"}, {"none"}, 2, TRUE),
    Play({"r1"}, {"b1"}, {"plain", "key"}, {"none", "oauth"}, 2, TRUE),
    Play({"r1", "r2"}, {}, {}, {"none"}, 4, TRUE) }

=============================================================================
