----------------------------- MODULE MCPResources -----------------------------
(* The resources the MCPRoute controller generates in one namespace: for each*)
(* route a main HTTPRoute and the objects of its security policy, for each   *)
(* backend of a route an HTTPRoute, a filter and, for an API key in a secret,*)
(* a credential; and one proxy Backend that all routes share.  The controller*)
(* makes one call after the other, reads most objects from the informers'    *)
(* cache, and starts over after a call that failed.                          *)
EXTENDS Integers, Sequences, FiniteSets

CONSTANTS MCPRoutes, Backends,
          Scenarios,   \* the routes, the calls of backends and the policies the user
                       \* chooses from, how often, and whether the cache is prompt
          MaxFailures  \* bound on calls that fail for no reason of ours

VARIABLES scenario, \* the one that is played
          spec,     \* the MCPRoutes in the API server
          made,     \* the generated objects in the API server
          seenSpec, seenMade, \* the cache of both
          lagSpec, lag,       \* of which it has not the latest
          queue,    \* the routes to be reconciled
          task,     \* the route being reconciled and the calls to be made
          changes, failures

resources == <<scenario, spec, made, seenSpec, seenMade, lagSpec, lag, queue, task, changes, failures>>

(* A route: whether it is there, how its backends are called, its policy.    *)
RouteState == {"none", "live", "deleting", "gone"}
NoRefs == [b \in Backends |-> "absent"]
NoRoute == [is |-> "none", refs |-> NoRefs, auth |-> "none"]

(* The objects, named by their route: those of a backend b and those of the  *)
(* route as a whole.                                                         *)
OfBackend == {"http", "filter", "cred"}
OAuthParts == {"btp", "metadata", "authServer"}
OfRoute == {"main", "policy"} \cup OAuthParts
Object == [route : MCPRoutes, part : OfBackend, of : Backends]
            \cup [route : MCPRoutes, part : OfRoute, of : {"route"}]
            \cup [route : {"shared"}, part : {"proxy"}, of : {"route"}]
Obj(r, p, b) == [route |-> r, part |-> p, of |-> b]
Proxy == Obj("shared", "proxy", "route")

(* What an object holds of its route; "nil" when it is not there.            *)
Content == {"nil", "set", "plain", "key", "none", "apiKey", "oauth"}

-----------------------------------------------------------------------------
(* What the objects of a route with this spec should hold.                   *)
Wanted(s, p, b) ==
  CASE p = "main" -> s.auth
    [] p = "policy" -> IF s.auth = "none" THEN "nil" ELSE s.auth
    [] p \in OAuthParts -> IF s.auth = "oauth" THEN "set" ELSE "nil"
    [] p = "cred" -> IF s.refs[b] = "key" THEN "set" ELSE "nil"
    [] p = "http" -> IF s.refs[b] = "absent" THEN "nil" ELSE "set"
    [] p = "filter" -> IF s.refs[b] = "absent" THEN "nil" ELSE s.refs[b]

(* The calls of syncMCPRoute, in their order.  "list" finds the HTTPRoutes   *)
(* of backends that are there and makes up the rest.                         *)
Call(verb, o, val) == [verb |-> verb, obj |-> o, val |-> val]

ensureMCPProxyBackend == Call("ensure", Proxy, "set")

newMainHTTPRoute(r, s) == Call("ensure", Obj(r, "main", "route"), s.auth)

listExistingPerBackendHTTPRoutes(r) == Call("list", Obj(r, "http", "route"), "nil")

(* A key in a secret is copied to a credential; a filter that had one and    *)
(* shall have none any more is the only trace of it.                         *)
ensureCredentialSecret(r, b) == Call("put", Obj(r, "cred", b), "set")

ensureMCPBackendRefHTTPFilter(r, s, b) ==
  << IF s.refs[b] = "key" THEN ensureCredentialSecret(r, b) ELSE Call("unlink", Obj(r, "filter", b), "plain"),
     Call("ensure", Obj(r, "filter", b), s.refs[b]) >>

newPerBackendRefHTTPRoute(r, s, b) ==
  Append(ensureMCPBackendRefHTTPFilter(r, s, b), Call("ensure", Obj(r, "http", b), "set"))

deleteOrphanedPerBackendResources(r, b) ==
  << Call("drop", Obj(r, "http", b), "nil"), Call("drop", Obj(r, "filter", b), "nil"),
     Call("drop", Obj(r, "cred", b), "nil") >>

ensureSecurityPolicy(r, s) == Call("ensure", Obj(r, "policy", "route"), s.auth)

cleanupSecurityPolicyResources(r) == Call("cleanup", Obj(r, "policy", "route"), "nil")

ensureOAuthProtectedResourceMetadataBTP(r) == Call("ensure", Obj(r, "btp", "route"), "set")

ensureOAuthProtectedResourceMetadataHRF(r) == Call("ensure", Obj(r, "metadata", "route"), "set")

ensureOAuthAuthServerMetadataHRF(r) == Call("ensure", Obj(r, "authServer", "route"), "set")

ensureOAuthResources(r) ==
  << ensureOAuthProtectedResourceMetadataBTP(r), ensureOAuthProtectedResourceMetadataHRF(r),
     ensureOAuthAuthServerMetadataHRF(r) >>

cleanupOAuthResources(r) ==
  << Call("cleanup", Obj(r, "btp", "route"), "nil"), Call("cleanup", Obj(r, "metadata", "route"), "nil"),
     Call("cleanup", Obj(r, "authServer", "route"), "nil") >>

syncMCPRouteSecurityPolicy(r, s) ==
  CASE s.auth = "oauth" -> <<ensureSecurityPolicy(r, s)>> \o ensureOAuthResources(r)
    [] s.auth = "apiKey" -> <<ensureSecurityPolicy(r, s)>> \o cleanupOAuthResources(r)
    [] OTHER -> <<cleanupSecurityPolicyResources(r)>> \o cleanupOAuthResources(r)

onMCPRouteDeleted == <<Call("release", Proxy, "nil"), Call("finalize", Proxy, "nil")>>

(* The calls for some backends, three for each, one backend after the other. *)
Orders(S) ==
  {f \in [1..Cardinality(S) -> S] : \A x \in S : \E i \in DOMAIN f : \A j \in DOMAIN f : f[j] = x <=> j = i}

Order(S) == CHOOSE f \in Orders(S) : TRUE

Ordered(S) == Cardinality(S) \in Nat /\ Orders(S) # {}

(* No route has a name that the model uses for another purpose, there are    *)
(* finitely many backends, so that any of them can be put in order, and      *)
(* users write what the API admits.                                          *)
Names ==
  /\ "none" \notin MCPRoutes /\ "shared" \notin MCPRoutes /\ MaxFailures \in Nat
  /\ \A S \in SUBSET Backends : Ordered(S)
  /\ \A c \in Scenarios : /\ c.changes \in Nat /\ c.prompt \in BOOLEAN
                          /\ c.refs \subseteq [Backends -> {"absent", "plain", "key"}]
                          /\ c.auths \subseteq {"none", "apiKey", "oauth"}

ASSUME ResourcesAssumption == Names

Each(calls) ==
  LET order == Order(DOMAIN calls)
  IN  [i \in 1..(3 * Cardinality(DOMAIN calls)) |-> calls[order[(i + 2) \div 3]][((i + 2) % 3) + 1]]

AfterList(r, s) ==
  LET refs == {b \in Backends : s.refs[b] # "absent"}
      orphans == {b \in Backends \ refs : seenMade[Obj(r, "http", b)] # "nil"}
  IN  Each([b \in refs |-> newPerBackendRefHTTPRoute(r, s, b)])
        \o Each([b \in orphans |-> deleteOrphanedPerBackendResources(r, b)])
        \o syncMCPRouteSecurityPolicy(r, s)

(* Reconcile of a route as the cache has it.                                 *)
syncMCPRoute(r, s) ==
  CASE s.is = "live" -> <<ensureMCPProxyBackend, newMainHTTPRoute(r, s), listExistingPerBackendHTTPRoutes(r)>>
    [] s.is = "deleting" -> onMCPRouteDeleted
    [] OTHER -> <<>>

-----------------------------------------------------------------------------
NoTask == [route |-> "none", spec |-> NoRoute, todo |-> <<>>]

ResourcesInit ==
  /\ scenario \in Scenarios
  /\ spec = [r \in MCPRoutes |-> NoRoute] /\ seenSpec = spec
  /\ made = [o \in Object |-> "nil"] /\ seenMade = made
  /\ lagSpec = {} /\ lag = {} /\ queue = {} /\ task = NoTask /\ changes = 0 /\ failures = 0

(* The user creates, edits and deletes routes.                               *)
UserWrites(r, s) ==
  /\ changes < scenario.changes /\ changes' = changes + 1
  /\ spec' = [spec EXCEPT ![r] = s] /\ lagSpec' = lagSpec \cup {r}
  /\ UNCHANGED <<scenario, made, seenSpec, seenMade, lag, queue, task, failures>>

Apply(r) ==
  /\ r \in scenario.routes /\ spec[r].is \in {"none", "live"}
  /\ \E refs \in scenario.refs, auth \in scenario.auths :
       LET s == [is |-> "live", refs |-> refs, auth |-> auth] IN s # spec[r] /\ UserWrites(r, s)

DeleteRoute(r) == spec[r].is = "live" /\ UserWrites(r, [spec[r] EXCEPT !.is = "deleting"])

(* The cache takes in a route or an object; a route is brought back by the   *)
(* HTTPRoutes it owns.                                                       *)
WatchRoute(r) ==
  /\ r \in lagSpec /\ lagSpec' = lagSpec \ {r}
  /\ seenSpec' = [seenSpec EXCEPT ![r] = spec[r]] /\ queue' = queue \cup {r}
  /\ UNCHANGED <<scenario, spec, made, seenMade, lag, task, changes, failures>>

WatchObject(o) ==
  /\ o \in lag /\ lag' = lag \ {o} /\ seenMade' = [seenMade EXCEPT ![o] = made[o]]
  /\ queue' = queue \cup {r \in MCPRoutes : o.route = r /\ o.part \in {"main", "http"} /\ seenMade[o] # made[o]}
  /\ UNCHANGED <<scenario, spec, made, seenSpec, lagSpec, task, changes, failures>>

(* With the route its owner gone, what it owns is collected.                 *)
Collect(r) ==
  LET owned == {o \in Object : o.route = r}
  IN  /\ spec[r].is = "gone" /\ \E o \in owned : made[o] # "nil"
      /\ made' = [o \in Object |-> IF o \in owned THEN "nil" ELSE made[o]]
      /\ seenMade' = [o \in Object |-> IF o \in owned THEN "nil" ELSE seenMade[o]]
      /\ lag' = lag \ owned
      /\ UNCHANGED <<scenario, spec, seenSpec, lagSpec, queue, task, changes, failures>>

-----------------------------------------------------------------------------
StartSync(r) ==
  /\ r \in queue /\ task = NoTask /\ (scenario.prompt => lagSpec = {} /\ lag = {})
  /\ queue' = queue \ {r}
  /\ task' = IF syncMCPRoute(r, seenSpec[r]) = <<>> THEN NoTask
            ELSE [route |-> r, spec |-> seenSpec[r], todo |-> syncMCPRoute(r, seenSpec[r])]
  /\ UNCHANGED <<scenario, spec, made, seenSpec, seenMade, lagSpec, lag, changes, failures>>

(* The next call is made: todo is what remains to be done after it.          *)
Proceed(todo) == task' = IF todo = <<>> THEN NoTask ELSE [task EXCEPT !.todo = todo]

WriteObject(o, val) ==
  /\ made' = [made EXCEPT ![o] = val]
  /\ lag' = lag \cup {x \in {o} : made[o] # val}

FailQuietly ==              \* mutant: the error is not returned
  /\ task' = NoTask /\ UNCHANGED <<scenario, spec, made, seenSpec, seenMade, lagSpec, lag, queue, changes>>

(* A call that is refused, or fails, ends the reconciliation, and the route  *)
(* is queued again.                                                          *)
Fail ==
  /\ task' = NoTask /\ queue' = queue \cup {task.route}
  /\ UNCHANGED <<scenario, spec, made, seenSpec, seenMade, lagSpec, lag, changes>>

CallRefused(c) ==
  \/ c.verb = "ensure" /\ (IF seenMade[c.obj] = "nil" THEN made[c.obj] # "nil" /\ c.obj # Proxy
                           ELSE c.obj \in lag /\ c.obj # Proxy)
  \/ c.verb = "cleanup" /\ seenMade[c.obj] # "nil" /\ made[c.obj] = "nil"

(* Get, then Create or Update.  The proxy Backend is never updated, and that *)
(* it already exists is no error.                                            *)
Ensure(c) ==
  /\ c.verb = "ensure" /\ ~CallRefused(c)
  /\ IF c.obj = Proxy /\ seenMade[Proxy] # "nil" THEN UNCHANGED <<made, lag>> ELSE WriteObject(c.obj, c.val)

(* Get, then Delete.                                                         *)
Cleanup(c) ==
  /\ c.verb = "cleanup" /\ ~CallRefused(c)
  /\ IF seenMade[c.obj] = "nil" THEN UNCHANGED <<made, lag>> ELSE WriteObject(c.obj, "nil")

(* Calls that do not look at the cache: the credential and the orphans.      *)
Put(c) == c.verb \in {"put", "drop"} /\ WriteObject(c.obj, c.val)

(* The filter had a credential and has none any more.                        *)
Unlink(c) ==
  /\ c.verb = "unlink"
  /\ IF seenMade[c.obj] = "key" THEN WriteObject([c.obj EXCEPT !.part = "cred"], "nil") ELSE UNCHANGED <<made, lag>>

(* cleanupSharedMCPProxyBackend: the last route takes the proxy with it.     *)
ReleaseProxy(c) ==
  /\ c.verb = "release"
  /\ IF (\E r \in MCPRoutes \ {task.route} : seenSpec[r].is = "live") \/ seenMade[Proxy] = "nil"
     THEN UNCHANGED <<made, lag>> ELSE WriteObject(Proxy, "nil")

Finalize(c) ==
  /\ c.verb = "finalize" /\ spec' = [spec EXCEPT ![task.route].is = "gone"]
  /\ lagSpec' = lagSpec \cup {task.route} /\ UNCHANGED <<made, lag>>

Step ==
  /\ task # NoTask
  /\ LET c == Head(task.todo)
     IN  \/ /\ c.verb = "list" /\ Proceed(AfterList(task.route, task.spec))
            /\ UNCHANGED <<spec, made, lagSpec, lag, queue, failures>>
         \/ /\ Ensure(c) \/ Cleanup(c) \/ Put(c) \/ Unlink(c) \/ ReleaseProxy(c)
            /\ Proceed(Tail(task.todo)) /\ UNCHANGED <<spec, lagSpec, queue, failures>>
         \/ Finalize(c) /\ Proceed(Tail(task.todo)) /\ UNCHANGED <<queue, failures>>
  /\ UNCHANGED <<scenario, seenSpec, seenMade, changes>>

CallFails ==
  /\ task # NoTask /\ Head(task.todo).verb \notin {"release", "finalize"}
  /\ \/ CallRefused(Head(task.todo)) /\ UNCHANGED failures
     \/ failures < MaxFailures /\ failures' = failures + 1
  /\ Fail

ResourcesNext ==
  \/ \E r \in MCPRoutes : Apply(r) \/ DeleteRoute(r) \/ WatchRoute(r) \/ StartSync(r) \/ Collect(r)
  \/ \E o \in Object : WatchObject(o)
  \/ Step \/ CallFails

ResourcesSpec == ResourcesInit /\ [][ResourcesNext]_resources

-----------------------------------------------------------------------------
Spec1 == [is : RouteState, refs : [Backends -> {"absent", "plain", "key"}], auth : {"none", "apiKey", "oauth"}]

ResourcesTypeOK ==
  /\ scenario \in Scenarios /\ spec \in [MCPRoutes -> Spec1] /\ seenSpec \in [MCPRoutes -> Spec1]
  /\ made \in [Object -> Content] /\ seenMade \in [Object -> Content]
  /\ lagSpec \subseteq MCPRoutes /\ lag \subseteq Object /\ queue \subseteq MCPRoutes
  /\ changes \in 0..scenario.changes /\ failures \in 0..MaxFailures
  /\ task # NoTask => task.route \in MCPRoutes /\ task.spec \in Spec1 /\ task.todo # <<>>

NothingToDo == lagSpec = {} /\ lag = {} /\ queue = {} /\ task = NoTask

OfLive(o) == \E r \in MCPRoutes : o.route = r /\ spec[r].is = "live"

(* When the controller has nothing to do, every object a route calls for is  *)
(* there and holds what the route says now, whatever the cache was behind    *)
(* and whichever call failed: a refused call of syncMCPRoute is an error and *)
(* the error a retry.  This includes the proxy Backend that the HTTPRoutes   *)
(* share, although other routes of the namespace were deleted at the same    *)
(* time (cleanupSharedMCPProxyBackend), when the cache is up to date.        *)
NothingMissing ==
  NothingToDo =>
    /\ \A o \in Object : OfLive(o) =>
         LET w == Wanted(spec[o.route], o.part, o.of) IN w # "nil" => made[o] = w
    /\ scenario.prompt /\ (\E r \in MCPRoutes : spec[r].is = "live") => made[Proxy] # "nil"

(* Nor is there an object that the route does not call for any more: what    *)
(* belonged to a backend or to a policy that was removed is deleted.         *)
NothingLeft ==
  NothingToDo => \A o \in Object : OfLive(o) => (Wanted(spec[o.route], o.part, o.of) = "nil" => made[o] = "nil")

(* This holds while no call fails and the cache is up to date whenever a     *)
(* reconciliation begins.                                                    *)
Tidy == scenario.prompt /\ failures = 0 => NothingLeft

(* A route that was reconciled has everything its spec asks for              *)
(* (syncMCPRoute), and nothing is left of what it no longer asks for, as far *)
(* as one reconcile can know (deleteOrphanedPerBackendResources,             *)
(* cleanupOAuthResources).                                                   *)
ResourcesAsAsked == NothingMissing /\ Tidy
=============================================================================
