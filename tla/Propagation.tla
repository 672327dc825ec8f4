----------------------------- MODULE Propagation -----------------------------
(* How a change of an object reaches the configuration of the gateway.  Each *)
(* kind of object has a controller with a work queue; a controller that has  *)
(* dealt with an object sends events over a bounded channel to those that    *)
(* depend on it, up to the Gateway controller, which writes the configuration*)
(* from what it finds in the informers' cache.  There is one object of each  *)
(* kind.                                                                     *)
EXTENDS Integers, Sequences

CONSTANTS Worlds,      \* the clusters: kinds of objects, what the route refers to, which are
                       \* deleted, whether calls fail and the controllers restart
          EarlyDelete, \* whether also before the controller put its finalizer
          Cap,         \* room in an event channel
          MaxEvents    \* bound on the user's changes, failed calls and restarts together

Kind == {"Secret", "BSP", "Backend", "Pool", "QuotaPolicy", "ReferenceGrant",
         "Route", "MCPRoute", "GatewayConfig", "Gateway"}

ASSUME PropagationAssumption ==
  /\ Worlds \subseteq [kinds : SUBSET Kind, ref : {"Backend", "Pool"}, deleted : SUBSET Kind,
                       trouble : SUBSET {"fault", "restart"}]
  /\ EarlyDelete \in BOOLEAN
  /\ Cap \in Nat \ {0} /\ MaxEvents \in Nat

VARIABLES world,    \* the cluster
          api,      \* the objects in the API server
          seen,     \* their copies in the informers' cache
          lag,      \* the kinds whose copy is not the latest version
          queue,    \* the objects in the work queues of their controllers
          chan,     \* events in the channel to the controller of a kind
          job,      \* where each controller is in its Reconcile
          draft,    \* the configuration the Gateway controller is about to write
          config,   \* the configuration last written
          derived,  \* the versions the generated HTTPRoutes and the MCP credential were made from
          lost,     \* the kinds whose announcement failed, and was only logged, since the
                    \* Gateway controller last read the cache
          events    \* changes, failed calls and restarts so far

vars == <<world, api, seen, lag, queue, chan, job, draft, config, derived, lost, events>>

(* gen is the generation: 0 for an object that was never created.            *)
Object == [on : BOOLEAN, gen : 0..MaxEvents + 1, del : BOOLEAN, fin : BOOLEAN]
Never == [on |-> FALSE, gen |-> 0, del |-> FALSE, fin |-> FALSE]
Gone(o) == [o EXCEPT !.on = FALSE, !.del = FALSE, !.fin = FALSE]
Live(o) == o.on /\ ~o.del

(* cur: the version read is still the latest, so that an Update is accepted. *)
Idle == [at |-> "idle", obj |-> Never, cur |-> FALSE, todo |-> <<>>, retry |-> FALSE]

Finalized == {"BSP", "Backend", "Route", "MCPRoute", "QuotaPolicy"}
Statused == Finalized \cup {"Pool", "GatewayConfig"}

(* The versions in a configuration; 0 stands for what is not there.          *)
Content == {"Secret", "BSP", "Backend", "QuotaPolicy", "Route", "MCPRoute", "GatewayConfig"}

(* What HTTPRoutes, and the credential of an MCPRoute's backend, hold.       *)
Derived == {"Route", "Backend", "MCPRoute", "Secret"}

TypeOK ==
  /\ world \in Worlds /\ api \in [Kind -> Object] /\ seen \in [Kind -> Object]
  /\ lag \subseteq Kind /\ queue \subseteq Kind /\ chan \in [Kind -> 0..Cap]
  /\ job \in [Kind -> [at : {"idle", "add", "sync", "send", "drop", "status", "write"}, obj : Object,
                       cur : BOOLEAN, todo : Seq(Kind), retry : BOOLEAN]]
  /\ draft \in [Content -> 0..MaxEvents + 1] /\ config \in [Content -> 0..MaxEvents + 1]
  /\ derived \in [Derived -> 0..MaxEvents + 1] /\ lost \subseteq Kind
  /\ events \in 0..MaxEvents

-----------------------------------------------------------------------------
(* What reconcileFilterConfigSecret makes of the objects it finds: a route   *)
(* that is being deleted is left out, and so is a backend that is not there  *)
(* or whose policy's secret is not, and the costs of a quota policy are put  *)
(* in with the backend.                                                      *)
backendWithMaybeBSP(objs) == world.ref = "Backend" => objs["Backend"].on

bspToFilterAPIBackendAuth(objs) == objs["BSP"].on => objs["Secret"].on

BackendFound(objs) ==
  Live(objs["Route"]) /\ backendWithMaybeBSP(objs) /\ bspToFilterAPIBackendAuth(objs)

mcpConfig(objs) == Live(objs["MCPRoute"])

injectQuotaPolicyCostExpressions(objs) == BackendFound(objs) /\ objs["QuotaPolicy"].on

fetchGatewayConfig(objs) == objs["GatewayConfig"].on

Included(objs, k) ==
  CASE k = "Route" -> Live(objs["Route"])
    [] k = "MCPRoute" -> mcpConfig(objs)
    [] k = "Backend" -> BackendFound(objs) /\ world.ref = "Backend"
    [] k \in {"BSP", "Secret"} -> BackendFound(objs) /\ objs["BSP"].on
    [] k = "QuotaPolicy" -> injectQuotaPolicyCostExpressions(objs)
    [] k = "GatewayConfig" -> fetchGatewayConfig(objs)

(* Marking an object for deletion changes its generation and not its spec.   *)
Version(o) == IF o.del THEN o.gen - 1 ELSE o.gen

FilterConfig(objs) == [k \in Content |-> IF Included(objs, k) THEN Version(objs[k]) ELSE 0]

(* What it should be, by the objects that are there.                         *)
Desired == FilterConfig(api)

-----------------------------------------------------------------------------
(* The cluster is at rest: every object is reconciled, but for one that may  *)
(* not be there yet.                                                         *)
Existing(k) == [on |-> TRUE, gen |-> 1, del |-> FALSE, fin |-> k \in Finalized]

Init ==
  /\ world \in Worlds
  /\ \E missing \in SUBSET world.kinds :
       /\ \A k1, k2 \in missing : k1 = k2
       /\ api = [k \in Kind |-> IF k \in world.kinds \ missing THEN Existing(k) ELSE Never]
  /\ seen = api /\ lag = {} /\ queue = {} /\ chan = [k \in Kind |-> 0]
  /\ job = [k \in Kind |-> Idle]
  /\ config = FilterConfig(api) /\ draft = [k \in Content |-> 0]
  /\ derived = [k \in Derived |-> api[k].gen]
  /\ lost = {} /\ events = 0

-----------------------------------------------------------------------------
Counted == events < MaxEvents /\ events' = events + 1

(* The user.                                                                 *)
Written(k, o) ==
  /\ api' = [api EXCEPT ![k] = o] /\ lag' = lag \cup {k}

UserWrites(k, o) ==
  /\ k \in world.kinds /\ Counted
  /\ Written(k, o) /\ job' = [job EXCEPT ![k].cur = FALSE]
  /\ UNCHANGED <<world, seen, queue, chan, draft, config, derived, lost>>

Create(k) == api[k].gen = 0 /\ UserWrites(k, [on |-> TRUE, gen |-> 1, del |-> FALSE, fin |-> FALSE])

Edit(k) == Live(api[k]) /\ UserWrites(k, [api[k] EXCEPT !.gen = @ + 1])

(* An object with a finalizer is marked only, and its generation changes.    *)
Delete(k) ==
  /\ k \in world.deleted /\ Live(api[k]) /\ (EarlyDelete \/ k \notin Finalized \/ api[k].fin)
  /\ UserWrites(k, IF api[k].fin THEN [api[k] EXCEPT !.del = TRUE, !.gen = @ + 1] ELSE Gone(api[k]))

(* The informer takes in the latest version, and GenerationChangedPredicate  *)
(* lets through what is new, gone or of another generation.                  *)
BackendToQuotaPolicy(k) == {q \in {"QuotaPolicy"} : k = "Backend" /\ seen[q].on}

PoolEventHandlers(k) ==
  {p \in {"Pool"} : k \in {"Route", "Gateway"} /\ world.ref = "Pool" /\ seen[p].on}

Concerns(k) == {k} \cup BackendToQuotaPolicy(k) \cup PoolEventHandlers(k)

Watch(k) ==
  /\ k \in lag /\ lag' = lag \ {k} /\ seen' = [seen EXCEPT ![k] = api[k]]
  /\ queue' = queue \cup IF seen[k].on # api[k].on \/ seen[k].gen # api[k].gen THEN Concerns(k) ELSE {}
  /\ UNCHANGED <<world, api, chan, job, draft, config, derived, lost, events>>

(* source.Channel puts the events of a channel into the work queue.          *)
Deliver(k) ==
  /\ chan[k] > 0 /\ chan' = [chan EXCEPT ![k] = @ - 1] /\ queue' = queue \cup {k}
  /\ UNCHANGED <<world, api, seen, lag, job, draft, config, derived, lost, events>>

(* The controllers start again: every object in the cache is queued.         *)
Restart ==
  /\ "restart" \in world.trouble /\ Counted
  /\ seen' = api /\ lag' = {} /\ queue' = {k \in Kind : api[k].on}
  /\ chan' = [k \in Kind |-> 0] /\ job' = [k \in Kind |-> Idle]
  /\ UNCHANGED <<world, api, draft, config, derived, lost>>

-----------------------------------------------------------------------------
(* Reconcile of every controller but the Gateway's.                          *)

(* To whom each of them sends: those of the kinds named that are there.      *)
Present(k) == IF seen[k].on THEN <<k>> ELSE <<>>

syncSecretOnce == Present("BSP")     \* mutant: a secret is announced to one of the two kinds only

syncSecret == Present("BSP") \o Present("MCPRoute")

syncBackendSecurityPolicy == Present("Backend") \o Present("Pool")

syncAIServiceBackend == IF world.ref = "Backend" THEN Present("Route") ELSE <<>>

notifyAIGatewayRoutes == Present("Route")

getAffectedAIGatewayRoutes == Present("Route")

syncGateways == Present("Gateway")

mcpSyncGateways == Present("Gateway")

notifyReferencingGateways == Present("Gateway")

Notified(k) ==
  CASE k = "Secret" -> syncSecret
    [] k = "BSP" -> syncBackendSecurityPolicy
    [] k = "Backend" -> syncAIServiceBackend
    [] k = "QuotaPolicy" -> notifyAIGatewayRoutes
    [] k = "ReferenceGrant" -> getAffectedAIGatewayRoutes
    [] k = "Route" -> syncGateways
    [] k = "MCPRoute" -> mcpSyncGateways
    [] k = "GatewayConfig" -> notifyReferencingGateways
    [] OTHER -> <<>>

AfterSend(k, o) ==
  IF o.del /\ k # "Backend" THEN "drop"
  ELSE IF k \in Statused \ {"QuotaPolicy"} THEN "status" ELSE "idle"

Advance(k, stage, todo) ==
  LET at == IF stage = "send" /\ todo = <<>> THEN AfterSend(k, job[k].obj) ELSE stage
  IN  IF at = "idle" THEN job' = [job EXCEPT ![k] = Idle]
      ELSE job' = [job EXCEPT ![k].at = at, ![k].todo = todo]

(* Where handleFinalizer leads: onDeletion if there is a finalizer to remove, *)
(* past if it is gone already.                                               *)
handleFinalizer(o, onDeletion, past) ==
  CASE ~o.del /\ o.fin -> "sync"
    [] ~o.del /\ ~o.fin -> "add"
    [] o.del /\ o.fin -> onDeletion
    [] o.del /\ ~o.fin -> past

(* What each Reconcile does first with the object it found.  A QuotaPolicy   *)
(* that is not found is still announced to the routes.                       *)
AIGatewayRouteController(o) == handleFinalizer(o, "send", "status")

MCPRouteController(o) == handleFinalizer(o, "send", "status")

BackendSecurityPolicyController(o) == handleFinalizer(o, "send", "status")

AIBackendController(o) == handleFinalizer(o, "drop", "sync")

QuotaPolicyController(o) == IF o.on THEN handleFinalizer(o, "drop", "idle") ELSE "send"

SecretController == "sync"

InferencePoolController == "sync"

GatewayConfigController == "sync"

ReferenceGrantController == "sync"

FirstStage(k, o) ==
  IF ~o.on /\ k # "QuotaPolicy" THEN "idle" ELSE
  CASE k = "QuotaPolicy" -> QuotaPolicyController(o)
    [] k = "Route" -> AIGatewayRouteController(o)
    [] k = "MCPRoute" -> MCPRouteController(o)
    [] k = "BSP" -> BackendSecurityPolicyController(o)
    [] k = "Backend" -> AIBackendController(o)
    [] k = "Secret" -> SecretController
    [] k = "Pool" -> InferencePoolController
    [] k = "GatewayConfig" -> GatewayConfigController
    [] OTHER -> ReferenceGrantController

Start(k) ==
  LET o == seen[k]
      todo == IF FirstStage(k, o) = "send" THEN Notified(k) ELSE <<>>
      at == IF FirstStage(k, o) = "send" /\ todo = <<>> THEN AfterSend(k, o) ELSE FirstStage(k, o)
  IN  /\ k \in queue \ {"Gateway"} /\ job[k].at = "idle" /\ queue' = queue \ {k}
      /\ job' = [job EXCEPT ![k] =
           IF at = "idle" THEN Idle
           ELSE [at |-> at, obj |-> o, cur |-> k \notin lag, todo |-> todo, retry |-> FALSE]]
      /\ UNCHANGED <<world, api, seen, lag, chan, draft, config, derived, lost, events>>

(* The Update that adds the finalizer; when it is refused that is logged.    *)
AddFinalizer(k) ==
  /\ job[k].at = "add" /\ job' = [job EXCEPT ![k].at = "sync"]
  /\ IF job[k].cur
     THEN Written(k, [api[k] EXCEPT !.fin = TRUE])
     ELSE UNCHANGED <<api, lag>>
  /\ UNCHANGED <<world, seen, queue, chan, draft, config, derived, lost, events>>

(* What sync needs besides the object itself.                                *)
validateAndGetBackend(objs) ==
  world.ref = "Backend" =>
    objs["Backend"].on /\ ("ReferenceGrant" \in world.kinds => objs["ReferenceGrant"].on)

readAPIKey == "Secret" \in world.kinds => api["Secret"].on

syncQuotaPolicy(objs) == objs["Backend"].on

SyncFinds(objs, k) ==
  CASE k = "Route" -> validateAndGetBackend(objs)
    [] k = "MCPRoute" -> readAPIKey
    [] k = "QuotaPolicy" -> syncQuotaPolicy(objs)
    [] OTHER -> TRUE

(* A route whose Gateway is not found has its HTTPRoute all the same.        *)
GatewayFound(k) == k \in {"Route", "MCPRoute"} => seen["Gateway"].on

newHTTPRoute(d) == [d EXCEPT !["Route"] = job["Route"].obj.gen, !["Backend"] = seen["Backend"].gen]

newMainHTTPRoute(d) == [d EXCEPT !["MCPRoute"] = job["MCPRoute"].obj.gen]

ensureCredentialSecret(d) == [d EXCEPT !["Secret"] = api["Secret"].gen]

(* A changed HTTPRoute brings its owner back.                                *)
SyncSucceeds(k) ==
  LET made == CASE k = "Route" -> newHTTPRoute(derived)
                [] k = "MCPRoute" -> ensureCredentialSecret(newMainHTTPRoute(derived))
                [] OTHER -> derived
  IN  /\ job[k].at = "sync" /\ SyncFinds(seen, k)
      /\ derived' = made
      /\ queue' = queue \cup {q \in {k} : \E d \in Derived \ {"Secret"} : made[d] # derived[d]}
      /\ IF k # "QuotaPolicy" /\ GatewayFound(k) THEN Advance(k, "send", Notified(k))
         ELSE job' = [job EXCEPT ![k].at = "status", ![k].retry = ~GatewayFound(k)]
      /\ UNCHANGED <<world, api, seen, lag, chan, draft, config, lost, events>>

(* Reconcile returns the error.                                              *)
Returned(k) ==
  IF k \in Statused
  THEN job' = [job EXCEPT ![k].at = "status", ![k].retry = TRUE] /\ UNCHANGED queue
  ELSE job' = [job EXCEPT ![k] = Idle] /\ queue' = queue \cup {k}

SyncFails(k) ==
  /\ job[k].at = "sync"
  /\ IF SyncFinds(seen, k) THEN "fault" \in world.trouble /\ Counted ELSE UNCHANGED events
  /\ Returned(k)
  /\ UNCHANGED <<world, api, seen, lag, chan, draft, config, derived, lost>>

(* The send blocks while the channel is full.                                *)
Send(k) ==
  /\ job[k].at = "send" /\ job[k].todo # <<>>
  /\ LET d == Head(job[k].todo) IN chan[d] < Cap /\ chan' = [chan EXCEPT ![d] = @ + 1]
  /\ Advance(k, "send", Tail(job[k].todo))
  /\ UNCHANGED <<world, api, seen, lag, queue, draft, config, derived, lost, events>>

(* Those who read between their sends, to find the next to send to.  When a  *)
(* read fails the rest is not sent.  handleFinalizer logs the error of the   *)
(* function that announces a deletion, and removes the finalizer all the     *)
(* same; so do the two that announce a QuotaPolicy; others return it.        *)
ReadsToSend == {"Secret", "BSP", "QuotaPolicy", "Route", "MCPRoute"}

OnlyLogged(k) == job[k].obj.del \/ k = "QuotaPolicy"

SendFails(k) ==
  /\ job[k].at = "send" /\ k \in ReadsToSend /\ "fault" \in world.trouble /\ Counted
  /\ IF OnlyLogged(k)
     THEN Advance(k, "send", <<>>) /\ lost' = lost \cup {k} /\ UNCHANGED queue
     ELSE Returned(k) /\ UNCHANGED lost
  /\ UNCHANGED <<world, api, seen, lag, chan, draft, config, derived>>

(* The Update that removes the finalizer, after which the object is gone;    *)
(* when it is refused that is logged, and Reconcile reports no error.        *)
DropFinalizer(k) ==
  /\ job[k].at = "drop"
  /\ IF job[k].cur THEN Written(k, Gone(api[k])) ELSE UNCHANGED <<api, lag>>
  /\ job' = [job EXCEPT ![k] = CASE k = "Backend" -> [@ EXCEPT !.at = "sync"]
                                 [] k = "QuotaPolicy" -> Idle
                                 [] OTHER -> [@ EXCEPT !.at = "status"]]
  /\ UNCHANGED <<world, seen, queue, chan, draft, config, derived, lost, events>>

(* The status update, which may be given up, and the end: after an error the *)
(* object is queued again.  That the update makes another version of the     *)
(* object matters only to later Updates of finalizers, so it is left out for *)
(* kinds that are not deleted.  A QuotaPolicy notifies the routes after it.  *)
Finish(k) ==
  /\ job[k].at = "status"
  /\ IF k = "QuotaPolicy" /\ ~job[k].retry THEN Advance(k, "send", Notified(k))
     ELSE job' = [job EXCEPT ![k] = Idle]
  /\ queue' = queue \cup {q \in {k} : job[k].retry}
  /\ lag' \in {lag} \cup {lag \cup {s} : s \in {t \in {k} \cap world.deleted : seen[t].on /\ api[t].on}}
  /\ UNCHANGED <<world, api, seen, chan, draft, config, derived, lost, events>>

-----------------------------------------------------------------------------
(* The Gateway controller.                                                   *)
GatewayReads ==
  /\ "Gateway" \in queue /\ job["Gateway"].at = "idle" /\ queue' = queue \ {"Gateway"}
  /\ IF seen["Gateway"].on
     THEN draft' = FilterConfig(seen) /\ job' = [job EXCEPT !["Gateway"].at = "write"] /\ lost' = {}
     ELSE UNCHANGED <<draft, job, lost>>
  /\ UNCHANGED <<world, api, seen, lag, chan, config, derived, events>>

(* The reads or the write fail, or the context ends between them.            *)
GatewayFails ==
  /\ job["Gateway"].at = "write" /\ "fault" \in world.trouble /\ Counted
  /\ job' = [job EXCEPT !["Gateway"] = Idle] /\ queue' = queue \cup {"Gateway"}
  /\ UNCHANGED <<world, api, seen, lag, chan, draft, config, derived, lost>>

GatewayCreates ==           \* mutant: the secret is created, never updated, and the error retried
  /\ job["Gateway"].at = "write" /\ job' = [job EXCEPT !["Gateway"] = Idle]
  /\ IF config = [k \in Content |-> 0]
     THEN config' = draft /\ UNCHANGED queue
     ELSE queue' = queue \cup {"Gateway"} /\ UNCHANGED config
  /\ UNCHANGED <<world, api, seen, lag, chan, draft, derived, lost, events>>

GatewayWrites ==
  /\ job["Gateway"].at = "write" /\ config' = draft
  /\ job' = [job EXCEPT !["Gateway"] = Idle]
  /\ UNCHANGED <<world, api, seen, lag, queue, chan, draft, derived, lost, events>>

-----------------------------------------------------------------------------
Reconcile(k) ==
  \/ Start(k) \/ AddFinalizer(k) \/ SyncSucceeds(k) \/ SyncFails(k) \/ Send(k)
  \/ SendFails(k) \/ DropFinalizer(k) \/ Finish(k)

ReconcileGateway == GatewayReads \/ GatewayFails \/ GatewayWrites

Next ==
  \/ \E k \in Kind : \/ Create(k) \/ Edit(k) \/ Delete(k) \/ Watch(k) \/ Deliver(k)
                     \/ Reconcile(k)
  \/ ReconcileGateway \/ Restart

Spec == Init /\ [][Next]_vars

(* Informers, channel sources and workers go on; the user need not.          *)
FairSpec ==
  /\ Spec /\ WF_vars(ReconcileGateway)
  /\ \A k \in Kind : WF_vars(Watch(k) \/ Deliver(k)) /\ WF_vars(Reconcile(k))

-----------------------------------------------------------------------------
AtRest == lag = {} /\ queue = {} /\ \A k \in Kind : chan[k] = 0 /\ job[k].at = "idle"

Settled ==
  /\ api["Gateway"].on => config = Desired
  /\ \A k \in {"Route", "MCPRoute"} : Live(api[k]) => derived[k] = api[k].gen
  /\ Live(api["Route"]) /\ world.ref = "Backend" => derived["Backend"] = api["Backend"].gen
  /\ Live(api["MCPRoute"]) => derived["Secret"] = api["Secret"].gen

(* When nothing is queued, sent, being reconciled or still to be seen, the   *)
(* gateway's configuration and the HTTPRoute are those of the objects as     *)
(* they are now: no event was dropped on the way, whatever was edited or     *)
(* deleted while the controllers were at work, failed or restarted (the      *)
(* chains of StartControllers and the onDeletionFn of handleFinalizer).  It  *)
(* is claimed where only routes and the Gateway are deleted, for a policy    *)
(* that goes may stay in the configuration, and until a read fails in        *)
(* announcing a deletion, or a QuotaPolicy, for that error is logged only    *)
(* (DeletionArrives): then nothing is claimed before the Gateway is          *)
(* reconciled for another reason.                                            *)
RestIsSettled == AtRest /\ lost = {} => Settled

(* Every change reaches the gateway: once the user leaves the cluster alone, *)
(* its configuration becomes and stays the one the objects call for, unless  *)
(* a route refers to what is not there or an announcement failed that nobody *)
(* repeats; sends to full channels, retries and restarts do not keep it from *)
(* that.  As above, it is claimed where no policy is deleted.                *)
Converges ==
  <>[]((\A k \in {"Route", "MCPRoute"} : Live(api[k]) => SyncFinds(api, k)) /\ lost = {} => Settled)

(* "Propagate the AIGatewayRoute deletion all the way up to relevant         *)
(* Gateways" (ai_gateway_route.go:162) and "Propagate the bsp deletion all   *)
(* the way to relevant Gateways" (backend_security_policy.go:100): when all  *)
(* is at rest the configuration holds nothing of a route or policy that is   *)
(* gone.                                                                     *)
DeletionArrives ==
  AtRest /\ api["Gateway"].on => \A k \in {"BSP", "Route", "MCPRoute"} : ~api[k].on => config[k] = 0

(* An object being deleted goes in the end: handleFinalizer removes the      *)
(* finalizer.                                                                *)
DeletionCompletes == \A k \in Finalized : api[k].del ~> ~api[k].on
=============================================================================
