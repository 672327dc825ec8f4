---------------------------- MODULE GatewayRollout ----------------------------
(* How the pods of a Gateway get the external processor.  The gateway        *)
(* controller cannot change a pod: a webhook adds the container when a pod   *)
(* is created, by what it finds then, and the controller compares the pods   *)
(* with the routes and patches the template of their workload when they must *)
(* be created again.  Kubernetes replaces the pods meanwhile, and the cache  *)
(* that the controller and the webhook read runs behind the API server.      *)
EXTENDS Naturals, FiniteSets

CONSTANTS Slots,      \* the replicas of the workload, a set of numbers
          Workloads,  \* a subset of {"deployment", "daemonset"}
          MaxEvents   \* changes by the user and faults, together

ASSUME RolloutAssumption ==
  /\ Slots \subseteq Nat /\ IsFiniteSet(Slots)
  /\ Workloads \subseteq {"deployment", "daemonset"}
  /\ MaxEvents \in Nat

Routes == {"ai", "mcp"}
Objects == Routes \cup {"config"}

VARIABLES workload,
          api,      \* the routes: "none", "live" or "deleting"; the GatewayConfig: its version
          seen,     \* the cache of them
          finalizing,  \* the routes whose deletion the gateway was told of
          queued, job,
          secret,   \* whether the filter configuration is written
          dep,      \* the workload: generation, annotated hash, and its status
          pods,
          events

vars == <<workload, api, seen, finalizing, queued, job, secret, dep, pods, events>>

Hash == [config : 0..MaxEvents, mcp : BOOLEAN]
NoHash == [config |-> MaxEvents + 1, mcp |-> FALSE]
Absent == [gen |-> 0, sidecar |-> FALSE, hash |-> NoHash]
Pod == [gen : Nat, sidecar : BOOLEAN, hash : Hash \cup {NoHash}]
Cluster == [ai : {"none", "live", "deleting"}, mcp : {"none", "live", "deleting"}, config : 0..MaxEvents]
Workload == [gen : Nat, hash : Hash \cup {NoHash}, observed : Nat,
             replicas : 0..Cardinality(Slots), updated : 0..Cardinality(Slots)]
NoWorkload == [gen |-> 0, hash |-> NoHash, observed |-> 0, replicas |-> 0, updated |-> 0]
Idle == [pc |-> "idle"]

Is(c, o, phase) == o \in Routes /\ c[o] = phase
Effective(c) == \E r \in Routes : c[r] = "live"
HashOf(c) == [config |-> c.config, mcp |-> c.mcp # "none"]

(* No pod is of a template that the workload never had, and a pod has the    *)
(* configuration of a container only with the container.                     *)
TypeOK ==
  /\ workload \in Workloads
  /\ api \in Cluster /\ seen \in Cluster
  /\ finalizing \subseteq {r \in Routes : api[r] = "deleting"}
  /\ queued \in BOOLEAN /\ secret \in BOOLEAN
  /\ job.pc \in {"idle", "workloads", "secret", "pods", "patch"}
  /\ dep \in Workload /\ dep.observed <= dep.gen /\ dep.updated <= dep.replicas
  /\ pods \in [Slots -> Pod]
  /\ \A i \in Slots : pods[i].gen <= dep.gen /\ (pods[i].sidecar <=> pods[i].hash # NoHash)

Init ==
  /\ workload \in Workloads
  /\ \E ai \in {"none", "live"} : api = [ai |-> ai, mcp |-> "none", config |-> 0]
  /\ seen = api
  /\ finalizing = {}
  /\ queued = TRUE /\ job = Idle /\ secret = FALSE
  /\ dep = NoWorkload /\ pods = [i \in Slots |-> Absent]
  /\ events = 0

-----------------------------------------------------------------------------
Event == events < MaxEvents /\ events' = events + 1

(* The user.                                                                 *)
Change(o, from, to) ==
  /\ Event
  /\ api[o] = from
  /\ api' = [api EXCEPT ![o] = to]
  /\ UNCHANGED <<workload, seen, finalizing, queued, job, secret, dep, pods>>

Create(r) == Change(r, "none", "live")
Delete(r) == Change(r, "live", "deleting")
Configure == Change("config", api.config, api.config + 1)

(* The cache gets an object, and its controller tells the gateway, but for   *)
(* an object that is gone.                                                   *)
Watch(o) ==
  /\ seen[o] # api[o]
  /\ seen' = [seen EXCEPT ![o] = api[o]]
  /\ queued' = (queued \/ ~Is(api, o, "none"))
  /\ finalizing' = IF Is(api, o, "deleting") THEN finalizing \cup {o} ELSE finalizing
  /\ UNCHANGED <<workload, api, job, secret, dep, pods, events>>

(* After that the controller drops the finalizer of a route that is deleted. *)
Release(r) ==
  /\ r \in finalizing
  /\ finalizing' = finalizing \ {r}
  /\ api' = [api EXCEPT ![r] = "none"]
  /\ UNCHANGED <<workload, seen, queued, job, secret, dep, pods, events>>

-----------------------------------------------------------------------------
(* Kubernetes and Envoy Gateway.                                             *)
CreateWorkload ==
  /\ dep.gen = 0
  /\ dep' = [dep EXCEPT !.gen = 1]
  /\ UNCHANGED <<workload, api, seen, finalizing, queued, job, secret, pods, events>>

(* The routes that the webhook finds: of each kind those in the cache and    *)
(* else those in the API server, deleted ones included.                      *)
Found(r) == seen[r] # "none" \/ api[r] # "none"

(* The pod that the webhook makes of a template.                             *)
mutatePod(gen) ==
  IF secret /\ \E r \in Routes : Found(r)
  THEN [gen |-> gen, sidecar |-> TRUE, hash |-> [config |-> seen.config, mcp |-> Found("mcp")]]
  ELSE [gen |-> gen, sidecar |-> FALSE, hash |-> NoHash]

(* The replicas are alike: the first that is missing or old is next.         *)
CreatePod ==
  LET old == {i \in Slots : pods[i].gen < dep.gen}
      i == CHOOSE j \in old : \A k \in old : j <= k IN
  /\ old # {}
  /\ pods' = [pods EXCEPT ![i] = mutatePod(dep.gen)]
  /\ UNCHANGED <<workload, api, seen, finalizing, queued, job, secret, dep, events>>

Evict(i) ==
  /\ pods[i] # Absent /\ Event
  /\ pods' = [pods EXCEPT ![i] = Absent]
  /\ UNCHANGED <<workload, api, seen, finalizing, queued, job, secret, dep>>

(* The workload's controller reports the pods there are and the new ones.    *)
Status == [dep EXCEPT !.observed = dep.gen,
                      !.replicas = Cardinality({i \in Slots : pods[i] # Absent}),
                      !.updated = Cardinality({i \in Slots : pods[i] # Absent /\ pods[i].gen = dep.gen})]

Observe ==
  /\ dep # Status
  /\ dep' = Status
  /\ UNCHANGED <<workload, api, seen, finalizing, queued, job, secret, pods, events>>

-----------------------------------------------------------------------------
(* The reconcile of the Gateway.                                             *)
Requeue == queued' = TRUE /\ job' = Idle

(* It lists the routes, then the pods, ...                                   *)
Start ==
  /\ queued /\ job = Idle
  /\ queued' = FALSE
  /\ job' = [pc |-> "workloads", routes |-> seen, pods |-> pods]
  /\ UNCHANGED <<workload, api, seen, finalizing, secret, dep, pods, events>>

(* ... then the workloads, and waits until there is something.               *)
ListWorkloads ==
  /\ job.pc = "workloads"
  /\ IF dep.gen = 0 /\ \A i \in Slots : job.pods[i] = Absent
     THEN Requeue
     ELSE /\ job' = [pc |-> "secret", routes |-> job.routes, pods |-> job.pods, dep |-> dep]
          /\ UNCHANGED queued
  /\ UNCHANGED <<workload, api, seen, finalizing, secret, dep, pods, events>>

(* It reads the GatewayConfig and writes the filter configuration.           *)
WriteSecret ==
  /\ job.pc = "secret"
  /\ secret' = TRUE
  /\ job' = [job EXCEPT !.pc = "pods", !.routes.config = seen.config]
  /\ UNCHANGED <<workload, api, seen, finalizing, queued, dep, pods, events>>

(* One that a daemonset's controller has not seen at all is not looked at.   *)
isRolloutInProgress(d) ==
  /\ workload = "deployment" \/ d.observed # 0
  /\ d.observed < d.gen \/ d.replicas > d.updated

checkPodHasSideCar(p, needMCP) == p.sidecar /\ (needMCP => p.hash.mcp)

Listed == {job.pods[i] : i \in Slots} \ {Absent}

NeedsStateRollout ==
  LET with == {p \in Listed : checkPodHasSideCar(p, job.routes.mcp # "none")}
      hasSideCar == with # {} /\ with = Listed
      forceRollout == with # {} /\ with # Listed
  IN Effective(job.routes) # hasSideCar \/ forceRollout

NeedsHashRollout(d) == Effective(job.routes) /\ d.hash # HashOf(job.routes)

GiveUp ==
  /\ isRolloutInProgress(job.dep)
  /\ job' = Idle /\ UNCHANGED queued

WaitForRollout ==
  /\ isRolloutInProgress(job.dep)
  /\ Requeue

(* It annotates each pod that it has listed, which fails for one that is not *)
(* there any more.                                                           *)
AnnotatePods ==
  /\ job.pc = "pods"
  /\ \/ WaitForRollout
     \/ /\ ~isRolloutInProgress(job.dep)
        /\ IF \E i \in Slots : job.pods[i] \notin {Absent, pods[i]}
           THEN Requeue
           ELSE job' = [job EXCEPT !.pc = "patch"] /\ UNCHANGED queued
  /\ UNCHANGED <<workload, api, seen, finalizing, secret, dep, pods, events>>

(* The template with its annotations, of which Kubernetes makes a generation.*)
Patched ==
  IF job.dep.gen # 0 /\ (NeedsStateRollout \/ NeedsHashRollout(job.dep))
  THEN [dep EXCEPT !.gen = @ + 1,
                   !.hash = IF NeedsHashRollout(job.dep) THEN HashOf(job.routes) ELSE @]
  ELSE dep

PatchAgain ==
  /\ job.pc = "patch"
  /\ dep' = Patched
  /\ Requeue
  /\ UNCHANGED <<workload, api, seen, finalizing, secret, pods, events>>

(* It patches the workload and leaves the rest to Kubernetes.                *)
PatchWorkload ==
  /\ job.pc = "patch"
  /\ dep' = Patched
  /\ job' = Idle
  /\ UNCHANGED <<workload, api, seen, finalizing, queued, secret, pods, events>>

(* A call fails.                                                             *)
Refused ==
  /\ job # Idle /\ Event
  /\ Requeue
  /\ UNCHANGED <<workload, api, seen, finalizing, secret, dep, pods>>

Reconcile == Start \/ ListWorkloads \/ WriteSecret \/ AnnotatePods \/ PatchWorkload
Kubernetes == CreateWorkload \/ Observe \/ CreatePod

Next ==
  \/ \E r \in Routes : Create(r) \/ Delete(r) \/ Release(r)
  \/ Configure
  \/ \E o \in Objects : Watch(o)
  \/ Kubernetes
  \/ \E i \in Slots : Evict(i)
  \/ Reconcile \/ Refused

Spec == Init /\ [][Next]_vars

(* Every controller, the cache included, gets to its work.                   *)
FairSpec ==
  /\ Spec
  /\ \A o \in Objects : WF_vars(Watch(o))
  /\ \A r \in Routes : WF_vars(Release(r))
  /\ WF_vars(CreatePod) /\ WF_vars(CreateWorkload) /\ WF_vars(Observe) /\ WF_vars(Reconcile)

-----------------------------------------------------------------------------
AtRest ==
  /\ ~queued /\ job = Idle /\ seen = api /\ finalizing = {}
  /\ dep.gen # 0 /\ \A i \in Slots : pods[i].gen = dep.gen

(* When nothing is left to do and the Gateway has a route, every pod has the *)
(* processor, with the MCP proxy if there is an MCP route, and as the        *)
(* GatewayConfig has it, however the changes, the replacement of the pods,   *)
(* the failures of calls and the reads of annotateGatewayPods fell together. *)
PodsServeRoutes ==
  AtRest /\ Effective(api) =>
    \A i \in Slots : /\ pods[i].sidecar
                     /\ api.mcp = "live" => pods[i].hash.mcp
                     /\ pods[i].hash.config = api.config

(* When nothing is left to do and the Gateway has no route, no pod has the   *)
(* processor: the second scenario of the comment in annotateGatewayPods.     *)
PodsReleased ==
  AtRest /\ ~Effective(api) => \A i \in Slots : ~pods[i].sidecar

(* The rollouts come to an end: the controller does not patch the template   *)
(* for ever after pods that the webhook makes otherwise than it expects.     *)
RolloutsEnd == <>[]AtRest

=============================================================================
