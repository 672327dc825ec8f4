-------------------------------- MODULE Quota --------------------------------
(* Quota policies at work: the controller keeps a cache with the descriptors *)
(* of each policy and hands the merged ones to the xDS server of the rate    *)
(* limit service, which may start later than the controller; the extension   *)
(* server and the Gateway controller read the policies for themselves when   *)
(* a route is translated again.                                              *)
EXTENDS QuotaDescriptors

CONSTANTS Policies,    \* their names, numbers for their order
          Backends,
          Specs,       \* what a policy may say
          Routes,      \* the backends of the route, with their overrides
          HeaderValues,
          MaxChanges   \* bound on what the user changes

VARIABLES route,    \* the AIGatewayRoute: its backends, with their overrides
          httpRoute,  \* the HTTPRoute as it was last written
          policies, \* in the API server: [is, fin, spec]
          backends, \* the AIServiceBackends that are there
          queue,    \* the policies to be reconciled
          job,      \* of the policy being reconciled, what was built for it
          cache,    \* configCache
          started, snapshot,  \* of the runner
          due,      \* who is to look at the route again
          translated, \* what Envoy's rate limit actions were made from
          injected, \* what the costs of the filter configuration were made from
          changes

vars == <<route, httpRoute, policies, backends, queue, job, cache, started, snapshot, due, translated, injected, changes>>

NoSpec == [targets |-> <<>>, models |-> <<>>, service |-> 0]
NoPolicy == [is |-> "none", fin |-> FALSE, spec |-> NoSpec]
NoJob == [of |-> 0, targets |-> <<>>, configs |-> <<>>]
There == {p \in Policies : policies[p].is # "none"}

(* What newHTTPRoute takes from the route, of what the model has: the        *)
(* backends, but neither the overrides nor anything of a quota policy.       *)
newHTTPRoute(r) == [i \in DOMAIN r |-> r[i].backend]

TypeOK ==
  /\ route \in Routes /\ httpRoute \in {newHTTPRoute(r) : r \in Routes}
  /\ policies \in [Policies -> [is : {"none", "live", "deleting"}, fin : BOOLEAN, spec : Specs \cup {NoSpec}]]
  /\ backends \subseteq Backends /\ queue \subseteq Policies
  /\ job.of \in Policies \cup {0} /\ (job.of = 0 => job = NoJob)
  /\ DOMAIN cache \subseteq Policies
  /\ started \in BOOLEAN /\ due \subseteq {"route", "envoy", "gateway"}
  /\ ~started => snapshot = <<>>

(* The route has been translated before there was a policy.                  *)
Init ==
  /\ route \in Routes /\ httpRoute = newHTTPRoute(route)
  /\ policies = [p \in Policies |-> NoPolicy]
  /\ backends = Backends
  /\ queue = {} /\ job = NoJob /\ cache = <<>>
  /\ started = FALSE /\ snapshot = <<>>
  /\ due = {}
  /\ translated = [route |-> route, specs |-> <<>>]
  /\ injected = [route |-> route, specs |-> <<>>]
  /\ changes = 0

-----------------------------------------------------------------------------
RefersTo(bs) == \E i \in DOMAIN route : route[i].backend \in bs

UserChanges ==
  /\ changes < MaxChanges /\ changes' = changes + 1
  /\ UNCHANGED <<httpRoute, job, cache, started, snapshot, translated, injected>>

Apply(p, s) ==
  /\ policies[p].is # "deleting" /\ policies[p].spec # s
  /\ policies' = [policies EXCEPT ![p].is = "live", ![p].spec = s]
  /\ queue' = queue \cup {p}
  /\ UserChanges /\ UNCHANGED <<route, backends, due>>

Delete(p) ==
  /\ policies[p].is = "live"
  /\ policies' = [policies EXCEPT ![p] = IF @.fin THEN [@ EXCEPT !.is = "deleting"] ELSE NoPolicy]
  /\ queue' = queue \cup {p}
  /\ UserChanges /\ UNCHANGED <<route, backends, due>>

(* A backend comes or goes: the policies that target it and the route that   *)
(* refers to it are reconciled.                                              *)
ChangeBackend(b) ==
  /\ backends' = (backends \ {b}) \cup ({b} \ backends)
  /\ queue' = queue \cup {p \in There : b \in Range(policies[p].spec.targets)}
  /\ due' = IF RefersTo({b}) THEN due \cup {"route"} ELSE due
  /\ UserChanges /\ UNCHANGED <<route, policies>>

EditRoute(r) ==
  /\ r # route /\ route' = r
  /\ due' = due \cup {"route"}
  /\ UserChanges /\ UNCHANGED <<policies, backends, queue>>

(* Something else that Envoy Gateway watches changes: it translates anew.    *)
Retranslate ==
  /\ due' = due \cup {"envoy"}
  /\ UserChanges /\ UNCHANGED <<route, policies, backends, queue>>

(* The runner creates its cache of snapshots.                                *)
Start ==
  /\ ~started /\ started' = TRUE
  /\ UNCHANGED <<route, httpRoute, policies, backends, queue, job, cache, snapshot, due, translated, injected, changes>>

-----------------------------------------------------------------------------
(* The descriptors of all policies in the cache, in the order of their names.*)
MergedConfigs(configs) ==
  LET names == SetToSortSeq(DOMAIN configs, <)
  IN  MergeDescriptors(FlattenSeq([i \in DOMAIN names |-> configs[names[i]]]))

(* The cache is updated and pushed under the lock; the push fails before the *)
(* runner has started.                                                       *)
UpdateConfigs(configs) ==
  /\ cache' = configs
  /\ snapshot' = IF started THEN MergedConfigs(configs) ELSE snapshot

Without(p) == [q \in DOMAIN cache \ {p} |-> cache[q]]
With(p, configs) == [q \in DOMAIN cache \cup {p} |-> IF q = p THEN configs ELSE cache[q]]

Retry(p, failed) == queue' = IF failed THEN queue ELSE queue \ {p}
(* The route is told of a policy by the backends it targets now, or, when    *)
(* the policy is gone, in any case.                                          *)
NotifyOf(targets) == due' = IF RefersTo(Range(targets)) THEN due \cup {"route"} ELSE due
NotifyAll == due' = due \cup {"route"}

(* Reconcile of a policy that is no longer there.                            *)
ReconcileGone(p) ==
  /\ policies[p].is = "none"
  /\ UpdateConfigs(Without(p))
  /\ Retry(p, ~started)
  /\ IF started THEN NotifyAll ELSE UNCHANGED due
  /\ UNCHANGED <<policies, job>>

(* Of one that is being deleted: the finalizer goes, whether or not the push *)
(* succeeded, and the deletion is one more event.                            *)
ReconcileDeleting(p) ==
  /\ policies[p].is = "deleting"
  /\ UpdateConfigs(Without(p))
  /\ policies' = [policies EXCEPT ![p] = NoPolicy]
  /\ UNCHANGED <<queue, job, due>>

(* Of one that is there: the finalizer, then syncQuotaPolicy up to the lock. *)
ReconcileLive(p) ==
  LET spec == policies[p].spec
      lost == spec.targets # <<>> /\ Range(spec.targets) \cap backends = {}
  IN  /\ policies[p].is = "live"
      /\ policies' = [policies EXCEPT ![p].fin = TRUE]
      /\ Retry(p, lost)
      /\ job' = IF lost THEN NoJob ELSE [of |-> p, targets |-> spec.targets,
                                          configs |-> BuildRateLimitConfigs(spec, backends)]
      /\ UNCHANGED <<cache, snapshot, due>>

Reconcile(p) ==
  /\ job.of = 0 /\ p \in queue
  /\ ReconcileGone(p) \/ ReconcileDeleting(p) \/ ReconcileLive(p)
  /\ UNCHANGED <<route, httpRoute, backends, started, translated, injected, changes>>

PushQuietly ==     \* mutant: a failed push is not tried again
  /\ job.of # 0 /\ job' = NoJob
  /\ UpdateConfigs(With(job.of, job.configs))
  /\ NotifyOf(job.targets)
  /\ UNCHANGED <<route, httpRoute, policies, backends, queue, started, translated, injected, changes>>

(* The rest of syncQuotaPolicy, and the notification of the route.  In       *)
(* between updateQuotaPolicyStatus reads the policy again, if it is there.   *)
Push ==
  LET now == policies[job.of]
      told == IF now.is = "none" THEN job.targets ELSE now.spec.targets
  IN  /\ job.of # 0 /\ job' = NoJob
      /\ UpdateConfigs(With(job.of, job.configs))
      /\ queue' = IF started THEN queue ELSE queue \cup {job.of}
      /\ IF started THEN NotifyOf(told) ELSE UNCHANGED due
      /\ UNCHANGED <<route, httpRoute, policies, backends, started, translated, injected, changes>>

(* The route is reconciled, which fails while a backend is missing.  It      *)
(* writes the HTTPRoute, of which Envoy Gateway hears if that changes it,    *)
(* and tells the Gateway controller.                                         *)
Blocked == ~ (Range(newHTTPRoute(route)) \subseteq backends)
ReconcileRoute ==
  LET new == newHTTPRoute(route)
  IN  /\ "route" \in due /\ ~Blocked
      /\ httpRoute' = new
      /\ due' = (due \ {"route"}) \cup {"gateway"} \cup (IF new # httpRoute THEN {"envoy"} ELSE {})
      /\ UNCHANGED <<route, policies, backends, queue, job, cache, started, snapshot, translated, injected, changes>>

-----------------------------------------------------------------------------
(* A list of the policies: the client's cache gives them in any order.       *)
Lists == {s \in [1..Cardinality(There) -> There] : Range(s) = There}
SpecsOf(list) == [i \in DOMAIN list |-> policies[list[i]].spec]

Read(list) == [route |-> route, specs |-> SpecsOf(list)]

(* Envoy Gateway translates the route and calls the extension server, which  *)
(* makes the rate limit actions from the route and the policies it reads.    *)
PostTranslateModify(list) ==
  /\ "envoy" \in due /\ due' = due \ {"envoy"}
  /\ translated' = Read(list)
  /\ UNCHANGED <<route, httpRoute, policies, backends, queue, job, cache, started, snapshot, injected, changes>>

(* The Gateway controller writes the filter configuration with the costs.    *)
InjectCosts(list) ==
  /\ "gateway" \in due /\ due' = due \ {"gateway"}
  /\ injected' = Read(list)
  /\ UNCHANGED <<route, httpRoute, policies, backends, queue, job, cache, started, snapshot, translated, changes>>

Next ==
  \/ \E p \in Policies, s \in Specs : Apply(p, s)
  \/ \E p \in Policies : Delete(p) \/ Reconcile(p)
  \/ \E b \in Backends : ChangeBackend(b)
  \/ \E r \in Routes : EditRoute(r)
  \/ Retranslate \/ Start \/ Push \/ ReconcileRoute
  \/ \E list \in Lists : PostTranslateModify(list) \/ InjectCosts(list)

Spec == Init /\ [][Next]_vars

-----------------------------------------------------------------------------
(* Nothing is left to do, but for a route that cannot be reconciled.         *)
AtRest == started /\ queue = {} /\ job = NoJob /\ (due = {} \/ (due = {"route"} /\ Blocked))
InOrder == SpecsOf(SetToSortSeq(There, <))

(* The actions in Envoy, and the costs, are made from the route and the      *)
(* policies for it that there are now.                                       *)
ForRoute(read) == [route |-> read.route, specs |-> SelectSeq(read.specs, LAMBDA s : Targets(read.route, s))]
UpToDate(read) == \E list \in Lists : ForRoute(read) = ForRoute(Read(list))

Checks == RequestTimeEntries(translated.route, translated.specs)
Charges == StreamDoneEntries(translated.route, translated.specs)
Costs == CostExpressions(injected.route, injected.specs)

(* The requests that the route serves: with any headers, by a backend of the *)
(* route, with the model it overrides the name with or any other.            *)
Models == {s.models[i].model : <<s, i>> \in {x \in Specs \X (1..3) : x[2] \in DOMAIN x[1].models}}
Requests ==
  {[headers |-> h, backend |-> route[i].backend, model |-> m] :
     <<h, i, m>> \in {x \in [1..2 -> HeaderValues \cup {""}] \X (DOMAIN route) \X Models :
                       route[x[2]].override \in {"", x[3]}}}

(* The quotas that the policies state for the backend and model of a request.*)
(* Without one it meets at most the quota of a whole service, which is not   *)
(* yet enforced.                                                             *)
StatedFor(req) ==
  {q \in UNION {Range(policies[p].spec.models) : p \in {t \in There : req.backend \in Range(policies[t].spec.targets)}} :
     q.model = req.model}
Selectors(q) == UNION {Range(flattenAndSortHeaders(q.rules[r])) : r \in DOMAIN q.rules}
Plain(q) == \A h \in Selectors(q) : h.type # "Distinct" /\ ~h.invert

(* The buckets that a request is checked against, of the backend and the     *)
(* model that serve it, and those it is charged to.                          *)
Limited(ds) == {d \in Range(ds) : LimitOf(snapshot, d) > 0}
CheckedBy(checks, req) ==
  {d \in Limited(Descriptors(checks, req)) : d[1].value = <<req.backend>> /\ d[2].value = <<req.model>>}

(* When nothing is left to do, the rate limit service has the limits of the  *)
(* policies there are, for the backends there are: each path once, and on it *)
(* the limit of the policy whose name comes first (getMergedConfigsLocked,   *)
(* MergeDescriptors), however the changes, the failing pushes before the     *)
(* runner's start and the deletions interleaved.                             *)
SnapshotIsCurrent ==
  AtRest =>
    LET defined == Limits(FlattenSeq([i \in DOMAIN InOrder |-> BuildRateLimitConfigs(InOrder[i], backends)]))
        got == Limits(snapshot)
    IN  /\ \A i, j \in DOMAIN got : got[i].path = got[j].path => i = j
        /\ {x.path : x \in Range(got)} = {x.path : x \in Range(defined)}
        /\ \A x \in Range(got) : x = SelectSeq(defined, LAMBDA d : d.path = x.path)[1]

(* Every bucket that a request is checked against has a limit in the rate    *)
(* limit service, once Envoy Gateway has translated the route with the       *)
(* policies there are: the keys that the extension server puts in the        *)
(* actions (buildBucketRuleLimitEntries) are those of the translator's tree, *)
(* in the same order and to the same depth.  A change of a policy alone      *)
(* brings no translation about (see PolicyReachesEnvoy); until there is one  *)
(* the actions may name buckets that are gone.                               *)
ChecksAreLimited ==
  AtRest /\ UpToDate(translated) =>
    LET checks == Checks
    IN  \A req \in Requests : \A d \in Range(Descriptors(checks, req)) :
          d[1].value[1] \in backends => LimitOf(snapshot, d) > 0

(* A request is charged, when it is done, to the very buckets it was checked *)
(* against for the backend and the model that served it, to each of them     *)
(* once: to be called of the requests of a set.                              *)
ChargedAsChecked(requests) ==
  LET checks == Checks
      charges == Charges
  IN  \A req \in requests :
        LET ds == Descriptors(charges, req)
        IN  /\ Limited(ds) = CheckedBy(checks, req)
            /\ Cardinality(Range(ds)) = Len(ds)

(* A request that is charged has a cost, and it is one that a policy states  *)
(* for its backend and model.                                                *)
ChargedAtACost(requests) ==
  LET charges == Charges
      costs == Costs
  IN  \A req \in requests :
        Limited(Descriptors(charges, req)) # {} =>
          /\ <<req.backend, req.model>> \in DOMAIN costs
          /\ \E q \in StatedFor(req) : q.cost = costs[<<req.backend, req.model>>]

(* Once the route has been translated and the costs have been written with   *)
(* the policies there are, every request is charged where it was checked     *)
(* (buildClientSelectorStreamDoneActions) and at a cost that a policy states *)
(* (injectQuotaPolicyCostExpressions).  Left out are the requests of quotas  *)
(* with a selector that is inverted or tells every value apart, for which    *)
(* buildStreamDoneHeaderMatchAction makes another action than the check (see *)
(* ChargedWhereChecked), and the time until the next translation.            *)
ChargesMeetChecks ==
  AtRest /\ UpToDate(translated) /\ UpToDate(injected) =>
    LET plain == {req \in Requests : StatedFor(req) # {} /\ \A q \in StatedFor(req) : Plain(q)}
    IN  ChargedAsChecked(plain) /\ ChargedAtACost(plain)

(* All requests are charged where they were checked, whatever the selectors. *)
ChargedWhereChecked ==
  AtRest /\ UpToDate(translated) => ChargedAsChecked({req \in Requests : StatedFor(req) # {}})

(* "This triggers re-reconciliation of the HTTPRoute, which causes Envoy     *)
(* Gateway to re-translate xDS and call PostTranslateModify with the updated *)
(* QuotaPolicy" (notifyAIGatewayRoutes).                                     *)
PolicyReachesEnvoy == AtRest /\ ~Blocked => UpToDate(translated)

=============================================================================
