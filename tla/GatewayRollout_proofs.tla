------------------------ MODULE GatewayRollout_proofs ------------------------
(***************************************************************************)
(* Proofs about GatewayRollout, for any number of replicas and of changes   *)
(* and faults.                                                              *)
(***************************************************************************)
EXTENDS GatewayRollout, FiniteSetTheorems, TLAPS

-----------------------------------------------------------------------------
(* The inductive invariant.                                                *)

(* What the reconcile has read, by how far it is.                          *)
Job ==
  {Idle}
  \cup [pc : {"workloads"}, routes : Cluster, pods : [Slots -> Pod]]
  \cup [pc : {"secret", "pods", "patch"}, routes : Cluster, pods : [Slots -> Pod], dep : Workload]

(* The versions of the GatewayConfig come in order: the cache follows the  *)
(* API server; the template, the pods and the reconcile have what the      *)
(* cache had once; and a pod of the present generation was made after the  *)
(* template got its hash.                                                  *)
Ordered ==
  /\ events \in 0..MaxEvents /\ api.config <= events /\ seen.config <= api.config
  /\ dep.hash # NoHash => dep.hash.config <= seen.config
  /\ \A i \in Slots : pods[i].sidecar =>
       /\ pods[i].hash.config <= seen.config
       /\ pods[i].gen = dep.gen /\ dep.hash # NoHash => dep.hash.config <= pods[i].hash.config
  /\ job # Idle => job.routes.config <= seen.config

(* A pod is of some generation, and has a container only if there was a    *)
(* filter configuration.                                                   *)
Grounded(ps) == \A i \in Slots : /\ ps[i] # Absent => ps[i].gen # 0
                                 /\ ps[i].gen <= dep.gen
                                 /\ ps[i].sidecar => secret

(* A pod as the routes in the cache demand it.                             *)
Good(p) == p.sidecar /\ (seen.mcp = "live" => p.hash.mcp)

(* Unless it is to run again, the reconcile has the routes that are live;  *)
(* and once there was a filter configuration, every pod that it has not    *)
(* listed is good.                                                         *)
UpToDate ==
  /\ job.routes.config = seen.config
  /\ \A r \in Routes : seen[r] = "live" => job.routes[r] = "live"
  /\ Effective(seen) /\ (\E i \in Slots : job.pods[i].sidecar) =>
       \A i \in Slots : pods[i] \in {Absent, job.pods[i]} \/ Good(pods[i])

Reconciling ==
  job # Idle =>
    /\ Grounded(job.pods)
    /\ job.pc # "workloads" => job.dep.gen # 0 /\ job.dep.hash = dep.hash
    /\ job.pc \in {"pods", "patch"} => secret
    /\ ~queued => UpToDate

(* After the last reconcile the template has the hash of the configuration *)
(* and the pods of its generation are good.                                *)
Reconciled ==
  job = Idle /\ ~queued =>
    /\ secret
    /\ Effective(seen) =>
         /\ dep.hash # NoHash /\ dep.hash.config = seen.config
         /\ \A i \in Slots : pods[i] # Absent /\ pods[i].gen = dep.gen => Good(pods[i])

Inv ==
  /\ TypeOK /\ job \in Job
  /\ Ordered
  /\ Grounded(pods)
  /\ Reconciling
  /\ Reconciled

-----------------------------------------------------------------------------
(* What the pieces of the state are.                                       *)
LEMMA JobShape ==
  ASSUME job \in Job
  PROVE  /\ job = Idle <=> job.pc = "idle"
         /\ job # Idle => job.routes \in Cluster /\ job.pods \in [Slots -> Pod]
         /\ job.pc \in {"secret", "pods", "patch"} => job.dep \in Workload
         /\ job.pc \in {"idle", "workloads", "secret", "pods", "patch"}
  BY DEF Job, Idle

LEMMA HashShape ==
  /\ \A c \in 0..MaxEvents, m \in BOOLEAN : /\ [config |-> c, mcp |-> m] \in Hash
                                            /\ [config |-> c, mcp |-> m] # NoHash
  /\ \A h \in Hash : h # NoHash
<1>1. MaxEvents \in Nat
  BY RolloutAssumption
<1>2. NoHash.config = MaxEvents + 1
  BY DEF NoHash
<1>3. \A h \in Hash : h.config # MaxEvents + 1
  BY <1>1 DEF Hash
<1>4. \A h \in Hash : h # NoHash
  BY <1>2, <1>3
<1>5. \A c \in 0..MaxEvents, m \in BOOLEAN : [config |-> c, mcp |-> m] \in Hash
  BY Zenon DEF Hash
<1>6. QED
  BY <1>4, <1>5

LEMMA CountOf ==
  ASSUME NEW S, S \subseteq Slots
  PROVE  Cardinality(S) \in 0..Cardinality(Slots)
<1>1. IsFiniteSet(Slots)
  BY RolloutAssumption
<1>2. IsFiniteSet(S) /\ Cardinality(S) <= Cardinality(Slots)
  BY <1>1, FS_Subset
<1>3. Cardinality(S) \in Nat /\ Cardinality(Slots) \in Nat
  BY <1>1, <1>2, FS_CardinalityType
<1>4. QED
  BY <1>2, <1>3

(* The status of the workload leaves its template alone.                   *)
LEMMA StatusShape ==
  ASSUME TypeOK
  PROVE  /\ Status \in Workload /\ Status.gen = dep.gen /\ Status.hash = dep.hash
         /\ Status.observed <= Status.gen /\ Status.updated <= Status.replicas
<1> DEFINE There == {i \in Slots : pods[i] # Absent}
           New == {i \in Slots : pods[i] # Absent /\ pods[i].gen = dep.gen}
<1>1. Cardinality(There) \in 0..Cardinality(Slots) /\ Cardinality(New) \in 0..Cardinality(Slots)
  BY CountOf
<1>2. Cardinality(New) <= Cardinality(There)
  <2>1. IsFiniteSet(Slots)
    BY RolloutAssumption
  <2>2. IsFiniteSet(There)
    BY <2>1, FS_Subset
  <2>3. New \subseteq There
    OBVIOUS
  <2>4. QED
    BY <2>2, <2>3, FS_Subset
<1>3. Status = [dep EXCEPT !.observed = dep.gen, !.replicas = Cardinality(There), !.updated = Cardinality(New)]
  BY DEF Status
<1>4. dep \in Workload /\ dep.gen \in Nat
  BY DEF TypeOK, Workload
<1> HIDE DEF There, New
<1>5. Status \in Workload /\ Status.gen = dep.gen /\ Status.hash = dep.hash /\ Status.observed = dep.gen
      /\ Status.replicas = Cardinality(There) /\ Status.updated = Cardinality(New)
  BY <1>1, <1>3, <1>4, Zenon DEF Workload
<1>6. QED
  BY <1>2, <1>4, <1>5

(* The pod that the webhook makes.                                         *)
LEMMA PodShape ==
  ASSUME TypeOK, Ordered, NEW p, p = mutatePod(dep.gen)
  PROVE  /\ p \in Pod /\ p.gen = dep.gen
         /\ p.sidecar <=> p.hash # NoHash
         /\ p.sidecar => secret /\ p.hash.config = seen.config
         /\ secret /\ Effective(seen) => Good(p)
<1>1. seen.config \in 0..MaxEvents /\ dep.gen \in Nat
  BY DEF TypeOK, Cluster, Workload
<1> DEFINE on == secret /\ \E r \in Routes : Found(r)
           h == [config |-> seen.config, mcp |-> Found("mcp")]
<1>2. Found("mcp") \in BOOLEAN
  BY Zenon DEF Found
<1>3. h \in Hash /\ h # NoHash /\ h.config = seen.config /\ h.mcp = Found("mcp")
  BY <1>1, <1>2, HashShape, Zenon
<1>4. CASE on
  <2>1. p = [gen |-> dep.gen, sidecar |-> TRUE, hash |-> h]
    BY <1>4 DEF mutatePod
  <2> HIDE DEF h
  <2>2. p \in Pod /\ p.gen = dep.gen /\ p.sidecar /\ p.hash = h
    BY <1>1, <1>3, <2>1 DEF Pod
  <2>3. seen.mcp = "live" => p.hash.mcp
    <3>1. seen.mcp = "live" => Found("mcp")
      BY DEF Found
    <3>2. QED
      BY <1>3, <2>2, <3>1, Zenon
  <2>4. QED
    BY <1>3, <1>4, <2>2, <2>3 DEF Good
<1>5. CASE ~on
  <2>1. p = [gen |-> dep.gen, sidecar |-> FALSE, hash |-> NoHash]
    BY <1>5 DEF mutatePod
  <2>2. p \in Pod /\ p.gen = dep.gen /\ ~p.sidecar /\ p.hash = NoHash
    BY <1>1, <2>1 DEF Pod
  <2>3. Effective(seen) => \E r \in Routes : Found(r)
    BY DEF Effective, Found, Routes
  <2>4. QED
    BY <1>5, <2>2, <2>3
<1>6. QED
  BY <1>4, <1>5

(* What only depends on the pods, the template, the cache and the          *)
(* reconcile is kept by steps of the others.                               *)
LEMMA OthersStep ==
  ASSUME Inv, UNCHANGED <<workload, seen, queued, job, secret, dep, pods>>,
         api' \in Cluster, finalizing' \subseteq {r \in Routes : api'[r] = "deleting"},
         events' \in 0..MaxEvents, api'.config <= events', seen.config <= api'.config
  PROVE  Inv'
<1>1. TypeOK' /\ job' \in Job
  BY DEF Inv, TypeOK, Cluster, Workload, Pod, Hash, Job
<1>2. Ordered'
  BY DEF Inv, Ordered
<1>3. Grounded(pods)'
  BY DEF Inv, Grounded
<1>4. Reconciling' /\ Reconciled'
  BY DEF Inv, Reconciling, Reconciled, Grounded, UpToDate, Good, Effective
<1>5. QED
  BY <1>1, <1>2, <1>3, <1>4 DEF Inv

LEMMA ChangeStep ==
  ASSUME Inv, NEW r \in Routes, Create(r) \/ Delete(r)
  PROVE  Inv'
<1>1. /\ api[r] \in {"none", "live"} /\ Event
      /\ \E to \in {"live", "deleting"} : api' = [api EXCEPT ![r] = to]
      /\ UNCHANGED <<workload, seen, finalizing, queued, job, secret, dep, pods>>
  BY DEF Create, Delete, Change
<1>2. api \in Cluster /\ events \in 0..MaxEvents /\ finalizing \subseteq {q \in Routes : api[q] = "deleting"}
  BY DEF Inv, TypeOK, Ordered
<1>3. /\ api' \in Cluster /\ api'.config = api.config
      /\ \A q \in Routes : q # r => api'[q] = api[q]
  BY <1>1, <1>2 DEF Cluster, Routes
<1>4. events' \in 0..MaxEvents /\ events <= events'
  BY <1>1, <1>2, RolloutAssumption DEF Event
<1>5. finalizing' \subseteq {q \in Routes : api'[q] = "deleting"}
  BY <1>1, <1>2, <1>3
<1>6. api'.config <= events' /\ seen.config <= api'.config
  <2>1. api.config \in Nat /\ events \in Nat /\ events' \in Nat /\ api.config <= events /\ seen.config <= api.config
    BY <1>2, <1>4, RolloutAssumption DEF Inv, Ordered, Cluster
  <2>2. QED
    BY <1>3, <1>4, <2>1
<1>7. QED
  BY <1>1, <1>3, <1>4, <1>5, <1>6, OthersStep

LEMMA ConfigureStep ==
  ASSUME Inv, Configure
  PROVE  Inv'
<1>1. /\ Event /\ api' = [api EXCEPT !.config = api.config + 1]
      /\ UNCHANGED <<workload, seen, finalizing, queued, job, secret, dep, pods>>
  BY ZenonT(30) DEF Configure, Change
<1>2. /\ api \in Cluster /\ seen \in Cluster /\ events \in 0..MaxEvents
      /\ finalizing \subseteq {q \in Routes : api[q] = "deleting"}
      /\ api.config <= events /\ seen.config <= api.config
  BY DEF Inv, TypeOK, Ordered
<1>3. /\ api.config \in Nat /\ seen.config \in Nat /\ events' = events + 1 /\ events < MaxEvents /\ MaxEvents \in Nat
  BY <1>1, <1>2, RolloutAssumption DEF Event, Cluster
<1>4. api.config + 1 \in 0..MaxEvents
  BY <1>2, <1>3
<1>5. api' \in Cluster /\ api'.config = api.config + 1 /\ \A q \in Routes : api'[q] = api[q]
  BY <1>1, <1>2, <1>4 DEF Cluster, Routes
<1>6. finalizing' \subseteq {q \in Routes : api'[q] = "deleting"}
  BY <1>1, <1>2, <1>5
<1>7. events' \in 0..MaxEvents /\ api'.config <= events' /\ seen.config <= api'.config
  BY <1>2, <1>3, <1>5
<1>8. QED
  BY <1>1, <1>5, <1>6, <1>7, OthersStep

LEMMA ReleaseStep ==
  ASSUME Inv, NEW r \in Routes, Release(r)
  PROVE  Inv'
<1>1. /\ finalizing' = finalizing \ {r} /\ api' = [api EXCEPT ![r] = "none"]
      /\ UNCHANGED <<workload, seen, queued, job, secret, dep, pods, events>>
  BY DEF Release
<1>2. /\ api \in Cluster /\ events \in 0..MaxEvents
      /\ finalizing \subseteq {q \in Routes : api[q] = "deleting"}
      /\ api.config <= events /\ seen.config <= api.config
  BY DEF Inv, TypeOK, Ordered
<1>3. /\ api' \in Cluster /\ api'.config = api.config
      /\ \A q \in Routes : q # r => api'[q] = api[q]
  BY <1>1, <1>2 DEF Cluster, Routes
<1>4. finalizing' \subseteq {q \in Routes : api'[q] = "deleting"}
  BY <1>1, <1>2, <1>3
<1>5. QED
  BY <1>1, <1>2, <1>3, <1>4, OthersStep

LEMMA WatchStep ==
  ASSUME Inv, NEW o \in Objects, Watch(o)
  PROVE  Inv'
<1>1. /\ seen' = [seen EXCEPT ![o] = api[o]]
      /\ queued' = (queued \/ ~Is(api, o, "none"))
      /\ finalizing' = IF Is(api, o, "deleting") THEN finalizing \cup {o} ELSE finalizing
      /\ UNCHANGED <<workload, api, job, secret, dep, pods, events>>
  BY DEF Watch
<1>2. /\ api \in Cluster /\ seen \in Cluster /\ queued \in BOOLEAN
      /\ finalizing \subseteq {q \in Routes : api[q] = "deleting"}
  BY DEF Inv, TypeOK
<1>3. seen' \in Cluster
  BY <1>1, <1>2 DEF Cluster, Objects, Routes
<1>4. seen.config \in Nat /\ seen'.config \in Nat /\ api.config \in Nat
  BY <1>2, <1>3, RolloutAssumption DEF Cluster
<1>5. seen.config <= seen'.config /\ seen'.config <= api.config
  <2>1. seen'.config = seen.config \/ seen'.config = api.config
    BY <1>1, <1>2 DEF Cluster
  <2>2. seen.config <= api.config
    BY DEF Inv, Ordered
  <2>3. QED
    BY <1>4, <2>1, <2>2
<1>6. queued' \in BOOLEAN
  BY <1>1, <1>2, Zenon DEF Is
<1>7. finalizing' \subseteq {q \in Routes : api[q] = "deleting"}
  BY <1>1, <1>2 DEF Is
<1>8. TypeOK' /\ job' \in Job
  BY <1>1, <1>2, <1>3, <1>6, <1>7, SMTT(30) DEF Inv, TypeOK, Job, Workload, Pod, Hash
<1>9. Ordered'
  <2>1. dep.hash # NoHash => dep.hash.config \in Nat
    BY RolloutAssumption DEF Inv, TypeOK, Workload, Hash
  <2>2. \A i \in Slots : pods[i].sidecar => pods[i].hash.config \in Nat
    BY RolloutAssumption DEF Inv, TypeOK, Pod, Hash
  <2>3. job # Idle => job.routes.config \in Nat
    BY JobShape, RolloutAssumption, SMTT(30) DEF Inv, Cluster
  <2>4. QED
    BY <1>1, <1>4, <1>5, <2>1, <2>2, <2>3 DEF Inv, Ordered
<1>10. Grounded(pods)'
  BY <1>1, SMTT(30) DEF Inv, Grounded
<1>11. CASE queued'
  BY <1>1, <1>8, <1>9, <1>10, <1>11 DEF Inv, Reconciling, Reconciled, Grounded
<1>12. CASE ~queued'
  <2>1. ~queued /\ o \in Routes /\ api[o] = "none"
    BY <1>1, <1>12, ZenonT(30) DEF Is
  <2>2. /\ seen'.config = seen.config
        /\ \A r \in Routes : seen'[r] = "live" => seen[r] = "live"
    BY <1>1, <1>2, <2>1 DEF Cluster, Routes
  <2>3. seen'.mcp = "live" => seen.mcp = "live"
    BY <2>2 DEF Routes
  <2>4. Effective(seen)' => Effective(seen)
    BY <2>2 DEF Effective
  <2>5. \A p : Good(p) => Good(p)'
    BY <2>3 DEF Good
  <2>6. Reconciling'
    BY <1>1, <2>1, <2>2, <2>4, <2>5 DEF Inv, Reconciling, UpToDate, Grounded
  <2>7. Reconciled'
    BY <1>1, <2>1, <2>2, <2>4, <2>5 DEF Inv, Reconciled
  <2>8. QED
    BY <1>8, <1>9, <1>10, <2>6, <2>7 DEF Inv
<1>13. QED
  BY <1>11, <1>12

(* A workload that is created or reports its status keeps its template.    *)
LEMMA WorkloadStep ==
  ASSUME Inv, CreateWorkload \/ Observe
  PROVE  Inv'
<1>1. UNCHANGED <<workload, api, seen, finalizing, queued, job, secret, pods, events>>
  BY DEF CreateWorkload, Observe
<1>2. dep \in Workload /\ dep.gen \in Nat /\ \A i \in Slots : pods[i].gen \in Nat /\ pods[i].gen <= dep.gen
  BY DEF Inv, TypeOK, Workload, Pod
<1>3. /\ dep' \in Workload /\ dep'.hash = dep.hash
      /\ dep'.gen \in Nat /\ dep.gen <= dep'.gen
      /\ dep'.observed <= dep'.gen /\ dep'.updated <= dep'.replicas
      /\ \A i \in Slots : pods[i].gen = dep'.gen => pods[i].gen = dep.gen
  <2>1. CASE CreateWorkload
    <3>1. dep.gen = 0 /\ dep' = [dep EXCEPT !.gen = 1]
      BY <2>1 DEF CreateWorkload
    <3>2. dep.observed <= dep.gen /\ dep.updated <= dep.replicas /\ dep.observed \in Nat
      BY DEF Inv, TypeOK, Workload
    <3>3. dep' \in Workload /\ dep'.hash = dep.hash /\ dep'.gen = 1 /\ dep'.observed = dep.observed
          /\ dep'.updated = dep.updated /\ dep'.replicas = dep.replicas
      BY <1>2, <3>1 DEF Workload
    <3>4. QED
      BY <1>2, <3>1, <3>2, <3>3
  <2>2. CASE Observe
    <3>1. TypeOK /\ dep' = Status
      BY <2>2 DEF Inv, Observe
    <3>2. QED
      BY <1>2, <3>1, StatusShape
  <2>3. QED
    BY <2>1, <2>2
<1>4. TypeOK' /\ job' \in Job
  BY <1>1, <1>2, <1>3 DEF Inv, TypeOK, Job
<1>5. Ordered'
  BY <1>1, <1>3 DEF Inv, Ordered
<1>6. Grounded(pods)'
  BY <1>1, <1>2, <1>3, SMTT(30) DEF Inv, Grounded
<1>7. Reconciling'
  <2>1. ASSUME job # Idle PROVE Grounded(job.pods)'
    <3>1. \A i \in Slots : job.pods[i].gen \in Nat
      BY <2>1, JobShape, SMTT(30) DEF Inv, Pod
    <3>2. QED
      BY <1>1, <1>2, <1>3, <2>1, <3>1, SMTT(30) DEF Inv, Reconciling, Grounded
  <2>2. QED
    BY <1>1, <1>3, <2>1, SMTT(30) DEF Inv, Reconciling, UpToDate, Good, Effective
<1>8. Reconciled'
  BY <1>1, <1>3 DEF Inv, Reconciled, Good, Effective
<1>9. QED
  BY <1>4, <1>5, <1>6, <1>7, <1>8 DEF Inv

(* A pod that is gone, or one that the webhook made.                       *)
LEMMA PodStep ==
  ASSUME Inv, NEW j, NEW p, pods' = [pods EXCEPT ![j] = p],
         p = Absent \/ (p = mutatePod(dep.gen) /\ dep.gen # 0),
         events' \in 0..MaxEvents, events <= events',
         UNCHANGED <<workload, api, seen, finalizing, queued, job, secret, dep>>
  PROVE  Inv'
<1>1. TypeOK /\ Ordered /\ pods \in [Slots -> Pod] /\ dep.gen \in Nat
  BY DEF Inv, TypeOK, Workload
<1>2. ASSUME p = Absent
      PROVE  p \in Pod /\ p.gen <= dep.gen /\ ~p.sidecar /\ p.hash = NoHash
  BY <1>1, <1>2, SMTT(30) DEF Absent, Pod
<1>3. /\ p \in Pod /\ p.gen <= dep.gen
      /\ p.sidecar <=> p.hash # NoHash
      /\ p.sidecar => secret /\ p.hash.config = seen.config
      /\ p # Absent => p.gen # 0
      /\ p # Absent /\ secret /\ Effective(seen) => Good(p)
  <2>1. CASE p = Absent
    BY <1>2, <2>1
  <2>2. CASE p = mutatePod(dep.gen) /\ dep.gen # 0
    BY <1>1, <2>2, PodShape
  <2>3. QED
    BY <2>1, <2>2
<1>4. pods' \in [Slots -> Pod] /\ \A i \in Slots : pods'[i] = p \/ pods'[i] = pods[i]
  BY <1>1, <1>3, ZenonT(30)
<1>5. TypeOK' /\ job' \in Job
  BY <1>1, <1>3, <1>4 DEF Inv, TypeOK, Job
<1>6. Ordered'
  <2>1. api.config \in Nat /\ seen.config \in Nat /\ events \in Nat /\ events' \in Nat
    BY <1>1, RolloutAssumption DEF TypeOK, Ordered, Cluster
  <2>2. api.config <= events'
    BY <1>1, <2>1, SMTT(30) DEF Ordered
  <2>3. \A i \in Slots : pods'[i].sidecar =>
          /\ pods'[i].hash.config <= seen.config
          /\ pods'[i].gen = dep.gen /\ dep.hash # NoHash => dep.hash.config <= pods'[i].hash.config
    BY <1>1, <1>3, <1>4, <2>1, SMTT(30) DEF Ordered
  <2>4. QED
    BY <1>1, <2>2, <2>3 DEF Ordered
<1>7. Grounded(pods)'
  BY <1>3, <1>4, SMTT(30) DEF Inv, Grounded
<1>8. Reconciling'
  <2>1. ASSUME job # Idle, ~queued PROVE UpToDate'
    <3>1. UpToDate /\ Grounded(job.pods)
      BY <2>1 DEF Inv, Reconciling
    <3>2. ASSUME Effective(seen), NEW k \in Slots, job.pods[k].sidecar
          PROVE  \A i \in Slots : pods'[i] \in {Absent, job.pods[i]} \/ Good(pods'[i])
      <4>1. secret
        BY <3>1, <3>2, SMTT(30) DEF Grounded
      <4>2. p = Absent \/ Good(p)
        BY <1>3, <3>2, <4>1, SMTT(30)
      <4>3. \A i \in Slots : pods[i] \in {Absent, job.pods[i]} \/ Good(pods[i])
        BY <3>1, <3>2 DEF UpToDate
      <4>4. QED
        BY <1>4, <4>2, <4>3, SMTT(30)
    <3>3. \A q : Good(q)' <=> Good(q)
      BY SMTT(30) DEF Good
    <3>4. QED
      BY <3>1, <3>2, <3>3, SMTT(30) DEF UpToDate, Effective
  <2>2. QED
    BY <2>1, SMTT(30) DEF Inv, Reconciling, Grounded
<1>9. Reconciled'
  BY <1>3, <1>4 DEF Inv, Reconciled, Good, Effective
<1>10. QED
  BY <1>5, <1>6, <1>7, <1>8, <1>9, SMTT(30) DEF Inv

LEMMA CreatePodStep ==
  ASSUME Inv, CreatePod
  PROVE  Inv'
<1>1. PICK j : pods' = [pods EXCEPT ![j] = mutatePod(dep.gen)]
  BY ZenonT(30) DEF CreatePod
<1>2. PICK i \in Slots : pods[i].gen < dep.gen
  BY DEF CreatePod
<1>3. dep.gen # 0
  BY <1>2 DEF Inv, TypeOK, Workload, Pod
<1>4. /\ events' = events /\ events \in 0..MaxEvents
      /\ UNCHANGED <<workload, api, seen, finalizing, queued, job, secret, dep>>
  BY DEF CreatePod, Inv, Ordered
<1>5. events' \in 0..MaxEvents /\ events <= events'
  BY <1>4, RolloutAssumption, SMTT(30)
<1>6. QED
  BY <1>1, <1>3, <1>4, <1>5, PodStep, ZenonT(30)

LEMMA EvictStep ==
  ASSUME Inv, NEW i \in Slots, Evict(i)
  PROVE  Inv'
<1>1. /\ pods' = [pods EXCEPT ![i] = Absent] /\ Event
      /\ UNCHANGED <<workload, api, seen, finalizing, queued, job, secret, dep>>
  BY DEF Evict
<1>2. events \in 0..MaxEvents
  BY DEF Inv, Ordered
<1>3. events' \in 0..MaxEvents /\ events <= events'
  BY <1>1, <1>2, RolloutAssumption DEF Event
<1>4. QED
  BY <1>1, <1>3, PodStep, ZenonT(30)

(* A reconcile that is to run again owes nothing.                          *)
LEMMA RequeueStep ==
  ASSUME Inv, Requeue, events' \in 0..MaxEvents, events <= events',
         UNCHANGED <<workload, api, seen, finalizing, secret, dep, pods>>
  PROVE  Inv'
<1>1. queued' = TRUE /\ job' = Idle
  BY DEF Requeue
<1>2. TypeOK' /\ job' \in Job
  BY <1>1 DEF Inv, TypeOK, Job, Idle
<1>3. Ordered'
  <2>1. api.config \in Nat /\ events \in Nat /\ events' \in Nat
    BY RolloutAssumption, SMTT(30) DEF Inv, TypeOK, Ordered, Cluster
  <2>2. api.config <= events'
    BY <2>1, SMTT(30) DEF Inv, Ordered
  <2>3. QED
    BY <1>1, <2>2, SMTT(30) DEF Inv, Ordered
<1>4. Grounded(pods)' /\ Reconciling' /\ Reconciled'
  BY <1>1, SMTT(30) DEF Inv, Grounded, Reconciling, Reconciled
<1>5. QED
  BY <1>2, <1>3, <1>4 DEF Inv

LEMMA SameEvents ==
  ASSUME Inv, UNCHANGED events
  PROVE  events' \in 0..MaxEvents /\ events <= events'
  BY RolloutAssumption, SMTT(30) DEF Inv, Ordered

LEMMA StartStep ==
  ASSUME Inv, Start
  PROVE  Inv'
<1>1. /\ queued' = FALSE /\ job' = [pc |-> "workloads", routes |-> seen, pods |-> pods]
      /\ UNCHANGED <<workload, api, seen, finalizing, secret, dep, pods, events>>
  BY SMTT(30) DEF Start
<1>2. seen \in Cluster /\ pods \in [Slots -> Pod] /\ seen.config \in Nat
  BY RolloutAssumption, SMTT(30) DEF Inv, TypeOK, Cluster
<1>3. /\ job' \in Job /\ job' # Idle /\ job'.pc = "workloads"
      /\ job'.routes = seen /\ job'.pods = pods
  BY <1>1, <1>2, SMTT(30) DEF Job, Idle
<1>4. TypeOK'
  BY <1>1, <1>3, ZenonT(30) DEF Inv, TypeOK
<1>5. Ordered'
  <2>1. job'.routes.config <= seen.config
    BY <1>2, <1>3
  <2>2. QED
    BY <1>1, <2>1, ZenonT(30) DEF Inv, Ordered
<1>6. Grounded(pods)'
  BY <1>1 DEF Inv, Grounded
<1>7. Reconciling'
  BY <1>1, <1>3, SMTT(30) DEF Inv, Reconciling, UpToDate, Grounded
<1>8. QED
  BY <1>3, <1>4, <1>5, <1>6, <1>7, SMTT(30) DEF Inv, Reconciled

LEMMA ListStep ==
  ASSUME Inv, ListWorkloads
  PROVE  Inv'
<1>1. /\ job.pc = "workloads"
      /\ UNCHANGED <<workload, api, seen, finalizing, secret, dep, pods, events>>
  BY SMTT(30) DEF ListWorkloads
<1>2. CASE dep.gen = 0 /\ \A i \in Slots : job.pods[i] = Absent
  BY <1>1, <1>2, RequeueStep, SameEvents, SMTT(30) DEF ListWorkloads
<1>3. CASE ~(dep.gen = 0 /\ \A i \in Slots : job.pods[i] = Absent)
  <2>1. /\ job' = [pc |-> "secret", routes |-> job.routes, pods |-> job.pods, dep |-> dep]
        /\ queued' = queued
    BY <1>3, SMTT(30) DEF ListWorkloads
  <2>2. /\ job # Idle /\ job.routes \in Cluster /\ job.pods \in [Slots -> Pod]
        /\ dep \in Workload
    BY <1>1, JobShape, SMTT(30) DEF Inv, TypeOK
  <2>3. /\ job' \in Job /\ job' # Idle /\ job'.pc = "secret"
        /\ job'.routes = job.routes /\ job'.pods = job.pods /\ job'.dep = dep
    BY <2>1, <2>2 DEF Job, Idle
  <2>4. dep.gen # 0
    <3>1. \A i \in Slots : job.pods[i].gen \in Nat /\ job.pods[i].gen <= dep.gen
                           /\ (job.pods[i] # Absent => job.pods[i].gen # 0)
      BY <2>2, SMTT(30) DEF Inv, Reconciling, Grounded, Pod
    <3>2. dep.gen \in Nat
      BY <2>2, SMTT(30) DEF Workload
    <3>3. QED
      BY <1>3, <3>1, <3>2, SMTT(30)
  <2>5. TypeOK'
    BY <1>1, <2>1, <2>3, SMTT(30) DEF Inv, TypeOK
  <2>6. Ordered'
    BY <1>1, <2>2, <2>3, ZenonT(30) DEF Inv, Ordered
  <2>7. Grounded(pods)'
    BY <1>1, SMTT(30) DEF Inv, Grounded
  <2>8. Reconciling'
    BY <1>1, <2>1, <2>2, <2>3, <2>4, SMTT(30) DEF Inv, Reconciling, UpToDate, Grounded, Good, Effective
  <2>9. QED
    BY <2>3, <2>5, <2>6, <2>7, <2>8, SMTT(30) DEF Inv, Reconciled
<1>4. QED
  BY <1>2, <1>3, SMTT(30)

LEMMA WriteStep ==
  ASSUME Inv, WriteSecret
  PROVE  Inv'
<1>1. /\ job.pc = "secret" /\ secret' = TRUE
      /\ job' = [job EXCEPT !.pc = "pods", !.routes.config = seen.config]
      /\ UNCHANGED <<workload, api, seen, finalizing, queued, dep, pods, events>>
  BY DEF WriteSecret
<1>2. /\ job # Idle /\ job.routes \in Cluster /\ job.pods \in [Slots -> Pod] /\ job.dep \in Workload
      /\ seen \in Cluster /\ seen.config \in Nat /\ seen.config \in 0..MaxEvents
  BY <1>1, JobShape, RolloutAssumption DEF Inv, TypeOK, Cluster
<1>3. job \in [pc : {"secret", "pods", "patch"}, routes : Cluster, pods : [Slots -> Pod], dep : Workload]
  BY <1>1, <1>2 DEF Inv, Job, Idle
<1>4. /\ job' \in [pc : {"secret", "pods", "patch"}, routes : Cluster, pods : [Slots -> Pod], dep : Workload]
      /\ job'.pc = "pods" /\ job'.pods = job.pods /\ job'.dep = job.dep
      /\ job'.routes = [job.routes EXCEPT !.config = seen.config]
  <2>1. [job.routes EXCEPT !.config = seen.config] \in Cluster
    BY <1>2 DEF Cluster
  <2>2. QED
    BY <1>1, <1>3, <2>1, ZenonT(30)
<1>5. job' \in Job /\ job' # Idle
  BY <1>4 DEF Job, Idle
<1>6. job'.routes.config = seen.config /\ \A r \in Routes : job'.routes[r] = job.routes[r]
  BY <1>2, <1>4 DEF Cluster, Routes
<1>7. TypeOK'
  BY <1>1, <1>4 DEF Inv, TypeOK
<1>8. Ordered'
  BY <1>1, <1>2, <1>6, SMTT(30) DEF Inv, Ordered
<1>9. Grounded(pods)'
  BY <1>1, SMTT(30) DEF Inv, Grounded
<1>10. Reconciling'
  <2>1. Grounded(job.pods)'
    BY <1>1, <1>2, <1>4, SMTT(30) DEF Inv, Reconciling, Grounded
  <2>2. ASSUME ~queued PROVE UpToDate'
    BY <1>1, <1>2, <1>4, <1>6, <2>2, SMTT(30) DEF Inv, Reconciling, UpToDate, Good, Effective
  <2>3. QED
    BY <1>1, <1>2, <1>4, <2>1, <2>2, SMTT(30) DEF Inv, Reconciling, Grounded
<1>11. QED
  BY <1>5, <1>7, <1>8, <1>9, <1>10, ZenonT(30) DEF Inv, Reconciled

LEMMA AnnotateStep ==
  ASSUME Inv, AnnotatePods
  PROVE  Inv'
<1>1. /\ job.pc = "pods"
      /\ UNCHANGED <<workload, api, seen, finalizing, secret, dep, pods, events>>
      /\ Requeue \/ (job' = [job EXCEPT !.pc = "patch"] /\ UNCHANGED queued)
  BY DEF AnnotatePods, WaitForRollout
<1>2. CASE Requeue
  BY <1>1, <1>2, RequeueStep, SameEvents, SMTT(30)
<1>3. CASE job' = [job EXCEPT !.pc = "patch"] /\ UNCHANGED queued
  <2>1. job # Idle
    BY <1>1 DEF Idle
  <2>2. job \in [pc : {"secret", "pods", "patch"}, routes : Cluster, pods : [Slots -> Pod], dep : Workload]
    BY <1>1, <2>1 DEF Inv, Job
  <2>3. /\ job' \in [pc : {"secret", "pods", "patch"}, routes : Cluster, pods : [Slots -> Pod], dep : Workload]
        /\ job'.pc = "patch" /\ job'.pods = job.pods /\ job'.dep = job.dep /\ job'.routes = job.routes
    BY <1>3, <2>2, SMTT(30)
  <2>4. job' \in Job /\ job' # Idle
    BY <2>3, SMTT(30) DEF Job, Idle
  <2>5. TypeOK'
    BY <1>1, <1>3, <2>3, SMTT(30) DEF Inv, TypeOK
  <2>6. Ordered' /\ Grounded(pods)'
    BY <1>1, <2>1, <2>3, SMTT(30) DEF Inv, Ordered, Grounded
  <2>7. Reconciling'
    BY <1>1, <1>3, <2>1, <2>3, SMTT(30) DEF Inv, Reconciling, Grounded, UpToDate, Good, Effective
  <2>8. QED
    BY <2>4, <2>5, <2>6, <2>7, SMTT(30) DEF Inv, Reconciled
<1>4. QED
  BY <1>1, <1>2, <1>3, SMTT(30)

(* The hash of routes is a hash, with their version of the GatewayConfig.  *)
LEMMA HashOfShape ==
  ASSUME NEW c \in Cluster
  PROVE  /\ HashOf(c) \in Hash /\ HashOf(c) # NoHash
         /\ HashOf(c).config = c.config /\ c.config \in Nat
<1>1. c.config \in 0..MaxEvents /\ (c.mcp # "none") \in BOOLEAN
  BY DEF Cluster
<1>2. c.config \in Nat
  BY <1>1, RolloutAssumption
<1>3. QED
  BY <1>1, <1>2, HashShape, ZenonT(30) DEF HashOf

(* When the pods that were listed need no rollout, each is good.           *)
LEMMA ListedAreGood ==
  ASSUME Effective(job.routes), ~NeedsStateRollout, seen.mcp = "live" => job.routes.mcp = "live"
  PROVE  /\ \E i \in Slots : job.pods[i].sidecar
         /\ \A i \in Slots : job.pods[i] = Absent \/ Good(job.pods[i])
<1> DEFINE with == {p \in Listed : checkPodHasSideCar(p, job.routes.mcp # "none")}
<1>1. with # {} /\ with = Listed
  BY ZenonT(30) DEF NeedsStateRollout
<1>2. \A p \in Listed : p.sidecar /\ (job.routes.mcp # "none" => p.hash.mcp)
  BY <1>1, SMTT(30) DEF checkPodHasSideCar
<1>3. \E i \in Slots : job.pods[i] \in Listed
  BY <1>1, SMTT(30) DEF Listed
<1>4. \A i \in Slots : job.pods[i] = Absent \/ job.pods[i] \in Listed
  BY SMTT(30) DEF Listed
<1>5. QED
  BY <1>2, <1>3, <1>4 DEF Good

(* What a patch leaves as it was, and what it makes new.                   *)
LEMMA PatchShape ==
  ASSUME Inv, job.pc = "patch"
  PROVE  /\ Patched \in Workload /\ Patched.observed <= Patched.gen
         /\ Patched.updated <= Patched.replicas
         /\ Effective(job.routes) => Patched.hash = HashOf(job.routes)
         /\ \/ /\ Patched.gen = dep.gen /\ Patched.hash = dep.hash
               /\ Effective(job.routes) => ~NeedsStateRollout
            \/ /\ Patched.gen = dep.gen + 1
               /\ Patched.hash = dep.hash \/ Patched.hash = HashOf(job.routes)
<1>1. job # Idle /\ job.routes \in Cluster /\ job.dep.gen # 0 /\ job.dep.hash = dep.hash
  BY JobShape, SMTT(30) DEF Inv, Reconciling
<1>2. dep \in Workload /\ dep.observed <= dep.gen /\ dep.updated <= dep.replicas
  BY DEF Inv, TypeOK
<1>3. HashOf(job.routes) \in Hash
  BY <1>1, HashOfShape, SMTT(30)
<1>4. CASE NeedsStateRollout \/ NeedsHashRollout(job.dep)
  <2> DEFINE h == IF NeedsHashRollout(job.dep) THEN HashOf(job.routes) ELSE dep.hash
  <2>1. Patched = [dep EXCEPT !.gen = @ + 1, !.hash = h]
    BY <1>1, <1>4, SMTT(30) DEF Patched
  <2>2. h \in Hash \cup {NoHash} /\ (h = dep.hash \/ h = HashOf(job.routes))
    BY <1>2, <1>3, SMTT(30) DEF Workload
  <2>3. Effective(job.routes) => h = HashOf(job.routes)
    BY <1>1 DEF NeedsHashRollout
  <2> HIDE DEF h
  <2>4. /\ Patched \in Workload /\ Patched.gen = dep.gen + 1 /\ Patched.hash = h
        /\ Patched.observed = dep.observed /\ Patched.updated = dep.updated
        /\ Patched.replicas = dep.replicas
    <3>1. dep.gen + 1 \in Nat
      BY <1>2 DEF Workload
    <3>2. Patched = [gen |-> dep.gen + 1, hash |-> h, observed |-> dep.observed,
                     replicas |-> dep.replicas, updated |-> dep.updated]
      BY <1>2, <2>1, ZenonT(30) DEF Workload
    <3>3. QED
      BY <1>2, <2>2, <3>1, <3>2, ZenonT(30) DEF Workload
  <2>5. dep.observed \in Nat /\ dep.gen \in Nat
    BY <1>2 DEF Workload
  <2>6. QED
    BY <1>2, <2>2, <2>3, <2>4, <2>5, SMTT(30)
<1>5. CASE ~(NeedsStateRollout \/ NeedsHashRollout(job.dep))
  <2>1. Patched = dep
    BY <1>5 DEF Patched
  <2>2. Effective(job.routes) => dep.hash = HashOf(job.routes)
    BY <1>1, <1>5 DEF NeedsHashRollout
  <2>3. QED
    BY <1>2, <1>5, <2>1, <2>2
<1>6. QED
  BY <1>4, <1>5, SMTT(30)

LEMMA PatchStep ==
  ASSUME Inv, PatchWorkload
  PROVE  Inv'
<1>1. /\ job.pc = "patch" /\ dep' = Patched /\ job' = Idle
      /\ UNCHANGED <<workload, api, seen, finalizing, queued, secret, pods, events>>
  BY SMTT(30) DEF PatchWorkload
<1>2. /\ job # Idle /\ job.routes \in Cluster /\ job.pods \in [Slots -> Pod]
      /\ pods \in [Slots -> Pod] /\ dep \in Workload /\ seen \in Cluster
  BY <1>1, JobShape, SMTT(30) DEF Inv, TypeOK
<1>3. /\ dep.gen \in Nat /\ seen.config \in Nat
      /\ \A i \in Slots : pods[i].gen \in Nat /\ pods[i].gen <= dep.gen
  BY <1>2, RolloutAssumption, SMTT(30) DEF Inv, Grounded, Workload, Cluster, Pod
<1>4. /\ dep' \in Workload /\ dep'.observed <= dep'.gen /\ dep'.updated <= dep'.replicas
      /\ Effective(job.routes) => dep'.hash = HashOf(job.routes)
      /\ \/ /\ dep'.gen = dep.gen /\ dep'.hash = dep.hash
            /\ Effective(job.routes) => ~NeedsStateRollout
         \/ /\ dep'.gen = dep.gen + 1
            /\ dep'.hash = dep.hash \/ dep'.hash = HashOf(job.routes)
  BY <1>1, PatchShape, SMTT(30)
<1>5. /\ HashOf(job.routes) # NoHash /\ HashOf(job.routes).config = job.routes.config
      /\ job.routes.config <= seen.config
  BY <1>2, HashOfShape, SMTT(30) DEF Inv, Ordered
<1>6. \A i \in Slots : /\ pods[i].gen <= dep'.gen
                       /\ pods[i].gen = dep'.gen => dep'.gen = dep.gen /\ dep'.hash = dep.hash
  BY <1>3, <1>4, SMTT(30)
<1>7. TypeOK'
  <2>1. job'.pc = "idle"
    BY <1>1, SMTT(30) DEF Idle
  <2>2. QED
    BY <1>1, <1>4, <1>6, <2>1, SMTT(30) DEF Inv, TypeOK
<1>8. Ordered'
  <2>1. dep'.hash # NoHash => dep'.hash.config <= seen.config
    BY <1>4, <1>5, ZenonT(30) DEF Inv, Ordered
  <2>2. \A i \in Slots : pods[i].sidecar =>
          /\ pods[i].hash.config <= seen.config
          /\ pods[i].gen = dep'.gen /\ dep'.hash # NoHash => dep'.hash.config <= pods[i].hash.config
    BY <1>6, ZenonT(30) DEF Inv, Ordered
  <2>3. QED
    BY <1>1, <2>1, <2>2, SMTT(30) DEF Inv, Ordered
<1>9. Grounded(pods)'
  BY <1>1, <1>6, SMTT(30) DEF Inv, Grounded
<1>10. Reconciled'
  <2> SUFFICES ASSUME ~queued
               PROVE  /\ secret
                      /\ Effective(seen) =>
                           /\ dep'.hash # NoHash /\ dep'.hash.config = seen.config
                           /\ \A i \in Slots : pods[i] # Absent /\ pods[i].gen = dep'.gen => Good(pods[i])
    BY <1>1, SMTT(30) DEF Reconciled, Good, Effective
  <2>1. secret /\ UpToDate
    BY <1>1, <1>2, SMTT(30) DEF Inv, Reconciling
  <2> SUFFICES ASSUME Effective(seen)
               PROVE  /\ dep'.hash # NoHash /\ dep'.hash.config = seen.config
                      /\ \A i \in Slots : pods[i] # Absent /\ pods[i].gen = dep'.gen => Good(pods[i])
    BY <2>1, SMTT(30)
  <2>2. Effective(job.routes) /\ (seen.mcp = "live" => job.routes.mcp = "live")
    BY <2>1, SMTT(30) DEF UpToDate, Effective, Routes
  <2>3. dep'.hash # NoHash /\ dep'.hash.config = seen.config
    BY <1>4, <1>5, <2>1, <2>2, SMTT(30) DEF UpToDate
  <2>4. ASSUME NEW i \in Slots, pods[i] # Absent, pods[i].gen = dep'.gen
        PROVE  Good(pods[i])
    <3>1. ~NeedsStateRollout
      BY <1>3, <1>4, <2>2, <2>4, SMTT(30)
    <3>2. /\ \E j \in Slots : job.pods[j].sidecar
          /\ job.pods[i] = Absent \/ Good(job.pods[i])
      BY <2>2, <3>1, ListedAreGood, SMTT(30)
    <3>3. pods[i] \in {Absent, job.pods[i]} \/ Good(pods[i])
      BY <2>1, <3>2, SMTT(30) DEF UpToDate
    <3>4. QED
      BY <2>4, <3>2, <3>3, SMTT(30)
  <2>5. QED
    BY <2>3, <2>4, SMTT(30)
<1>11. QED
  BY <1>1, <1>7, <1>8, <1>9, <1>10, SMTT(30) DEF Inv, Job, Reconciling

-----------------------------------------------------------------------------
LEMMA InvInit ==
  ASSUME Init
  PROVE  Inv
<1>1. MaxEvents \in Nat /\ 0 \in 0..MaxEvents
  BY RolloutAssumption, SMTT(30)
<1>2. api \in Cluster /\ seen \in Cluster /\ api.config = 0 /\ seen.config = 0
  BY <1>1, SMTT(30) DEF Init, Cluster
<1>3. /\ dep \in Workload /\ dep.gen = 0 /\ dep.observed = 0
      /\ dep.hash = NoHash /\ dep.updated = 0 /\ dep.replicas = 0
  <2>1. Cardinality(Slots) \in Nat
    BY RolloutAssumption, FS_CardinalityType, SMTT(30)
  <2>2. 0 \in 0..Cardinality(Slots)
    BY <2>1, SMTT(30)
  <2>3. QED
    BY <2>2, SMTT(30) DEF Init, NoWorkload, Workload
<1>4. /\ pods \in [Slots -> Pod]
      /\ \A i \in Slots : /\ pods[i] = Absent /\ pods[i].gen = 0 /\ ~pods[i].sidecar
                          /\ pods[i].hash = NoHash
  <2>1. Absent \in Pod /\ Absent.gen = 0 /\ ~Absent.sidecar /\ Absent.hash = NoHash
    BY SMTT(30) DEF Absent, Pod
  <2>2. QED
    BY <2>1, SMTT(30) DEF Init
<1>5. queued = TRUE /\ job = Idle /\ job.pc = "idle" /\ job \in Job
  BY SMTT(30) DEF Init, Job, Idle
<1>6. TypeOK
  <2>1. workload \in Workloads /\ finalizing = {} /\ queued \in BOOLEAN /\ secret \in BOOLEAN
    BY ZenonT(30) DEF Init
  <2>2. \A i \in Slots : pods[i].gen <= dep.gen /\ (pods[i].sidecar <=> pods[i].hash # NoHash)
    BY <1>3, <1>4
  <2>3. dep.observed <= dep.gen /\ dep.updated <= dep.replicas
    BY <1>3
  <2>4. QED
    BY <1>2, <1>3, <1>4, <1>5, <2>1, <2>2, <2>3, SMTT(30) DEF TypeOK
<1>7. Ordered
  BY <1>1, <1>2, <1>3, <1>4, <1>5 DEF Init, Ordered
<1>8. Grounded(pods)
  BY <1>3, <1>4, SMTT(30) DEF Grounded
<1>9. QED
  BY <1>5, <1>6, <1>7, <1>8, SMTT(30) DEF Inv, Reconciling, Reconciled

LEMMA InvStep ==
  ASSUME Inv, [Next]_vars
  PROVE  Inv'
<1>1. CASE \E r \in Routes : Create(r) \/ Delete(r)
  BY <1>1, ChangeStep, SMTT(30)
<1>2. CASE \E r \in Routes : Release(r)
  BY <1>2, ReleaseStep, SMTT(30)
<1>3. CASE Configure
  BY <1>3, ConfigureStep, SMTT(30)
<1>4. CASE \E o \in Objects : Watch(o)
  BY <1>4, WatchStep
<1>5. CASE CreateWorkload \/ Observe
  BY <1>5, WorkloadStep, SMTT(30)
<1>6. CASE CreatePod
  BY <1>6, CreatePodStep
<1>7. CASE \E i \in Slots : Evict(i)
  BY <1>7, EvictStep, SMTT(30)
<1>8. CASE Start
  BY <1>8, StartStep
<1>9. CASE ListWorkloads
  BY <1>9, ListStep
<1>10. CASE WriteSecret
  BY <1>10, WriteStep
<1>11. CASE AnnotatePods
  BY <1>11, AnnotateStep
<1>12. CASE PatchWorkload
  BY <1>12, PatchStep
<1>13. CASE Refused
  <2>1. events' \in 0..MaxEvents /\ events <= events'
    <3>1. events \in 0..MaxEvents
      BY ZenonT(30) DEF Inv, Ordered
    <3>2. Event
      BY <1>13, ZenonT(30) DEF Refused
    <3>3. QED
      BY <3>1, <3>2, RolloutAssumption, SMTT(60) DEF Event
  <2>2. QED
    BY <1>13, <2>1, RequeueStep, SMTT(30) DEF Refused
<1>14. CASE UNCHANGED vars
  <2>1. /\ api' \in Cluster /\ finalizing' \subseteq {r \in Routes : api'[r] = "deleting"}
        /\ events' \in 0..MaxEvents /\ api'.config <= events' /\ seen.config <= api'.config
    BY <1>14 DEF vars, Inv, TypeOK, Ordered
  <2>2. QED
    BY <1>14, <2>1, OthersStep, SMTT(30) DEF vars
<1>15. QED
  BY <1>1, <1>2, <1>3, <1>4, <1>5, <1>6, <1>7, <1>8, <1>9, <1>10, <1>11, <1>12, <1>13, <1>14, SMTT(30)
  DEF Next, Kubernetes, Reconcile

LEMMA Invariance == Spec => []Inv
<1>1. Init => Inv
  BY InvInit, SMTT(30)
<1>2. Inv /\ [Next]_vars => Inv'
  BY InvStep
<1>3. QED
  BY <1>1, <1>2, PTL, SMTT(30) DEF Spec

-----------------------------------------------------------------------------
(* No pod is of a generation that the workload never had, and a pod has    *)
(* the configuration of the container only with the container.             *)
THEOREM TypeCorrect == Spec => []TypeOK
<1>1. Inv => TypeOK
  BY DEF Inv
<1>2. QED
  BY <1>1, Invariance, PTL, SMTT(30)

(* Whatever the number of replicas, the changes of routes and of the       *)
(* GatewayConfig, the evictions and the calls that fail: when nothing is   *)
(* left to do, every pod has the processor that the webhook adds, with the *)
(* MCP proxy if it is asked for, and as the present GatewayConfig has it.  *)
THEOREM PodsServe == Spec => []PodsServeRoutes
<1>1. Inv => PodsServeRoutes
  <2> SUFFICES ASSUME Inv, AtRest, Effective(api), NEW i \in Slots
               PROVE  /\ pods[i].sidecar
                      /\ api.mcp = "live" => pods[i].hash.mcp
                      /\ pods[i].hash.config = api.config
    BY SMTT(30) DEF PodsServeRoutes
  <2>1. job = Idle /\ ~queued /\ seen = api /\ dep.gen # 0 /\ pods[i].gen = dep.gen
    BY ZenonT(30) DEF AtRest
  <2>2. pods[i] # Absent
    <3>1. Absent.gen = 0
      BY DEF Absent
    <3>2. QED
      BY <2>1, <3>1, ZenonT(30)
  <2>3. /\ dep.hash # NoHash /\ dep.hash.config = seen.config
        /\ pods[i].sidecar /\ (seen.mcp = "live" => pods[i].hash.mcp)
    BY <2>1, <2>2, SMTT(30) DEF Inv, Reconciled, Good
  <2>4. dep.hash.config <= pods[i].hash.config /\ pods[i].hash.config <= seen.config
    BY <2>1, <2>3, ZenonT(30) DEF Inv, Ordered
  <2>5. seen.config \in Nat /\ pods[i].hash.config \in Nat
    <3>1. pods[i] \in Pod /\ pods[i].hash # NoHash /\ seen \in Cluster
      BY <2>3 DEF Inv, TypeOK
    <3>2. QED
      BY <3>1, RolloutAssumption, SMTT(30) DEF Pod, Hash, Cluster
  <2>6. pods[i].hash.config = seen.config
    <3>1. \A m, n \in Nat : m <= n /\ n <= m => m = n
      OBVIOUS
    <3>2. QED
      BY <2>3, <2>4, <2>5, <3>1, ZenonT(30)
  <2>7. QED
    BY <2>1, <2>3, <2>6, ZenonT(30)
<1>2. QED
  BY <1>1, Invariance, PTL
=============================================================================
