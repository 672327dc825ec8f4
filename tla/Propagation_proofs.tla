------------------------- MODULE Propagation_proofs -------------------------
(***************************************************************************)
(* Proofs about Propagation, for clusters of any kinds of objects, any     *)
(* room in the channels and any number of changes, failures and restarts.  *)
(***************************************************************************)
EXTENDS Propagation, TLAPS

Routes == {"Route", "MCPRoute"}

(* The changes that the controllers announce: they do not announce the     *)
(* deletion of what routes refer to, the change of the policy of a pool,   *)
(* nor the deletion of a route that has no finalizer yet.                  *)
Announced ==
  /\ ~EarlyDelete
  /\ \A w \in Worlds : /\ w.deleted \subseteq Routes \cup {"Gateway"}
                       /\ w.ref = "Pool" => "BSP" \notin w.kinds

-----------------------------------------------------------------------------
(* The inductive invariant.                                                *)

(* Objects: only routes and the gateway go, and only routes linger.        *)
Sound(o, k) ==
  /\ k \notin world.kinds => o = Never
  /\ k \notin Finalized => ~o.fin
  /\ o.del => k \in Routes /\ o.on /\ o.fin
  /\ o.gen = 0 => ~o.on
  /\ k \notin Routes \cup {"Gateway"} /\ o.gen > 0 => o.on

Objects == \A k \in Kind : Sound(api[k], k) /\ Sound(seen[k], k) /\ api[k].gen <= events + 1

(* The cache is a version behind, at worst, and what has gone does not     *)
(* come back.                                                              *)
Behind(k) ==
  /\ k \notin lag => seen[k] = api[k]
  /\ seen[k].gen <= api[k].gen
  /\ seen[k].gen = api[k].gen /\ seen[k].on = api[k].on => seen[k].del = api[k].del
  /\ seen[k].gen > 0 /\ ~Live(seen[k]) => ~Live(api[k])
  /\ k \in Routes /\ api[k].gen > 0 /\ ~api[k].on => ~Live(seen[k])
  /\ k = "Secret" /\ k \in lag => seen[k].gen # api[k].gen

Cached == \A k \in Kind : Behind(k)

(* What a reconcile of k has in hand at each stage.                        *)
InHand(k) ==
  /\ job[k].at # "write"
  /\ job[k].at \in {"add", "drop"} => k \in Finalized /\ k \in world.kinds
  /\ job[k].at \in {"add", "sync"} => ~job[k].obj.del
  /\ job[k].at = "drop" => job[k].obj.del
  /\ job[k].at # "idle" /\ job[k].obj.del => k \in Routes /\ ~Live(seen[k]) /\ seen[k].gen > 0
  /\ job[k].at \in {"send", "drop"} /\ job[k].cur /\ job[k].obj.del => api[k].del
  /\ job[k].at = "send" => job[k].todo # <<>> /\ (k \in Routes => job[k].todo = <<"Gateway">>)
  /\ job[k].at # "idle" /\ k \in Routes /\ Live(seen[k])
       => job[k].obj.gen = seen[k].gen \/ k \in queue
  /\ job[k].at # "idle" /\ k \in Routes /\ seen[k].del => job[k].obj.del \/ k \in queue

Jobs == (\A k \in Kind \ {"Gateway"} : InHand(k)) /\ job["Gateway"].at \in {"idle", "write"}

(* k will be reconciled, and then tell d.                                  *)
Told(k) == k \in queue \/ chan[k] > 0

Due(k) ==
  \/ Told(k) \/ job[k].at \in {"add", "sync"}
  \/ job[k].at = "status" /\ (job[k].retry \/ k = "QuotaPolicy")

Sends(k, d) == job[k].at = "send" /\ \E i \in 1..Len(job[k].todo) : job[k].todo[i] = d

Calls(k, d) == seen[k].on /\ (Due(k) \/ Sends(k, d))

(* The configuration, or the one that is about to be written, against what *)
(* the cache calls for.                                                    *)
Newest == IF job["Gateway"].at = "write" THEN draft ELSE config

Part(r) == IF r = "Route" THEN {"Route", "Backend", "BSP", "Secret", "QuotaPolicy"} ELSE {"MCPRoute"}

Same(C) == \A c \in C : Newest[c] = FilterConfig(seen)[c]

(* A change of what the route refers to is on its way to the route.        *)
OnTheWay ==
  \/ Calls("QuotaPolicy", "Route")
  \/ /\ world.ref = "Backend" /\ seen["Backend"].on
     /\ \/ Calls("Backend", "Route")
        \/ seen["BSP"].on /\ (Calls("BSP", "Backend") \/ Calls("Secret", "BSP"))

(* The configuration is right, or word of the change is on its way to the  *)
(* gateway, unless it has been lost; for a route that is being deleted, it *)
(* gets there before the finalizer is removed.                             *)
RightFor(r) ==
  /\ Live(seen[r]) => \/ Same(Part(r)) \/ Told("Gateway") \/ Calls(r, "Gateway")
                      \/ r = "Route" /\ OnTheWay
  /\ seen[r].del => Same(Part(r)) \/ Told("Gateway") \/ Sends(r, "Gateway") \/ r \in queue
  /\ ~seen[r].on \/ job[r].at = "drop" \/ ~api[r].on => Same(Part(r)) \/ Told("Gateway")

Configured ==
  seen["Gateway"].on /\ lost = {} =>
    /\ Same({"GatewayConfig"}) \/ Told("Gateway") \/ Calls("GatewayConfig", "Gateway")
    /\ \A r \in Routes : RightFor(r)

(* The same for what is generated from a route.                            *)
Generated ==
  /\ \A r \in Routes : Live(seen[r]) => derived[r] = seen[r].gen \/ Due(r)
  /\ Live(seen["Route"]) /\ world.ref = "Backend" =>
       derived["Backend"] = seen["Backend"].gen \/ Due("Route") \/ Calls("Backend", "Route")
  /\ Live(seen["MCPRoute"]) =>
       \/ derived["Secret"] = api["Secret"].gen \/ "Secret" \in lag
       \/ Due("MCPRoute") \/ Calls("Secret", "MCPRoute")

Inv == TypeOK /\ Objects /\ Cached /\ Jobs /\ Configured /\ Generated

-----------------------------------------------------------------------------
(* Facts about the data.                                                   *)
LEMMA ObjectType ==
  ASSUME NEW o \in Object
  PROVE  o.on \in BOOLEAN /\ o.del \in BOOLEAN /\ o.fin \in BOOLEAN /\ o.gen \in 0..MaxEvents + 1
  BY Zenon DEF Object

LEMMA Typed ==
  ASSUME TypeOK, NEW k \in Kind
  PROVE  /\ api[k] \in Object /\ seen[k] \in Object /\ job[k].obj \in Object
         /\ job[k].at \in {"idle", "add", "sync", "send", "drop", "status", "write"}
         /\ job[k].cur \in BOOLEAN /\ job[k].retry \in BOOLEAN /\ job[k].todo \in Seq(Kind)
         /\ chan[k] \in 0..Cap
  BY Zenon DEF TypeOK

LEMMA Counts ==
  ASSUME TypeOK
  PROVE  events \in Nat /\ events <= MaxEvents /\ MaxEvents \in Nat
  BY PropagationAssumption DEF TypeOK

LEMMA Generation ==
  ASSUME NEW o \in Object
  PROVE  o.gen \in Nat
  BY ObjectType

LEMMA Later ==
  ASSUME NEW m \in Nat, NEW n \in Nat, m <= n
  PROVE  m # 0 \/ m > 0 => n > 0
  OBVIOUS

LEMMA EventsKept ==
  ASSUME TypeOK, UNCHANGED events
  PROVE  events' \in 0..MaxEvents /\ events' \in Nat /\ events' >= events
  BY PropagationAssumption DEF TypeOK

LEMMA ChannelsKept ==
  ASSUME TypeOK, UNCHANGED chan
  PROVE  chan' \in [Kind -> 0..Cap] /\ \A d \in Kind : chan'[d] >= chan[d]
  BY PropagationAssumption DEF TypeOK

LEMMA GoneFacts ==
  ASSUME NEW o \in Object
  PROVE  Gone(o) \in Object /\ Gone(o).gen = o.gen /\ ~Gone(o).on /\ ~Gone(o).del /\ ~Gone(o).fin
  BY Zenon DEF Object, Gone

(* Which objects the configuration depends on, apart from their finalizers.*)
Alike(o, p) == o.on = p.on /\ o.del = p.del /\ o.gen = p.gen

LEMMA FilterAlike ==
  ASSUME world' = world, \A k \in Kind : Alike(seen'[k], seen[k])
  PROVE  FilterConfig(seen)' = FilterConfig(seen)
<1>1. \A k \in Content : Included(seen, k)' <=> Included(seen, k)
  BY DEF Alike, Content, Kind, Included, mcpConfig, BackendFound, injectQuotaPolicyCostExpressions,
         fetchGatewayConfig, backendWithMaybeBSP, bspToFilterAPIBackendAuth, Live
<1>2. \A k \in Content : Version(seen[k])' = Version(seen[k])
  BY DEF Alike, Content, Kind, Version
<1>3. QED
  BY <1>1, <1>2 DEF FilterConfig

-----------------------------------------------------------------------------
(* A step that leaves what the cache says as it is.                        *)

(* To whom the controller of k tells of a change.                          *)
Edge(k, d) ==
  \/ k = "Secret" /\ d \in {"BSP", "MCPRoute"}
  \/ k = "BSP" /\ d = "Backend"
  \/ k = "Backend" /\ d = "Route" /\ world.ref = "Backend"
  \/ k = "QuotaPolicy" /\ d = "Route"
  \/ k \in {"Route", "MCPRoute", "GatewayConfig"} /\ d = "Gateway"

(* What k has to tell it still has to, or the others have been told.       *)
PassesOn(k) ==
  \A d \in Kind : Edge(k, d) /\ Live(seen[k]) /\ seen[d].on /\ Calls(k, d) => Calls(k, d)' \/ Told(d)'

(* A route that is being deleted does not go before the gateway knows.     *)
GoesLast(r) ==
  /\ seen[r].del /\ (Sends(r, "Gateway") \/ r \in queue)
       => Sends(r, "Gateway")' \/ r \in queue' \/ Told("Gateway")'
  /\ job'[r].at = "drop" => job[r].at = "drop" \/ Told("Gateway")'
  /\ ~api'[r].on => ~api[r].on \/ job[r].at = "drop"

SameCache == world' = world /\ \A k \in Kind : Alike(seen'[k], seen[k])

Passing ==
  /\ SameCache
  /\ \A k \in Kind \ {"Gateway"} : PassesOn(k)

LEMMA StaysConfigured ==
  ASSUME TypeOK, Objects, Configured, Passing, Newest' = Newest \/ Told("Gateway")',
         Told("Gateway") => Told("Gateway")',
         lost' = {} => lost = {}, seen["Gateway"].on => \A r \in Routes : GoesLast(r)
  PROVE  Configured'
<1>1. FilterConfig(seen)' = FilterConfig(seen)
  BY FilterAlike DEF Passing, SameCache
<1>2. \A k \in Kind : /\ seen'[k].on = seen[k].on /\ seen'[k].del = seen[k].del
                      /\ Live(seen[k])' = Live(seen[k])
  BY DEF Passing, SameCache, Alike, Live
<1>3. SUFFICES ASSUME seen["Gateway"].on, lost = {}, ~Told("Gateway")' PROVE Configured'
  BY <1>2 DEF Configured, Kind, RightFor, Routes
<1>4. \A C : Same(C) => Same(C)'
  BY <1>1, <1>3 DEF Same
<1>5. ~Told("Gateway")
  BY <1>3
<1>6. \A k \in Kind \ Routes : seen[k].on => Live(seen[k])
  BY DEF Objects, Sound, Live, Routes
<1>7. Same({"GatewayConfig"})' \/ Calls("GatewayConfig", "Gateway")'
  <2>1. Same({"GatewayConfig"}) \/ Calls("GatewayConfig", "Gateway")
    BY <1>3, <1>5 DEF Configured
  <2>2. CASE Calls("GatewayConfig", "Gateway")
    <3>1. seen["GatewayConfig"].on /\ Live(seen["GatewayConfig"])
      BY <1>6, <2>2 DEF Calls, Kind, Routes
    <3>2. QED
      BY <1>3, <2>2, <3>1 DEF Passing, PassesOn, Edge, Kind
  <2>3. QED
    BY <1>4, <2>1, <2>2
<1>8. ASSUME OnTheWay, Live(seen["Route"]) PROVE OnTheWay' \/ Calls("Route", "Gateway")'
  <2>1. seen["Route"].on
    BY <1>8 DEF Live
  <2>2. Told("Route")' => Calls("Route", "Gateway")'
    BY <1>2, <2>1 DEF Calls, Due, Kind
  <2>3. CASE Calls("QuotaPolicy", "Route")
    <3>1. Live(seen["QuotaPolicy"])
      BY <1>6, <2>3 DEF Calls, Kind, Routes
    <3>2. Calls("QuotaPolicy", "Route")' \/ Told("Route")'
      BY <2>1, <2>3, <3>1 DEF Passing, PassesOn, Edge, Kind
    <3>3. QED
      BY <2>2, <3>2 DEF OnTheWay
  <2>4. CASE world.ref = "Backend" /\ seen["Backend"].on /\ Calls("Backend", "Route")
    <3>1. Live(seen["Backend"])
      BY <1>6, <2>4 DEF Kind, Routes
    <3>2. Calls("Backend", "Route")' \/ Told("Route")'
      BY <2>1, <2>4, <3>1 DEF Passing, PassesOn, Edge, Kind
    <3>3. QED
      BY <1>2, <2>2, <2>4, <3>2 DEF OnTheWay, Passing, SameCache, Kind
  <2>5. CASE /\ world.ref = "Backend" /\ seen["Backend"].on /\ seen["BSP"].on
             /\ Calls("BSP", "Backend") \/ Calls("Secret", "BSP")
    <3>1. /\ world'.ref = "Backend" /\ seen'["Backend"].on /\ seen'["BSP"].on
          /\ Live(seen["BSP"])
      BY <1>2, <1>6, <2>5 DEF Passing, SameCache, Kind, Routes
    <3>2. Told("Backend")' => Calls("Backend", "Route")'
      BY <3>1 DEF Calls, Due
    <3>3. Told("BSP")' => Calls("BSP", "Backend")'
      BY <3>1 DEF Calls, Due
    <3>4. CASE Calls("BSP", "Backend")
      <4>1. Calls("BSP", "Backend")' \/ Told("Backend")'
        BY <2>5, <3>1, <3>4 DEF Passing, PassesOn, Edge, Kind
      <4>2. QED
        BY <3>1, <3>2, <4>1 DEF OnTheWay
    <3>5. CASE Calls("Secret", "BSP")
      <4>1. Live(seen["Secret"])
        BY <1>6, <3>5 DEF Calls, Kind, Routes
      <4>2. Calls("Secret", "BSP")' \/ Told("BSP")'
        BY <2>5, <3>5, <4>1 DEF Passing, PassesOn, Edge, Kind
      <4>3. QED
        BY <3>1, <3>3, <4>2 DEF OnTheWay
    <3>6. QED
      BY <2>5, <3>4, <3>5
  <2>6. QED
    BY <1>8, <2>3, <2>4, <2>5 DEF OnTheWay
<1>9. ASSUME NEW r \in Routes PROVE RightFor(r)'
  <2>1. r \in Kind \ {"Gateway"} /\ RightFor(r) /\ GoesLast(r)
    BY <1>3, <1>9 DEF Configured, Routes, Kind
  <2>2. CASE Live(seen[r])
    <3>1. Calls(r, "Gateway") => Calls(r, "Gateway")'
      BY <1>3, <1>9, <2>1, <2>2 DEF Passing, PassesOn, Edge, Kind, Routes
    <3>2. \/ Same(Part(r))' \/ Calls(r, "Gateway")'
          \/ r = "Route" /\ OnTheWay'
      BY <1>4, <1>5, <1>8, <2>1, <2>2, <3>1 DEF RightFor
    <3>3. (~seen[r].on \/ job[r].at = "drop" \/ ~api[r].on) => Same(Part(r))
      BY <1>5, <2>1 DEF RightFor
    <3>4. (~seen'[r].on \/ job'[r].at = "drop" \/ ~api'[r].on) => Same(Part(r))'
      BY <1>2, <1>3, <1>4, <2>1, <3>3 DEF GoesLast
    <3>5. ~seen'[r].del
      BY <1>2, <2>1, <2>2 DEF Live
    <3>6. Part(r)' = Part(r)
      BY DEF Part
    <3>7. QED
      BY <3>2, <3>4, <3>5, <3>6 DEF RightFor
  <2>3. CASE ~Live(seen[r])
    <3>1. ~Live(seen[r])'
      BY <1>2, <2>1, <2>3, Zenon
    <3>2. (~seen[r].on \/ job[r].at = "drop" \/ ~api[r].on) => Same(Part(r))
      BY <1>5, <2>1 DEF RightFor
    <3>3. (~seen'[r].on \/ job'[r].at = "drop" \/ ~api'[r].on) => Same(Part(r))'
      BY <1>2, <1>3, <1>4, <2>1, <3>2 DEF GoesLast
    <3>4. seen'[r].del => Same(Part(r))' \/ Sends(r, "Gateway")' \/ r \in queue'
      BY <1>2, <1>3, <1>4, <1>5, <2>1, Zenon DEF RightFor, GoesLast
    <3>5. QED
      BY <3>1, <3>3, <3>4 DEF RightFor
  <2>4. QED
    BY <2>2, <2>3
<1>10. QED
  BY <1>7, <1>9 DEF Configured

LEMMA StaysGenerated ==
  ASSUME TypeOK, Objects, Generated, SameCache, PassesOn("Backend"), PassesOn("Secret"), derived' = derived,
         api'["Secret"].gen = api["Secret"].gen \/ "Secret" \in lag', "Secret" \in lag => "Secret" \in lag',
         \A r \in Routes : Live(seen[r]) /\ Due(r) => Due(r)'
  PROVE  Generated'
<1>2. \A k \in Kind : /\ seen'[k].on = seen[k].on /\ seen'[k].gen = seen[k].gen
                      /\ Live(seen[k])' = Live(seen[k])
  BY DEF SameCache, Alike, Live
<1>3. \A r \in Routes : Live(seen[r])' => derived'[r] = seen'[r].gen \/ Due(r)'
  BY <1>2 DEF Generated, Routes, Kind
<1>4. ASSUME Live(seen["Route"])', world'.ref = "Backend"
      PROVE  derived'["Backend"] = seen'["Backend"].gen \/ Due("Route")' \/ Calls("Backend", "Route")'
  <2>1. Live(seen["Route"]) /\ seen["Route"].on /\ world.ref = "Backend"
    BY <1>2, <1>4 DEF SameCache, Live, Kind
  <2>2. derived["Backend"] = seen["Backend"].gen \/ Due("Route") \/ Calls("Backend", "Route")
    BY <2>1 DEF Generated
  <2>3. CASE Calls("Backend", "Route")
    <3>1. Live(seen["Backend"])
      BY <2>3 DEF Calls, Objects, Sound, Live, Routes, Kind
    <3>2. Calls("Backend", "Route")' \/ Told("Route")'
      BY <2>1, <2>3, <3>1 DEF PassesOn, Edge, Kind
    <3>3. QED
      BY <3>2, Zenon DEF Due
  <2>4. QED
    BY <1>2, <2>1, <2>2, <2>3, Zenon DEF Routes, Kind
<1>5. ASSUME Live(seen["MCPRoute"])'
      PROVE  \/ derived'["Secret"] = api'["Secret"].gen \/ "Secret" \in lag'
             \/ Due("MCPRoute")' \/ Calls("Secret", "MCPRoute")'
  <2>1. Live(seen["MCPRoute"]) /\ seen["MCPRoute"].on
    BY <1>2, <1>5 DEF Live, Kind
  <2>2. \/ derived["Secret"] = api["Secret"].gen \/ "Secret" \in lag
        \/ Due("MCPRoute") \/ Calls("Secret", "MCPRoute")
    BY <2>1 DEF Generated
  <2>3. CASE Calls("Secret", "MCPRoute")
    <3>1. Live(seen["Secret"])
      BY <2>3 DEF Calls, Objects, Sound, Live, Routes, Kind
    <3>2. Calls("Secret", "MCPRoute")' \/ Told("MCPRoute")'
      BY <2>1, <2>3, <3>1 DEF PassesOn, Edge, Kind
    <3>3. QED
      BY <3>2, Zenon DEF Due
  <2>4. QED
    BY <2>1, <2>2, <2>3 DEF Routes
<1>6. QED
  BY <1>3, <1>4, <1>5 DEF Generated

(* A step in which only the reconciles in Acting move: the others have as  *)
(* much to tell as before.                                                 *)
Resting(j) ==
  /\ job'[j].at = job[j].at /\ job'[j].obj = job[j].obj /\ job'[j].todo = job[j].todo
  /\ job'[j].retry = job[j].retry
  /\ j \in queue => j \in queue'
  /\ Told(j) => Told(j)'
  /\ j \in Routes /\ ~api'[j].on => ~api[j].on

LEMMA Rested ==
  ASSUME NEW j \in Kind, SameCache, Resting(j)
  PROVE  /\ PassesOn(j) /\ (Due(j) => Due(j)') /\ (j \in Routes => GoesLast(j))
<1>1. Due(j) => Due(j)'
  BY DEF Resting, Due
<1>2. \A d : Sends(j, d) => Sends(j, d)'
  BY DEF Resting, Sends
<1>3. \A d : Calls(j, d) => Calls(j, d)'
  BY <1>1, <1>2 DEF Calls, SameCache, Alike
<1>4. QED
  BY <1>1, <1>2, <1>3 DEF PassesOn, GoesLast, Resting

LEMMA Frame ==
  ASSUME NEW Acting \in SUBSET (Kind \ {"Gateway"}), Inv, SameCache, UNCHANGED <<config, draft>>,
         \A j \in Kind \ Acting : Resting(j),
         lost' = {} => /\ lost = {}
                       /\ \A k \in Acting : PassesOn(k) /\ (k \in Routes /\ seen["Gateway"].on => GoesLast(k))
  PROVE  Configured'
<1>0. SUFFICES ASSUME lost' = {} PROVE Configured'
  BY Zenon DEF Configured
<1>1. Passing
  BY <1>0, Rested, Zenon DEF Passing, Resting, Kind
<1>2. Newest' = Newest /\ (Told("Gateway") => Told("Gateway")')
  BY DEF Newest, Resting, Kind
<1>3. seen["Gateway"].on => \A r \in Routes : GoesLast(r)
  BY <1>0, Rested DEF Routes, Kind
<1>4. QED
  BY <1>0, <1>1, <1>2, <1>3, StaysConfigured DEF Inv

LEMMA FrameGenerated ==
  ASSUME NEW Acting \in SUBSET Kind, Inv, SameCache, UNCHANGED derived,
         \A j \in Kind \ Acting : Resting(j),
         \A k \in Acting : /\ k \in {"Backend", "Secret"} => PassesOn(k)
                           /\ k \in Routes /\ Live(seen[k]) /\ Due(k) => Due(k)',
         api'["Secret"].gen = api["Secret"].gen \/ "Secret" \in lag', "Secret" \in lag => "Secret" \in lag'
  PROVE  Generated'
<1>1. PassesOn("Backend") /\ PassesOn("Secret")
  BY Rested DEF Kind
<1>2. \A r \in Routes : Live(seen[r]) /\ Due(r) => Due(r)'
  BY Rested, Zenon DEF Routes, Kind
<1>3. QED
  BY <1>1, <1>2, StaysGenerated DEF Inv

(* A reconcile that does not move has in hand what it had.                 *)
LEMMA InHandKept ==
  ASSUME NEW j \in Kind, InHand(j), SameCache, Resting(j), job'[j].cur => job[j].cur /\ api'[j].del = api[j].del
  PROVE  InHand(j)'
<1>1. Live(seen[j])' = Live(seen[j]) /\ seen'[j].gen = seen[j].gen /\ seen'[j].del = seen[j].del
  BY DEF SameCache, Alike, Live
<1>2. QED
  BY <1>1, Zenon DEF InHand, Resting, SameCache

(* The objects and their copies, where a step does not touch them.         *)
LEMMA ObjectsKept ==
  ASSUME Inv, UNCHANGED <<world, api, seen, lag>>, events' \in Nat, events' >= events
  PROVE  Objects' /\ Cached'
<1>1. \A k \in Kind : api[k].gen \in Nat
  BY Typed, ObjectType DEF Inv
<1>2. events \in Nat
  BY PropagationAssumption DEF Inv, TypeOK
<1>3. Objects'
  BY <1>1, <1>2 DEF Inv, Objects, Sound
<1>4. Cached'
  BY DEF Inv, Cached, Behind, Live
<1>5. QED
  BY <1>3, <1>4

LEMMA NothingMoves ==
  ASSUME Inv, UNCHANGED <<world, seen>>
  PROVE  SameCache
  BY Zenon DEF SameCache, Alike

-----------------------------------------------------------------------------
(* The user.                                                               *)
LEMMA UserStep ==
  ASSUME Inv, NEW k \in Kind, NEW o \in Object, UserWrites(k, o), Sound(o, k),
         o.gen <= events + 2, o.gen > api[k].gen \/ (k = "Gateway" /\ o.gen = api[k].gen),
         Live(o) => Live(api[k]) \/ api[k].gen = 0, k \in Routes => o.on
  PROVE  Inv'
<1>1. /\ api' = [api EXCEPT ![k] = o] /\ lag' = lag \cup {k} /\ job' = [job EXCEPT ![k].cur = FALSE]
      /\ events < MaxEvents /\ events' = events + 1
      /\ UNCHANGED <<world, seen, queue, chan, draft, config, derived, lost>>
  BY DEF UserWrites, Written, Counted
<1>2. TypeOK
  BY DEF Inv
<1>3. events \in Nat /\ events' \in 0..MaxEvents
  BY <1>1, <1>2, PropagationAssumption DEF TypeOK
<1>4. /\ api' \in [Kind -> Object] /\ lag' \subseteq Kind /\ api'[k] = o
      /\ \A j \in Kind \ {k} : api'[j] = api[j]
  BY <1>1, <1>2 DEF TypeOK
<1>5. /\ job' \in [Kind -> [at : {"idle", "add", "sync", "send", "drop", "status", "write"}, obj : Object,
                            cur : BOOLEAN, todo : Seq(Kind), retry : BOOLEAN]]
      /\ \A j \in Kind \ {k} : job'[j] = job[j]
      /\ job'[k].at = job[k].at /\ job'[k].obj = job[k].obj /\ ~job'[k].cur /\ job'[k].todo = job[k].todo
      /\ job'[k].retry = job[k].retry
  BY <1>1, <1>2, ZenonT(30) DEF TypeOK
<1>6. TypeOK'
  BY <1>1, <1>2, <1>3, <1>4, <1>5, Zenon DEF TypeOK
<1>7. SameCache
  BY <1>1, NothingMoves
<1>8. \A j \in Kind : /\ api[j].gen \in Nat /\ seen[j].gen \in Nat /\ o.gen \in Nat
                      /\ api[j].gen <= events + 1 /\ Behind(j)
  BY <1>2, Typed, ObjectType DEF Inv, Objects, Cached
<1>9. Objects'
  <2>1. \A j \in Kind : Sound(api[j], j)' /\ Sound(seen[j], j)'
    BY <1>1, <1>4 DEF Inv, Objects, Sound
  <2>2. \A j \in Kind : api'[j].gen <= events' + 1
    BY <1>1, <1>3, <1>4, <1>8
  <2>3. QED
    BY <2>1, <2>2 DEF Objects
<1>10. ASSUME NEW j \in Kind PROVE Behind(j)'
  <2>1. CASE j # k
    BY <1>1, <1>4, <1>8, <2>1 DEF Behind, Live
  <2>2. CASE j = k
    <3>1. seen[k].gen <= o.gen /\ (o.gen > api[k].gen => seen[k].gen < o.gen)
      BY <1>8 DEF Behind
    <3>2. k = "Gateway" => ~seen[k].del /\ ~o.del
      BY DEF Inv, Objects, Sound, Routes
    <3>3. seen[k].gen = o.gen /\ seen[k].on = o.on => seen[k].del = o.del
      <4>1. CASE k = "Gateway"
        <5>1. seen[k].del \in BOOLEAN /\ o.del \in BOOLEAN
          BY <1>2, Typed, ObjectType, Zenon
        <5>2. QED
          BY <3>2, <4>1, <5>1
      <4>2. CASE k # "Gateway"
        BY <1>8, <3>1, <4>2
      <4>3. QED
        BY <4>1, <4>2
    <3>4. seen[k].gen > 0 /\ ~Live(seen[k]) => ~Live(o)
      BY <1>8 DEF Behind
    <3>5. k = "Secret" => seen[k].gen # o.gen
      BY <1>8, <3>1
    <3>6. QED
      BY <1>1, <1>4, <2>2, <3>1, <3>3, <3>4, <3>5, Zenon DEF Behind, Live
  <2>3. QED
    BY <2>1, <2>2
<1>11. \A j \in Kind : Resting(j)
  <2>1. \A j \in Kind : j \in Routes /\ ~api'[j].on => ~api[j].on
    BY <1>4
  <2>2. QED
    BY <1>1, <1>5, <2>1 DEF Resting, Told
<1>12. Jobs'
  <2>1. ASSUME NEW j \in Kind \ {"Gateway"} PROVE InHand(j)'
    <3>1. job'[j].cur => job[j].cur /\ api'[j].del = api[j].del
      BY <1>4, <1>5, Zenon
    <3>2. QED
      BY <1>7, <1>11, <3>1, InHandKept DEF Inv, Jobs
  <2>2. job'["Gateway"].at = job["Gateway"].at
    BY <1>11 DEF Resting, Kind
  <2>3. QED
    BY <2>1, <2>2 DEF Inv, Jobs
<1>13. Configured' /\ Generated'
  <2>1. api'["Secret"].gen = api["Secret"].gen \/ "Secret" \in lag'
    BY <1>1, <1>4 DEF Kind
  <2>2. /\ {} \in SUBSET (Kind \ {"Gateway"}) /\ \A j \in Kind \ {} : Resting(j)
        /\ "Secret" \in lag => "Secret" \in lag'
    BY <1>1, <1>11
  <2>3. Configured'
    BY <1>1, <1>7, <2>2, Frame, Zenon
  <2>4. {} \in SUBSET Kind
    OBVIOUS
  <2>5. Generated'
    BY <1>1, <1>7, <2>1, <2>2, <2>4, FrameGenerated, Zenon
  <2>6. QED
    BY <2>3, <2>5
<1>14. QED
  BY <1>6, <1>9, <1>10, <1>12, <1>13 DEF Inv, Cached

LEMMA CreateStep ==
  ASSUME Inv, NEW k \in Kind, Create(k)
  PROVE  Inv'
<1> DEFINE o == [on |-> TRUE, gen |-> 1, del |-> FALSE, fin |-> FALSE]
<1>1. 1 \in 0..MaxEvents + 1 /\ events \in Nat /\ 1 <= events + 2 /\ 1 > 0
  BY PropagationAssumption DEF Inv, TypeOK
<1>2. o \in Object /\ o.on /\ ~o.del /\ ~o.fin /\ o.gen = 1
  BY <1>1, Zenon DEF Object
<1>3. api[k].gen = 0 /\ UserWrites(k, o) /\ k \in world.kinds
  BY DEF Create, UserWrites
<1> HIDE DEF o
<1>4. Sound(o, k)
  BY <1>2, <1>3 DEF Sound
<1>5. QED
  BY <1>1, <1>2, <1>3, <1>4, UserStep

LEMMA EditStep ==
  ASSUME Inv, NEW k \in Kind, Edit(k)
  PROVE  Inv'
<1> DEFINE o == [api[k] EXCEPT !.gen = @ + 1]
<1>1. api[k] \in Object /\ Live(api[k]) /\ UserWrites(k, o) /\ events < MaxEvents /\ k \in world.kinds
  BY Typed DEF Inv, Edit, UserWrites, Counted
<1>2. api[k].gen \in Nat /\ api[k].gen <= events + 1 /\ events \in Nat
  BY <1>1, ObjectType, PropagationAssumption DEF Inv, Objects, TypeOK
<1>3. api[k].gen + 1 \in 0..MaxEvents + 1 /\ api[k].gen + 1 <= events + 2 /\ api[k].gen + 1 > api[k].gen
      /\ api[k].gen + 1 # 0
  BY <1>1, <1>2, PropagationAssumption
<1>4. o = [on |-> api[k].on, gen |-> api[k].gen + 1, del |-> api[k].del, fin |-> api[k].fin]
  BY <1>1 DEF Object
<1> HIDE DEF o
<1>5. /\ o \in Object /\ o.gen = api[k].gen + 1
      /\ o.on = api[k].on /\ o.del = api[k].del /\ o.fin = api[k].fin
  BY <1>1, <1>3, <1>4, ObjectType, Zenon DEF Object
<1>6. Sound(o, k)
  BY <1>1, <1>3, <1>5, Zenon DEF Inv, Objects, Sound, Live
<1>7. o.on
  BY <1>1, <1>5 DEF Live
<1>8. QED
  BY <1>1, <1>3, <1>5, <1>6, <1>7, UserStep

(* With Announced, what goes at once is a gateway, and a route is marked.  *)
LEMMA DeleteStep ==
  ASSUME Announced, Inv, NEW k \in Kind, Delete(k)
  PROVE  Inv'
<1>1. /\ api[k] \in Object /\ Live(api[k]) /\ events < MaxEvents /\ k \in world.kinds
      /\ k \in Routes \cup {"Gateway"} /\ (k \notin Finalized \/ api[k].fin) /\ Sound(api[k], k)
  BY Typed DEF Inv, Delete, UserWrites, Counted, Announced, TypeOK, Objects
<1>2. api[k].gen \in Nat /\ api[k].gen <= events + 1 /\ events \in Nat
  BY <1>1, ObjectType, PropagationAssumption DEF Inv, Objects, TypeOK
<1>3. CASE api[k].fin
  <2> DEFINE o == [api[k] EXCEPT !.del = TRUE, !.gen = @ + 1]
  <2>1. UserWrites(k, o)
    BY <1>3, Zenon DEF Delete
  <2>2. api[k].gen + 1 \in 0..MaxEvents + 1 /\ api[k].gen + 1 <= events + 2 /\ api[k].gen + 1 > api[k].gen
        /\ api[k].gen + 1 # 0
    BY <1>1, <1>2, PropagationAssumption
  <2>4. /\ o \in Object /\ o.gen = api[k].gen + 1 /\ o.on = api[k].on /\ o.del /\ o.fin = api[k].fin
    BY <1>1, <2>2, Zenon DEF Object
  <2> HIDE DEF o
  <2>5. Sound(o, k) /\ o.on /\ ~Live(o)
    BY <1>1, <1>3, <2>2, <2>4 DEF Sound, Live, Routes, Finalized
  <2>6. QED
    BY <2>1, <2>2, <2>4, <2>5, UserStep
<1>4. CASE ~api[k].fin
  <2> DEFINE o == Gone(api[k])
  <2>1. UserWrites(k, o)
    BY <1>4 DEF Delete
  <2>2. k = "Gateway"
    BY <1>1, <1>4, Zenon DEF Routes, Finalized
  <2>4. o \in Object /\ o.gen = api[k].gen /\ ~o.on /\ ~o.del /\ ~o.fin
    BY <1>1, GoneFacts
  <2> HIDE DEF o
  <2>5. Sound(o, k) /\ ~Live(o) /\ k \notin Routes
    BY <1>1, <2>2, <2>4 DEF Sound, Live, Routes
  <2>6. o.gen <= events + 2
    BY <1>2, <2>4
  <2>7. QED
    BY <2>1, <2>2, <2>4, <2>5, <2>6, UserStep
<1>5. QED
  BY <1>3, <1>4

-----------------------------------------------------------------------------
(* The channels, a restart, and the gateway's controller.                  *)
LEMMA DeliverStep ==
  ASSUME Inv, NEW k \in Kind, Deliver(k)
  PROVE  Inv'
<1>1. /\ chan[k] > 0 /\ chan' = [chan EXCEPT ![k] = @ - 1] /\ queue' = queue \cup {k}
      /\ UNCHANGED <<world, api, seen, lag, job, draft, config, derived, lost, events>>
  BY DEF Deliver
<1>2. TypeOK /\ chan \in [Kind -> 0..Cap] /\ chan[k] \in 0..Cap
  BY DEF Inv, TypeOK
<1>3. chan' \in [Kind -> 0..Cap] /\ \A j \in Kind \ {k} : chan'[j] = chan[j]
  BY <1>1, <1>2, PropagationAssumption
<1>4. TypeOK'
  BY <1>1, <1>2, <1>3, Zenon DEF TypeOK
<1>5. SameCache
  BY <1>1, NothingMoves
<1>6. \A j \in Kind : Resting(j)
  BY <1>1, <1>3 DEF Resting, Told
<1>7. Objects' /\ Cached'
  BY <1>1, <1>2, PropagationAssumption, ObjectsKept DEF TypeOK
<1>8. Jobs'
  BY <1>1, <1>5, <1>6, InHandKept DEF Inv, Jobs
<1>9. {} \in SUBSET (Kind \ {"Gateway"}) /\ \A j \in Kind \ {} : Resting(j)
  BY <1>6
<1>10. Configured' /\ Generated'
  <2>1. Configured'
    BY <1>1, <1>5, <1>9, Frame, Zenon
  <2>2. {} \in SUBSET Kind
    OBVIOUS
  <2>3. Generated'
    BY <1>1, <1>5, <1>9, <2>2, FrameGenerated, Zenon
  <2>4. QED
    BY <2>1, <2>3
<1>11. QED
  BY <1>4, <1>7, <1>8, <1>10 DEF Inv

LEMMA IdleFacts ==
  /\ Idle \in [at : {"idle", "add", "sync", "send", "drop", "status", "write"}, obj : Object,
               cur : BOOLEAN, todo : Seq(Kind), retry : BOOLEAN]
  /\ Idle.at = "idle"
<1>1. 0 \in 0..MaxEvents + 1 /\ <<>> \in Seq(Kind)
  BY PropagationAssumption
<1>2. Never \in Object
  BY <1>1, Zenon DEF Never, Object
<1>3. QED
  BY <1>1, <1>2, Zenon DEF Idle

LEMMA RestartStep ==
  ASSUME Inv, Restart
  PROVE  Inv'
<1>1. /\ events < MaxEvents /\ events' = events + 1 /\ seen' = api /\ lag' = {}
      /\ queue' = {k \in Kind : api[k].on} /\ chan' = [k \in Kind |-> 0] /\ job' = [k \in Kind |-> Idle]
      /\ UNCHANGED <<world, api, draft, config, derived, lost>>
  BY DEF Restart, Counted
<1>2. TypeOK
  BY DEF Inv
<1>3. events \in Nat /\ events' \in 0..MaxEvents /\ events' \in Nat
  BY <1>1, <1>2, PropagationAssumption DEF TypeOK
<1>4. 0 \in 0..Cap /\ chan' \in [Kind -> 0..Cap]
  BY <1>1, PropagationAssumption
<1>5. \A k \in Kind : job'[k].at = "idle"
  BY <1>1, IdleFacts, Zenon
<1>6. TypeOK'
  BY <1>1, <1>2, <1>3, <1>4, IdleFacts DEF TypeOK
<1>7. Objects'
  <2>1. \A k \in Kind : api[k].gen \in Nat /\ api[k].gen <= events + 1
    BY <1>2, Typed, ObjectType DEF Inv, Objects
  <2>2. \A k \in Kind : api'[k].gen <= events' + 1
    BY <1>1, <1>3, <2>1
  <2>3. \A k \in Kind : Sound(api[k], k)' /\ Sound(seen[k], k)'
    BY <1>1, Zenon DEF Inv, Objects, Sound
  <2>4. QED
    BY <2>2, <2>3, Zenon DEF Objects
<1>8. Cached'
  <2>1. \A k \in Kind : api[k].gen \in Nat
    BY <1>2, Typed, ObjectType
  <2>2. QED
    BY <1>1, <2>1 DEF Cached, Behind, Live
<1>9. Jobs'
  BY <1>5 DEF Jobs, InHand, Kind
<1>10. \A k \in Kind : seen'[k].on => Told(k)'
  BY <1>1, Zenon DEF Told
<1>11. Configured'
  BY <1>10 DEF Configured, RightFor, Kind
<1>12. Generated'
  BY <1>10 DEF Generated, Due, Live, Routes, Kind
<1>13. QED
  BY <1>6, <1>7, <1>8, <1>9, <1>11, <1>12 DEF Inv

LEMMA FilterType ==
  ASSUME Inv
  PROVE  FilterConfig(seen) \in [Content -> 0..MaxEvents + 1]
<1>1. ASSUME NEW k \in Content PROVE Version(seen[k]) \in 0..MaxEvents + 1
  <2>1. k \in Kind
    BY Zenon DEF Content, Kind
  <2>2. seen[k].gen \in 0..MaxEvents + 1 /\ (seen[k].del => seen[k].gen # 0)
    BY <2>1, Typed, ObjectType DEF Inv, Objects, Sound
  <2>3. QED
    BY <2>2, PropagationAssumption DEF Version
<1>2. 0 \in 0..MaxEvents + 1
  BY PropagationAssumption
<1>3. QED
  BY <1>1, <1>2 DEF FilterConfig

(* A step of the gateway's controller: the others do not move.             *)
LEMMA GatewayFrame ==
  ASSUME Inv, NEW at \in {"idle", "write"}, job'["Gateway"].at = at,
         \A j \in Kind \ {"Gateway"} : job'[j] = job[j],
         queue \ {"Gateway"} \subseteq queue',
         UNCHANGED <<world, api, seen, lag, chan, derived>>, events' \in Nat, events' >= events
  PROVE  /\ Objects' /\ Cached' /\ Jobs' /\ Generated' /\ SameCache
         /\ \A j \in Kind \ {"Gateway"} : Resting(j)
<1>1. SameCache
  BY NothingMoves
<1>2. \A j \in Kind \ {"Gateway"} : Resting(j)
  BY DEF Resting, Told
<1>3. Objects' /\ Cached'
  BY ObjectsKept, Zenon
<1>4. Jobs'
  BY <1>1, <1>2, InHandKept DEF Inv, Jobs
<1>5. {"Gateway"} \in SUBSET Kind /\ "Gateway" \notin {"Backend", "Secret"} /\ "Gateway" \notin Routes
  BY DEF Kind, Routes
<1>6. Generated'
  BY <1>1, <1>2, <1>5, FrameGenerated, Zenon
<1>7. QED
  BY <1>1, <1>2, <1>3, <1>4, <1>6

LEMMA GatewayReadsStep ==
  ASSUME Inv, GatewayReads
  PROVE  Inv'
<1>1. /\ job["Gateway"].at = "idle" /\ queue' = queue \ {"Gateway"}
      /\ UNCHANGED <<world, api, seen, lag, chan, config, derived, events>>
  BY DEF GatewayReads
<1>2. TypeOK /\ "Gateway" \in Kind /\ events \in Nat
  BY Counts DEF Inv, Kind
<1>3. CASE seen["Gateway"].on
  <2>1. draft' = FilterConfig(seen) /\ job' = [job EXCEPT !["Gateway"].at = "write"] /\ lost' = {}
    BY <1>3 DEF GatewayReads
  <2>2. /\ job' \in [Kind -> [at : {"idle", "add", "sync", "send", "drop", "status", "write"}, obj : Object,
                              cur : BOOLEAN, todo : Seq(Kind), retry : BOOLEAN]]
        /\ job'["Gateway"].at = "write" /\ \A j \in Kind \ {"Gateway"} : job'[j] = job[j]
    BY <1>2, <2>1, ZenonT(60) DEF TypeOK
  <2>3. TypeOK'
    BY <1>1, <1>2, <2>1, <2>2, FilterType, Zenon DEF TypeOK
  <2>4. /\ Objects' /\ Cached' /\ Jobs' /\ Generated' /\ SameCache
    BY <1>1, <1>2, <2>2, GatewayFrame
  <2>5. Newest' = FilterConfig(seen)'
    BY <2>1, <2>2, <2>4, FilterAlike DEF Newest, SameCache
  <2>6. Configured'
    BY <2>5 DEF Configured, RightFor, Same
  <2>7. QED
    BY <2>3, <2>4, <2>6 DEF Inv
<1>4. CASE ~seen["Gateway"].on
  <2>1. UNCHANGED <<draft, job, lost>>
    BY <1>4 DEF GatewayReads
  <2>2. TypeOK'
    BY <1>1, <1>2, <2>1, Zenon DEF TypeOK
  <2>3. /\ Objects' /\ Cached' /\ Jobs' /\ Generated'
    BY <1>1, <1>2, <2>1, GatewayFrame
  <2>4. Configured'
    BY <1>1, <1>4 DEF Configured
  <2>5. QED
    BY <2>2, <2>3, <2>4 DEF Inv
<1>5. QED
  BY <1>3, <1>4

(* A write that fails is done again, from the start.                       *)
LEMMA GatewayEndsStep ==
  ASSUME Inv, GatewayFails \/ GatewayWrites
  PROVE  Inv'
<1>1. /\ job["Gateway"].at = "write" /\ job' = [job EXCEPT !["Gateway"] = Idle]
      /\ queue \subseteq queue' /\ queue' \subseteq queue \cup {"Gateway"}
      /\ UNCHANGED <<world, api, seen, lag, chan, draft, derived, lost>>
      /\ events' = events \/ (events < MaxEvents /\ events' = events + 1)
      /\ \/ "Gateway" \in queue' /\ config' = config
         \/ config' = draft
  BY DEF GatewayFails, GatewayWrites, Counted
<1>2. TypeOK /\ "Gateway" \in Kind /\ events \in Nat /\ events' \in 0..MaxEvents /\ events' >= events
  BY <1>1, Counts DEF Inv, Kind
<1>3. /\ job' \in [Kind -> [at : {"idle", "add", "sync", "send", "drop", "status", "write"}, obj : Object,
                            cur : BOOLEAN, todo : Seq(Kind), retry : BOOLEAN]]
      /\ job'["Gateway"].at = "idle" /\ \A j \in Kind \ {"Gateway"} : job'[j] = job[j]
  BY <1>1, <1>2, IdleFacts, Zenon DEF TypeOK
<1>4. TypeOK'
  BY <1>1, <1>2, <1>3 DEF TypeOK
<1>5. /\ Objects' /\ Cached' /\ Jobs' /\ Generated' /\ SameCache
      /\ \A j \in Kind \ {"Gateway"} : Resting(j)
  BY <1>1, <1>2, <1>3, GatewayFrame
<1>6. Newest' = Newest \/ Told("Gateway")'
  BY <1>1, <1>3 DEF Newest, Told
<1>7. Passing /\ (Told("Gateway") => Told("Gateway")')
  BY <1>1, <1>5, Rested, Zenon DEF Passing, Told
<1>8. \A r \in Routes : GoesLast(r)
  BY <1>5, Rested DEF Routes, Kind
<1>9. Configured'
  BY <1>1, <1>6, <1>7, <1>8, StaysConfigured DEF Inv
<1>10. QED
  BY <1>4, <1>5, <1>9, Zenon DEF Inv

-----------------------------------------------------------------------------
(* The other controllers.                                                  *)
Work == [at : {"idle", "add", "sync", "send", "drop", "status", "write"}, obj : Object,
         cur : BOOLEAN, todo : Seq(Kind), retry : BOOLEAN]

(* The reconcile of k moves on to j, and forgets nothing but its place in  *)
(* the queue.                                                              *)
MovesOn(k, j) ==
  /\ job' = [job EXCEPT ![k] = j]
  /\ queue \ {k} \subseteq queue' /\ queue' \subseteq Kind
  /\ chan' \in [Kind -> 0..Cap] /\ \A d \in Kind : chan'[d] >= chan[d]
  /\ events' \in 0..MaxEvents /\ events' >= events
  /\ api' \in [Kind -> Object] /\ (\A d \in Kind \ {k} : api'[d] = api[d])
  /\ lag' \subseteq Kind /\ lag \subseteq lag'
  /\ lost' \subseteq Kind /\ lost \subseteq lost'
  /\ UNCHANGED <<world, seen, draft, config>>

LEMMA MovesFacts ==
  ASSUME Inv, NEW k \in Kind \ {"Gateway"}, NEW j \in Work, MovesOn(k, j)
  PROVE  /\ job' \in [Kind -> Work] /\ job'[k] = j /\ (\A d \in Kind \ {k} : job'[d] = job[d])
         /\ SameCache /\ \A d \in Kind \ {k} : Resting(d)
<1>1. TypeOK /\ job \in [Kind -> Work]
  BY Zenon DEF Inv, TypeOK, Work
<1>2. job' \in [Kind -> Work] /\ job'[k] = j /\ (\A d \in Kind \ {k} : job'[d] = job[d])
  BY <1>1 DEF MovesOn
<1>3. SameCache
  BY NothingMoves, Zenon DEF MovesOn
<1>4. ASSUME NEW d \in Kind \ {k} PROVE Resting(d)
  <2>1. chan[d] \in Nat /\ chan'[d] \in Nat /\ chan'[d] >= chan[d]
    BY <1>1, Typed, PropagationAssumption DEF MovesOn
  <2>2. Told(d) => Told(d)'
    BY <2>1 DEF Told, MovesOn
  <2>3. QED
    BY <1>2, <2>2, Zenon DEF Resting, MovesOn
<1>5. QED
  BY <1>2, <1>3, <1>4

LEMMA MoveStep ==
  ASSUME Inv, NEW k \in Kind \ {"Gateway"}, NEW j \in Work, MovesOn(k, j),
         derived' \in [Derived -> 0..MaxEvents + 1],
         Objects', Cached', InHand(k)', PassesOn(k) \/ (lost' # {} /\ k \notin {"Backend", "Secret"}),
         k \in Routes /\ seen["Gateway"].on => GoesLast(k) \/ lost' # {},
         \/ Generated'
         \/ derived' = derived /\ api'["Secret"].gen = api["Secret"].gen
               /\ (k \in Routes /\ Live(seen[k]) /\ Due(k) => Due(k)')
  PROVE  Inv'
<1>1. /\ job' \in [Kind -> Work] /\ (\A d \in Kind \ {k} : job'[d] = job[d])
      /\ SameCache /\ \A d \in Kind \ {k} : Resting(d)
  BY MovesFacts
<1>2. TypeOK'
  BY <1>1, Zenon DEF Inv, TypeOK, MovesOn, Work
<1>3. Jobs'
  <2>1. ASSUME NEW d \in Kind \ {"Gateway"}, d # k PROVE InHand(d)'
    BY <1>1, <2>1, InHandKept, Zenon DEF Inv, Jobs, MovesOn
  <2>2. job'["Gateway"].at = job["Gateway"].at
    BY <1>1, Zenon DEF Kind
  <2>3. QED
    BY <2>1, <2>2, Zenon DEF Inv, Jobs
<1>4. Configured'
  <2>1. {k} \in SUBSET (Kind \ {"Gateway"}) /\ (lost' = {} => lost = {})
    BY DEF MovesOn
  <2>2. lost' = {} => /\ lost = {}
                      /\ \A e \in {k} : PassesOn(e) /\ (e \in Routes /\ seen["Gateway"].on => GoesLast(e))
    BY <2>1, Zenon
  <2>3. UNCHANGED <<config, draft>>
    BY DEF MovesOn
  <2>4. QED
    BY <1>1, <2>1, <2>2, <2>3, Frame, Zenon
<1>5. Generated'
  <2>1. {k} \in SUBSET Kind /\ ("Secret" \in lag => "Secret" \in lag')
    BY DEF MovesOn
  <2>2. QED
    BY <1>1, <2>1, FrameGenerated, Zenon
<1>6. QED
  BY <1>2, <1>3, <1>4, <1>5, Zenon DEF Inv

(* Whom a controller tells.                                                *)
LEMMA NotifiedFacts ==
  ASSUME TypeOK, NEW k \in Kind \ {"Gateway"}
  PROVE  /\ Notified(k) \in Seq(Kind)
         /\ \A d \in Kind : Edge(k, d) /\ seen[d].on
                               => \E i \in 1..Len(Notified(k)) : Notified(k)[i] = d
         /\ k \in Routes /\ seen["Gateway"].on => Notified(k) = <<"Gateway">>
         /\ k \in Routes => Notified(k) \in {<<>>, <<"Gateway">>}
<1>1. \A d \in Kind : /\ Present(d) \in Seq(Kind)
                      /\ seen[d].on => Present(d) = <<d>> /\ Len(Present(d)) = 1 /\ Present(d)[1] = d
  BY DEF Present
<1>2. ASSUME NEW a \in Kind, NEW b \in Kind, Notified(k) = Present(a) \o Present(b),
             \A d \in Kind : Edge(k, d) => d \in {a, b}
      PROVE  /\ Notified(k) \in Seq(Kind)
             /\ \A d \in Kind : Edge(k, d) /\ seen[d].on
                                   => \E i \in 1..Len(Notified(k)) : Notified(k)[i] = d
  <2>1. Notified(k) \in Seq(Kind)
    BY <1>1, <1>2
  <2>2. ASSUME seen[a].on PROVE \E i \in 1..Len(Notified(k)) : Notified(k)[i] = a
    <3>1. Len(Notified(k)) >= 1 /\ Notified(k)[1] = a
      BY <1>1, <1>2, <2>2 DEF Present
    <3>2. QED
      BY <2>1, <3>1
  <2>3. ASSUME seen[b].on PROVE \E i \in 1..Len(Notified(k)) : Notified(k)[i] = b
    <3>1. /\ Len(Notified(k)) = Len(Present(a)) + 1 /\ Len(Present(a)) \in Nat
          /\ Notified(k)[Len(Present(a)) + 1] = b
      BY <1>1, <1>2, <2>3 DEF Present
    <3>2. QED
      BY <3>1
  <2>4. QED
    BY <1>2, <2>1, <2>2, <2>3, Zenon
<1>3. CASE k \in {"Secret", "BSP"}
  <2>2. k \notin Routes
    BY <1>3 DEF Routes
  <2>3. CASE k = "Secret"
    <3>1. Notified(k) = Present("BSP") \o Present("MCPRoute")
      BY <2>3 DEF Notified, syncSecret
    <3>2. \A d \in Kind : Edge(k, d) => d \in {"BSP", "MCPRoute"}
      BY <2>3 DEF Edge
    <3>3. "BSP" \in Kind /\ "MCPRoute" \in Kind
      BY DEF Kind
    <3>4. QED
      BY <1>2, <2>2, <3>1, <3>2, <3>3, Zenon
  <2>4. CASE k = "BSP"
    <3>1. Notified(k) = Present("Backend") \o Present("Pool")
      BY <2>4 DEF Notified, syncBackendSecurityPolicy
    <3>2. \A d \in Kind : Edge(k, d) => d \in {"Backend", "Pool"}
      BY <2>4 DEF Edge
    <3>3. "Backend" \in Kind /\ "Pool" \in Kind
      BY DEF Kind
    <3>4. QED
      BY <1>2, <2>2, <3>1, <3>2, <3>3, Zenon
  <2>5. QED
    BY <1>3, <2>3, <2>4
<1>4. CASE k \in {"Backend", "QuotaPolicy", "ReferenceGrant", "Route", "MCPRoute", "GatewayConfig", "Pool"}
  <2>1. \/ /\ k \notin Routes /\ Notified(k) = <<>> /\ \A d \in Kind : ~Edge(k, d)
        \/ \E a \in Kind : /\ Notified(k) = Present(a)
                            /\ (\A d \in Kind : Edge(k, d) => d = a) /\ (k \in Routes => a = "Gateway")
    <3>1. CASE k = "Backend"
      BY <3>1 DEF Notified, syncAIServiceBackend, Edge, Kind, Routes
    <3>2. CASE k \in {"QuotaPolicy", "ReferenceGrant"}
      BY <3>2 DEF Notified, notifyAIGatewayRoutes, getAffectedAIGatewayRoutes, Edge, Kind, Routes
    <3>3. CASE k \in {"Route", "MCPRoute", "GatewayConfig"}
      BY <3>3 DEF Notified, syncGateways, mcpSyncGateways, notifyReferencingGateways, Edge, Kind, Routes
    <3>4. CASE k = "Pool"
      BY <3>4, Zenon DEF Notified, Edge, Kind, Routes
    <3>5. QED
      BY <1>4, <3>1, <3>2, <3>3, <3>4
  <2>2. CASE k \notin Routes /\ Notified(k) = <<>> /\ \A d \in Kind : ~Edge(k, d)
    BY <2>2
  <2>3. ASSUME NEW a \in Kind, Notified(k) = Present(a), \A d \in Kind : Edge(k, d) => d = a,
               k \in Routes => a = "Gateway"
        PROVE  /\ Notified(k) \in Seq(Kind)
               /\ \A d \in Kind : Edge(k, d) /\ seen[d].on
                                     => \E i \in 1..Len(Notified(k)) : Notified(k)[i] = d
               /\ k \in Routes /\ seen["Gateway"].on => Notified(k) = <<"Gateway">>
               /\ k \in Routes => Notified(k) \in {<<>>, <<"Gateway">>}
    BY <1>1, <2>3 DEF Present
  <2>4. QED
    BY <2>1, <2>2, <2>3
<1>5. QED
  BY <1>3, <1>4 DEF Kind

LEMMA ToOne ==
  ASSUME NEW d
  PROVE  \E i \in 1..Len(<<d>>) : <<d>>[i] = d
<1>1. Len(<<d>>) = 1 /\ <<d>>[1] = d
  BY Zenon
<1>2. QED
  BY <1>1

(* Where a reconcile begins: with a live object at its sync, with a route  *)
(* that is being deleted at the notification of the gateway.               *)
LEMMA FirstStages ==
  ASSUME Inv, NEW k \in Kind \ {"Gateway"}
  PROVE  /\ Live(seen[k]) => FirstStage(k, seen[k]) \in {"add", "sync"}
         /\ FirstStage(k, seen[k]) = "add" => k \in Finalized
         /\ seen[k].del => k \in Routes /\ seen[k].gen > 0 /\ FirstStage(k, seen[k]) = "send"
         /\ ~seen[k].on => \/ FirstStage(k, seen[k]) = "idle"
                           \/ k = "QuotaPolicy" /\ FirstStage(k, seen[k]) = "send"
<1>1. Sound(seen[k], k) /\ seen[k].gen \in Nat
  BY Typed, ObjectType DEF Inv, Objects
<1>2. CASE Live(seen[k])
  <2>1. seen[k].on /\ ~seen[k].del
    BY <1>2 DEF Live
  <2>2. handleFinalizer(seen[k], "send", "status") \in {"add", "sync"}
        /\ handleFinalizer(seen[k], "drop", "sync") \in {"add", "sync"}
        /\ handleFinalizer(seen[k], "drop", "idle") \in {"add", "sync"}
    <3>1. seen[k].fin \in BOOLEAN
      BY Typed, ObjectType DEF Inv
    <3>2. QED
      BY <2>1, <3>1, Zenon DEF handleFinalizer
  <2>3. QED
    BY <2>1, <2>2 DEF FirstStage, QuotaPolicyController, AIGatewayRouteController, MCPRouteController,
         BackendSecurityPolicyController, AIBackendController, SecretController, InferencePoolController,
         GatewayConfigController, ReferenceGrantController, Finalized, Kind
<1>3. CASE seen[k].del
  <2>1. k \in Routes /\ seen[k].on /\ seen[k].fin /\ seen[k].gen > 0 /\ ~Live(seen[k])
    BY <1>1, <1>3 DEF Sound, Live
  <2>2. handleFinalizer(seen[k], "send", "status") = "send"
    BY <1>3, <2>1, Zenon DEF handleFinalizer
  <2>3. QED
    BY <2>1, <2>2, Zenon DEF FirstStage, AIGatewayRouteController, MCPRouteController, Routes
<1>4. CASE ~seen[k].on
  <2>1. ~seen[k].del /\ ~Live(seen[k])
    BY <1>1, <1>4 DEF Sound, Live
  <2>2. FirstStage(k, seen[k]) # "add" /\ (k # "QuotaPolicy" => FirstStage(k, seen[k]) = "idle")
    BY <1>4, <2>1 DEF FirstStage, QuotaPolicyController
  <2>3. k = "QuotaPolicy" => FirstStage(k, seen[k]) = "send"
    BY <1>4, <2>1, Zenon DEF FirstStage, QuotaPolicyController
  <2>4. QED
    BY <1>4, <2>1, <2>2, <2>3, Zenon
<1>5. QED
  BY <1>2, <1>3, <1>4, Zenon DEF Live

LEMMA StartStep ==
  ASSUME Inv, NEW k \in Kind, Start(k)
  PROVE  Inv'
<1> DEFINE o == seen[k]
           st == FirstStage(k, o)
           todo == IF st = "send" THEN Notified(k) ELSE <<>>
           at == IF st = "send" /\ todo = <<>> THEN AfterSend(k, o) ELSE st
           j == IF at = "idle" THEN Idle
                ELSE [at |-> at, obj |-> o, cur |-> k \notin lag, todo |-> todo, retry |-> FALSE]
<1>1. /\ k \in queue /\ k \in Kind \ {"Gateway"} /\ job[k].at = "idle" /\ queue' = queue \ {k}
      /\ job' = [job EXCEPT ![k] = j]
      /\ UNCHANGED <<world, api, seen, lag, chan, draft, config, derived, lost, events>>
  BY Zenon DEF Start
<1>2. /\ TypeOK /\ o \in Object /\ Sound(o, k)
  BY Typed, Zenon DEF Inv, Objects
<1>3. /\ Notified(k) \in Seq(Kind) /\ (k \in Routes /\ seen["Gateway"].on => Notified(k) = <<"Gateway">>)
      /\ (k \in Routes => Notified(k) \in {<<>>, <<"Gateway">>})
  BY <1>1, <1>2, NotifiedFacts
<1>4. todo \in Seq(Kind)
  BY <1>3
<1>5. \/ Live(o) /\ at \in {"add", "sync"} /\ (at = "add" => k \in Finalized)
      \/ /\ o.del /\ k \in Routes /\ o.gen > 0
         /\ \/ at = "send" /\ todo = <<"Gateway">>
            \/ at = "drop" /\ ~seen["Gateway"].on
      \/ ~o.on /\ k \notin Routes /\ at = "send" /\ todo # <<>>
      \/ ~o.on /\ at = "idle"
  <2>1. CASE Live(o)
    BY <1>1, <2>1, FirstStages, Zenon
  <2>2. CASE o.del
    <3>1. k \in Routes /\ o.gen > 0 /\ st = "send"
      BY <1>1, <2>2, FirstStages, Zenon
    <3>2. AfterSend(k, o) = "drop"
      BY <2>2, <3>1 DEF AfterSend, Routes
    <3>3. <<"Gateway">> # <<>>
      BY Zenon
    <3>4. todo = Notified(k) /\ (todo = <<>> => at = "drop") /\ (todo # <<>> => at = "send")
      BY <3>1, <3>2
    <3> HIDE DEF st, o, at, todo
    <3>5. todo = <<>> => ~seen["Gateway"].on
      BY <1>3, <3>1, <3>3, <3>4, Zenon
    <3>6. QED
      BY <1>3, <2>2, <3>1, <3>4, <3>5, Zenon
  <2>3. CASE ~o.on
    <3>1. ~o.del /\ (st = "idle" \/ (k = "QuotaPolicy" /\ st = "send"))
      BY <1>1, <1>2, <2>3, FirstStages, Zenon DEF Sound
    <3>2. k = "QuotaPolicy" => AfterSend(k, o) = "idle" /\ k \notin Routes
      BY <3>1 DEF AfterSend, Routes
    <3> HIDE DEF st, o
    <3>3. QED
      BY <2>3, <3>1, <3>2
  <2>4. QED
    BY <2>1, <2>2, <2>3, Zenon DEF Live
<1>6. /\ j \in Work /\ j.at = at
      /\ at # "idle" => j.obj = o /\ j.cur = (k \notin lag) /\ j.todo = todo
  <2>1. CASE at = "idle"
    BY <2>1, IdleFacts, Zenon DEF Work
  <2>2. CASE at # "idle"
    <3>1. at \in {"idle", "add", "sync", "send", "drop", "status", "write"}
      BY <1>5, <2>2, Zenon
    <3>2. j = [at |-> at, obj |-> o, cur |-> k \notin lag, todo |-> todo, retry |-> FALSE]
      BY <2>2, Zenon
    <3> HIDE DEF at, o, todo, j
    <3>3. QED
      BY <1>2, <1>4, <2>2, <3>1, <3>2, Zenon DEF Work
  <2>3. QED
    BY <2>1, <2>2, Zenon
<1> HIDE DEF j, at, todo, st
<1>7. MovesOn(k, j)
  BY <1>1, <1>2, EventsKept, ChannelsKept, ZenonT(60) DEF MovesOn, TypeOK
<1>8. job'[k] = j /\ SameCache
  BY <1>1, <1>6, <1>7, MovesFacts, Zenon
<1>9. InHand(k)'
  <2>0. o.on => k \in world'.kinds
    BY <1>1, <1>2 DEF Sound, Never
  <2>1. seen'[k] = o /\ api'[k] = api[k] /\ (k \notin lag => api[k] = o) /\ Live(seen[k])' = Live(o)
    BY <1>1, Zenon DEF Inv, Cached, Behind, Live
  <2>2. CASE Live(o)
    BY <1>5, <1>6, <1>8, <2>0, <2>1, <2>2, Zenon DEF InHand, Live
  <2>3. CASE at = "idle"
    BY <1>6, <1>8, <2>3, Zenon DEF InHand
  <2>4. CASE ~Live(o) /\ at # "idle"
    <3>1. /\ job'[k].at = at /\ job'[k].obj = o /\ job'[k].todo = todo /\ (job'[k].cur => api'[k] = o)
          /\ at \in {"send", "drop"} /\ ~Live(seen[k])'
      BY <1>5, <1>6, <1>8, <2>1, <2>4, Zenon
    <3>2. at = "drop" => k \in Finalized /\ k \in world'.kinds /\ o.del
      BY <1>2, <1>5, <2>0, <2>4, Zenon DEF Routes, Finalized, Sound
    <3>3. o.del => k \in Routes /\ o.gen > 0
      BY <1>2, <1>5, <2>4 DEF Sound
    <3>4. at = "send" => todo # <<>> /\ (k \in Routes => todo = <<"Gateway">>)
      <4>1. <<"Gateway">> # <<>>
        OBVIOUS
      <4>2. QED
        BY <1>5, <2>4, <4>1, Zenon
    <3>5. QED
      BY <2>1, <3>1, <3>2, <3>3, <3>4 DEF InHand
  <2>5. QED
    BY <2>2, <2>3, <2>4, Zenon
<1>10. Live(o) => Due(k)'
  BY <1>5, <1>6, <1>8, Zenon DEF Due, Live
<1>11. PassesOn(k)
  BY <1>1, <1>10 DEF PassesOn, Calls, Live
<1>12. seen["Gateway"].on => GoesLast(k)
  <2>1. CASE o.del /\ seen["Gateway"].on
    <3>1. at = "send" /\ todo = <<"Gateway">>
      BY <1>2, <1>5, <2>1, Zenon DEF Live, Sound
    <3>2. Sends(k, "Gateway")'
      <4>1. job'[k].at = "send" /\ job'[k].todo = <<"Gateway">>
        BY <1>6, <1>8, <3>1, Zenon
      <4>2. QED
        BY <4>1, ToOne, Zenon DEF Sends
    <3>3. QED
      BY <1>1, <1>6, <1>8, <3>1, <3>2, Zenon DEF GoesLast
  <2>2. CASE ~o.del /\ seen["Gateway"].on
    BY <1>1, <1>5, <1>6, <1>8, <2>2, Zenon DEF GoesLast
  <2>3. QED
    BY <2>1, <2>2, Zenon
<1>13. Objects' /\ Cached'
  BY <1>1, <1>2, Counts, ObjectsKept
<1>14. derived' \in [Derived -> 0..MaxEvents + 1]
  BY <1>1, <1>2 DEF TypeOK
<1>15. QED
  BY <1>1, <1>6, <1>7, <1>9, <1>10, <1>11, <1>12, <1>13, <1>14, MoveStep, Zenon

LEMMA AddFinalizerStep ==
  ASSUME Inv, NEW k \in Kind, AddFinalizer(k)
  PROVE  Inv'
<1> DEFINE j == [job[k] EXCEPT !.at = "sync"]
<1>1. /\ job[k].at = "add" /\ job' = [job EXCEPT ![k] = j]
      /\ UNCHANGED <<world, seen, queue, chan, draft, config, derived, lost, events>>
      /\ \/ api' = [api EXCEPT ![k] = [api[k] EXCEPT !.fin = TRUE]] /\ lag' = lag \cup {k}
         \/ UNCHANGED <<api, lag>>
  BY DEF AddFinalizer, Written
<1>2. TypeOK /\ k \in Kind \ {"Gateway"} /\ InHand(k) /\ k \in Finalized /\ k \in world.kinds /\ k # "Secret"
  BY <1>1 DEF Inv, Jobs, InHand, Finalized
<1>3. /\ j \in Work /\ j.at = "sync" /\ j.obj = job[k].obj /\ j.cur = job[k].cur
  BY <1>2, Zenon DEF TypeOK, Work
<1> HIDE DEF j
<1>4. /\ api' \in [Kind -> Object] /\ (\A d \in Kind \ {k} : api'[d] = api[d])
      /\ api'[k].on = api[k].on /\ api'[k].gen = api[k].gen /\ api'[k].del = api[k].del
      /\ (api[k].fin => api'[k].fin)
  <2>1. CASE UNCHANGED api
    BY <1>2, <2>1, Zenon DEF TypeOK
  <2>2. CASE api' = [api EXCEPT ![k] = [api[k] EXCEPT !.fin = TRUE]]
    <3> DEFINE o == [api[k] EXCEPT !.fin = TRUE]
    <3>1. o \in Object /\ o.on = api[k].on /\ o.gen = api[k].gen /\ o.del = api[k].del /\ o.fin
      BY <1>2, Typed, Zenon DEF Object
    <3> HIDE DEF o
    <3>2. api' \in [Kind -> Object] /\ (\A d \in Kind \ {k} : api'[d] = api[d]) /\ api'[k] = o
      BY <1>2, <2>2, <3>1 DEF TypeOK, o
    <3>3. QED
      BY <3>1, <3>2
  <2>3. QED
    BY <1>1, <2>1, <2>2
<1>5. MovesOn(k, j)
  BY <1>1, <1>2, <1>4, Counts DEF MovesOn, TypeOK
<1>6. job'[k] = j /\ SameCache
  BY <1>2, <1>3, <1>5, MovesFacts, Zenon
<1>7. Objects'
  <2>1. \A d \in Kind : Sound(api[d], d)' /\ Sound(seen[d], d)'
    BY <1>1, <1>2, <1>4 DEF Inv, Objects, Sound
  <2>2. QED
    BY <1>1, <1>4, <2>1, Zenon DEF Inv, Objects
<1>8. ASSUME NEW d \in Kind PROVE Behind(d)'
  <2>1. CASE d # k
    BY <1>1, <1>4, <2>1 DEF Inv, Cached, Behind, Live
  <2>2. CASE d = k
    BY <1>1, <1>2, <1>4, <2>2 DEF Inv, Cached, Behind, Live
  <2>3. QED
    BY <2>1, <2>2, Zenon
<1>9. Live(seen[k])' = Live(seen[k])
  BY <1>1, Zenon DEF Live
<1>10. InHand(k)'
  BY <1>1, <1>2, <1>3, <1>4, <1>6, <1>9 DEF InHand
<1>11. Due(k)' /\ PassesOn(k)
  BY <1>1, <1>3, <1>6 DEF Due, PassesOn, Calls
<1>12. GoesLast(k)
  BY <1>1, <1>3, <1>4, <1>6 DEF GoesLast, Sends
<1>13. derived' \in [Derived -> 0..MaxEvents + 1] /\ api'["Secret"].gen = api["Secret"].gen
  BY <1>1, <1>2, <1>4, Zenon DEF TypeOK, Kind
<1>14. QED
  BY <1>1, <1>2, <1>3, <1>5, <1>7, <1>8, <1>10, <1>11, <1>12, <1>13, MoveStep, Zenon DEF Cached

(* A reconcile goes on to tell todo, or, with none to tell, past that.     *)
LEMMA Advances ==
  ASSUME TypeOK, NEW k \in Kind, NEW todo \in Seq(Kind), Advance(k, "send", todo)
  PROVE  \E j \in Work :
           /\ job' = [job EXCEPT ![k] = j]
           /\ j.at # "idle" => j.obj = job[k].obj /\ j.cur = job[k].cur
           /\ todo # <<>> => j.at = "send" /\ j.todo = todo
           /\ todo = <<>> => j.at = AfterSend(k, job[k].obj) /\ j.at \in {"drop", "status", "idle"}
<1>1. AfterSend(k, job[k].obj) \in {"drop", "status", "idle"}
  BY Zenon DEF AfterSend
<1>2. job[k] \in Work
  BY DEF TypeOK, Work
<1>3. CASE todo = <<>> /\ AfterSend(k, job[k].obj) = "idle"
  BY <1>3, IdleFacts DEF Advance, Work
<1>4. CASE ~(todo = <<>> /\ AfterSend(k, job[k].obj) = "idle")
  <2> DEFINE at == IF todo = <<>> THEN AfterSend(k, job[k].obj) ELSE "send"
             j == [job[k] EXCEPT !.at = at, !.todo = todo]
  <2>1. at # "idle" /\ at \in {"drop", "status", "send"}
    BY <1>1, <1>4
  <2>2. job' = [job EXCEPT ![k] = j]
    BY <1>4, <2>1, Zenon DEF Advance
  <2>3. at \in {"idle", "add", "sync", "send", "drop", "status", "write"}
    BY <2>1
  <2>4. /\ j \in Work /\ j.at = at /\ j.todo = todo /\ j.obj = job[k].obj /\ j.cur = job[k].cur
    <3> HIDE DEF at
    <3>1. QED
      BY <1>2, <2>3, Zenon DEF Work
  <2> HIDE DEF j
  <2>5. QED
    BY <1>1, <2>1, <2>2, <2>4, Zenon
<1>5. QED
  BY <1>3, <1>4, Zenon

LEMMA SyncFailsStep ==
  ASSUME Inv, NEW k \in Kind, SyncFails(k)
  PROVE  Inv'
<1>1. /\ job[k].at = "sync" /\ UNCHANGED <<world, api, seen, lag, chan, draft, config, derived, lost>>
      /\ \/ Counted \/ UNCHANGED events
      /\ \/ job' = [job EXCEPT ![k] = [job[k] EXCEPT !.at = "status", !.retry = TRUE]] /\ UNCHANGED queue
         \/ job' = [job EXCEPT ![k] = Idle] /\ queue' = queue \cup {k}
  BY Zenon DEF SyncFails, Returned
<1>2. TypeOK /\ k \in Kind \ {"Gateway"} /\ InHand(k)
  BY <1>1 DEF Inv, Jobs
<1>3. events' \in 0..MaxEvents /\ events' >= events /\ events' \in Nat
  BY <1>1, <1>2, Counts DEF Counted
<1>4. PICK j \in Work :
        /\ job' = [job EXCEPT ![k] = j]
        /\ \/ j.at = "status" /\ j.retry /\ j.obj = job[k].obj /\ UNCHANGED queue
           \/ j.at = "idle" /\ queue' = queue \cup {k}
  <2> DEFINE j == [job[k] EXCEPT !.at = "status", !.retry = TRUE]
  <2>1. j \in Work /\ j.at = "status" /\ j.retry /\ j.obj = job[k].obj
    BY <1>2, Zenon DEF TypeOK, Work
  <2> HIDE DEF j
  <2>2. CASE job' = [job EXCEPT ![k] = j] /\ UNCHANGED queue
    BY <2>1, <2>2, Zenon
  <2>3. CASE job' = [job EXCEPT ![k] = Idle] /\ queue' = queue \cup {k}
    BY <2>3, IdleFacts, Zenon DEF Work
  <2>4. QED
    BY <1>1, <2>2, <2>3 DEF j
<1>5. MovesOn(k, j)
  BY <1>1, <1>2, <1>3, <1>4, Counts DEF MovesOn, TypeOK
<1>6. job'[k] = j /\ SameCache
  BY <1>2, <1>5, MovesFacts
<1>7. Live(seen[k])' = Live(seen[k])
  BY <1>1, Zenon DEF Live
<1>8. InHand(k)'
  BY <1>1, <1>2, <1>4, <1>6, <1>7, Zenon DEF InHand
<1>9. Due(k)' /\ PassesOn(k)
  BY <1>1, <1>4, <1>6 DEF Due, Told, PassesOn, Calls
<1>10. GoesLast(k)
  BY <1>1, <1>4, <1>6 DEF GoesLast, Sends
<1>11. Objects' /\ Cached' /\ derived' \in [Derived -> 0..MaxEvents + 1]
  BY <1>1, <1>2, <1>3, ObjectsKept, Zenon DEF TypeOK
<1>12. QED
  BY <1>1, <1>2, <1>5, <1>8, <1>9, <1>10, <1>11, MoveStep, Zenon

LEMMA SendStep ==
  ASSUME Inv, NEW k \in Kind, Send(k)
  PROVE  Inv'
<1>1. /\ job[k].at = "send" /\ job[k].todo # <<>> /\ chan[Head(job[k].todo)] < Cap
      /\ chan' = [chan EXCEPT ![Head(job[k].todo)] = @ + 1] /\ Advance(k, "send", Tail(job[k].todo))
      /\ UNCHANGED <<world, api, seen, lag, queue, draft, config, derived, lost, events>>
  BY Zenon DEF Send
<1>2. TypeOK /\ k \in Kind \ {"Gateway"} /\ InHand(k) /\ job[k].todo \in Seq(Kind)
  BY <1>1, Typed, Zenon DEF Inv, Jobs
<1>3. PICK todo \in Seq(Kind) : todo = job[k].todo /\ todo # <<>>
  BY <1>1, <1>2
<1>a. PICK rest \in Seq(Kind) : rest = Tail(todo) /\ Len(rest) = Len(todo) - 1
  <2>1. Tail(todo) \in Seq(Kind) /\ Len(Tail(todo)) = Len(todo) - 1
    BY <1>3
  <2>2. QED
    BY <2>1, Zenon
<1>b. PICK d \in Kind : d = Head(todo) /\ d = todo[1]
  BY <1>3
<1>c. /\ todo = <<"Gateway">> => d = "Gateway" /\ rest = <<>>
      /\ \A i \in 1..Len(todo) : todo[i] = d \/ \E n \in 1..Len(rest) : rest[n] = todo[i]
  <2>1. ASSUME NEW i \in 1..Len(todo), i # 1
        PROVE  \E n \in 1..Len(rest) : rest[n] = todo[i]
    <3>1. i - 1 \in 1..Len(rest) /\ rest[i - 1] = todo[(i - 1) + 1] /\ (i - 1) + 1 = i
      BY <1>3, <1>a, <2>1
    <3>2. QED
      BY <3>1, Zenon
  <2>2. todo = <<"Gateway">> => d = "Gateway" /\ rest = <<>>
    BY <1>a, <1>b
  <2>3. QED
    BY <1>b, <2>1, <2>2, Zenon
<1>d. Advance(k, "send", rest) /\ chan[d] < Cap /\ chan' = [chan EXCEPT ![d] = @ + 1]
  BY <1>1, <1>3, <1>a, <1>b
<1>4. PICK j \in Work :
        /\ job' = [job EXCEPT ![k] = j]
        /\ j.at # "idle" => j.obj = job[k].obj /\ j.cur = job[k].cur
        /\ rest # <<>> => j.at = "send" /\ j.todo = rest
        /\ rest = <<>> => j.at = AfterSend(k, job[k].obj) /\ j.at \in {"drop", "status", "idle"}
  BY <1>2, <1>d, Advances, ZenonT(60)
<1>5. /\ chan' \in [Kind -> 0..Cap] /\ chan'[d] > 0 /\ \A e \in Kind : chan'[e] >= chan[e]
  <2>1. chan \in [Kind -> 0..Cap] /\ Cap \in Nat
    BY <1>2, PropagationAssumption DEF TypeOK
  <2>2. QED
    BY <1>d, <2>1
<1>6. MovesOn(k, j)
  <2>1. events' \in 0..MaxEvents /\ events' >= events
    BY <1>1, <1>2, Counts
  <2>2. QED
    BY <1>1, <1>2, <1>4, <1>5, <2>1, Zenon DEF MovesOn, TypeOK
<1>7. job'[k] = j /\ SameCache
  BY <1>2, <1>6, MovesFacts
<1>8. Told(d)' /\ (Told(k) => Told(k)')
  <2>1. chan[k] \in Nat /\ chan'[k] \in Nat /\ chan'[k] >= chan[k]
    BY <1>2, <1>5, Typed, PropagationAssumption
  <2>2. queue' = queue
    BY <1>1, Zenon
  <2>3. QED
    BY <1>5, <2>1, <2>2 DEF Told
<1>9. Live(seen[k])' = Live(seen[k])
  BY <1>1, Zenon DEF Live
<1>10. k \in Routes => d = "Gateway" /\ rest = <<>>
  BY <1>1, <1>2, <1>3, <1>c, Zenon DEF InHand
<1>11. InHand(k)'
  <2>1. CASE rest # <<>>
    <3>1. /\ job'[k].at = "send" /\ job'[k].todo # <<>> /\ k \notin Routes
          /\ job'[k].obj = job[k].obj /\ job'[k].cur = job[k].cur
      BY <1>4, <1>7, <1>10, <2>1
    <3>2. QED
      BY <1>1, <1>2, <1>9, <3>1, Zenon DEF InHand
  <2>2. CASE rest = <<>> /\ job[k].obj.del
    <3>1. k \in Routes /\ ~Live(seen[k]) /\ seen[k].gen > 0
      BY <1>1, <1>2, <2>2, Zenon DEF InHand
    <3>2. k \in world.kinds
      <4>1. Never.gen = 0 /\ Sound(seen[k], k)
        BY Zenon DEF Never, Inv, Objects
      <4>2. QED
        BY <3>1, <4>1 DEF Sound
    <3>3. job'[k].at = "drop" /\ job'[k].obj = job[k].obj /\ job'[k].cur = job[k].cur
      BY <1>4, <1>7, <2>2, <3>1, Zenon DEF AfterSend, Routes
    <3>4. k \in Finalized
      BY <3>1 DEF Routes, Finalized
    <3>5. QED
      BY <1>1, <1>2, <1>9, <2>2, <3>1, <3>2, <3>3, <3>4, Zenon DEF InHand
  <2>3. CASE rest = <<>> /\ ~job[k].obj.del
    <3>1. job'[k].at \in {"status", "idle"} /\ (job'[k].at = "status" => job'[k].obj = job[k].obj)
      BY <1>4, <1>7, <2>3, Zenon DEF AfterSend
    <3>2. QED
      BY <1>1, <1>2, <1>9, <2>3, <3>1, Zenon DEF InHand
  <2>4. QED
    BY <2>1, <2>2, <2>3
<1>12. Due(k) => Due(k)'
  BY <1>1, <1>8, Zenon DEF Due
<1>13. \A e : Sends(k, e) => Sends(k, e)' \/ Told(e)'
  <2>1. SUFFICES ASSUME NEW e, NEW i \in 1..Len(todo), todo[i] = e, e # d PROVE Sends(k, e)'
    BY <1>3, <1>8, Zenon DEF Sends
  <2>2. PICK n \in 1..Len(rest) : rest[n] = e
    BY <1>c, <2>1
  <2>3. rest # <<>>
    BY <2>2
  <2>4. job'[k].at = "send" /\ job'[k].todo = rest
    BY <1>4, <1>7, <2>3
  <2>5. QED
    BY <2>2, <2>4 DEF Sends
<1>14. PassesOn(k)
  BY <1>1, <1>12, <1>13, Zenon DEF PassesOn, Calls
<1>15. k \in Routes => GoesLast(k)
  BY <1>1, <1>8, <1>10, ZenonT(30) DEF GoesLast
<1>16. Objects' /\ Cached' /\ derived' \in [Derived -> 0..MaxEvents + 1]
  BY <1>1, <1>2, EventsKept, ObjectsKept, ZenonT(60) DEF TypeOK
<1>17. QED
  BY <1>1, <1>2, <1>6, <1>11, <1>12, <1>14, <1>15, <1>16, MoveStep, Zenon

(* A failed call before the others are told is done again, or, where the   *)
(* code only logs the error, the announcement is lost.                     *)
LEMMA SendFailsStep ==
  ASSUME Inv, NEW k \in Kind, SendFails(k)
  PROVE  Inv'
<1>1. /\ job[k].at = "send" /\ events < MaxEvents /\ events' = events + 1
      /\ UNCHANGED <<world, api, seen, lag, chan, draft, config, derived>>
      /\ queue \subseteq queue' /\ queue' \subseteq queue \cup {k}
  BY Zenon DEF SendFails, Counted, Returned
<1>2. TypeOK /\ k \in Kind \ {"Gateway"} /\ InHand(k)
  BY <1>1 DEF Inv, Jobs
<1>3. events' \in 0..MaxEvents /\ events' >= events /\ events' \in Nat
  BY <1>1, <1>2, Counts
<1>4. PICK j \in Work :
        /\ job' = [job EXCEPT ![k] = j]
        /\ \/ /\ ~OnlyLogged(k) /\ lost' = lost
              /\ \/ j.at = "status" /\ j.retry /\ j.obj = job[k].obj
                 \/ j.at = "idle" /\ k \in queue'
           \/ /\ OnlyLogged(k) /\ lost' = lost \cup {k}
              /\ j.at = AfterSend(k, job[k].obj)
              /\ j.at # "idle" => j.obj = job[k].obj /\ j.cur = job[k].cur
  <2> DEFINE j == [job[k] EXCEPT !.at = "status", !.retry = TRUE]
  <2>1. j \in Work /\ j.at = "status" /\ j.retry /\ j.obj = job[k].obj
    BY <1>2, Zenon DEF TypeOK, Work
  <2>2. CASE OnlyLogged(k)
    <3>1. <<>> \in Seq(Kind) /\ Advance(k, "send", <<>>) /\ lost' = lost \cup {k}
      BY <2>2 DEF SendFails
    <3>2. QED
      BY <1>2, <2>2, <3>1, Advances, ZenonT(30)
  <2>3. CASE ~OnlyLogged(k)
    <3>1. /\ lost' = lost
          /\ \/ job' = [job EXCEPT ![k] = j]
             \/ job' = [job EXCEPT ![k] = Idle] /\ k \in queue'
      BY <2>3 DEF SendFails, Returned
    <3> HIDE DEF j
    <3>2. QED
      BY <2>1, <2>3, <3>1, IdleFacts, Zenon DEF Work
  <2>4. QED
    BY <2>2, <2>3
<1>5. MovesOn(k, j)
  <2>1. lost' \subseteq Kind /\ lost \subseteq lost' /\ queue' \subseteq Kind
    BY <1>1, <1>2, <1>4, Zenon DEF TypeOK
  <2>2. QED
    BY <1>1, <1>2, <1>3, <1>4, <2>1, ChannelsKept, ZenonT(30) DEF MovesOn, TypeOK
<1>6. job'[k] = j /\ SameCache
  BY <1>2, <1>5, MovesFacts
<1>7. Live(seen[k])' = Live(seen[k])
  BY <1>1, Zenon DEF Live
<1>8. Objects' /\ Cached' /\ derived' \in [Derived -> 0..MaxEvents + 1]
  BY <1>1, <1>2, <1>3, ObjectsKept, Zenon DEF TypeOK
<1>9. CASE ~OnlyLogged(k)
  <2>1. ~job[k].obj.del /\ job'[k].at \in {"status", "idle"}
        /\ (job'[k].at = "status" => job'[k].obj = job[k].obj)
    BY <1>4, <1>6, <1>9, Zenon DEF OnlyLogged
  <2>2. InHand(k)'
    BY <1>1, <1>2, <1>7, <2>1, Zenon DEF InHand
  <2>3. Due(k)' /\ PassesOn(k)
    BY <1>1, <1>4, <1>6, <1>9, Zenon DEF Due, Told, PassesOn, Calls
  <2>4. k \in Routes => GoesLast(k)
    <3>1. k \in Routes /\ seen[k].del => k \in queue'
      BY <1>1, <1>2, <2>1, Zenon DEF InHand
    <3>2. QED
      BY <1>1, <2>1, <3>1, Zenon DEF GoesLast
  <2>5. QED
    BY <1>1, <1>2, <1>5, <1>8, <2>2, <2>3, <2>4, MoveStep, Zenon
<1>10. CASE OnlyLogged(k)
  <2>1. lost' # {} /\ k \notin {"Backend", "Secret"}
    <3>1. k \in lost'
      BY <1>4, <1>10, Zenon
    <3>2. k \in Routes \/ k = "QuotaPolicy"
      BY <1>1, <1>2, <1>10, Zenon DEF OnlyLogged, InHand
    <3>3. QED
      BY <3>1, <3>2, Zenon DEF Routes
  <2>2. InHand(k)'
    <3>1. CASE job[k].obj.del
      <4>1. k \in Routes /\ ~Live(seen[k]) /\ seen[k].gen > 0
        BY <1>1, <1>2, <3>1, Zenon DEF InHand
      <4>2. k \in world.kinds
        <5>1. Never.gen = 0 /\ Sound(seen[k], k)
          BY Zenon DEF Never, Inv, Objects
        <5>2. QED
          BY <4>1, <5>1 DEF Sound
      <4>3. job'[k].at = "drop" /\ job'[k].obj = job[k].obj /\ job'[k].cur = job[k].cur
        BY <1>4, <1>6, <1>10, <3>1, <4>1, Zenon DEF AfterSend, Routes
      <4>4. k \in Finalized
        BY <4>1 DEF Routes, Finalized
      <4>5. QED
        BY <1>1, <1>2, <1>7, <3>1, <4>1, <4>2, <4>3, <4>4, Zenon DEF InHand
    <3>2. CASE ~job[k].obj.del
      <4>1. job'[k].at \in {"status", "idle"} /\ (job'[k].at = "status" => job'[k].obj = job[k].obj)
        BY <1>4, <1>6, <1>10, <3>2, Zenon DEF AfterSend
      <4>2. QED
        BY <1>1, <1>2, <1>7, <3>2, <4>1, Zenon DEF InHand
    <3>3. QED
      BY <3>1, <3>2
  <2>3. Due(k) => Due(k)'
    BY <1>1, Zenon DEF Due, Told
  <2>4. QED
    BY <1>1, <1>2, <1>5, <1>8, <2>1, <2>2, <2>3, MoveStep, Zenon
<1>11. QED
  BY <1>9, <1>10

LEMMA DropFinalizerStep ==
  ASSUME Inv, NEW k \in Kind, DropFinalizer(k)
  PROVE  Inv'
<1>1. /\ TypeOK /\ job[k].at = "drop" /\ k \in Kind \ {"Gateway"} /\ InHand(k)
      /\ k \in Routes /\ k \in world.kinds /\ ~Live(seen[k]) /\ seen[k].gen > 0 /\ k # "Secret"
      /\ (job[k].cur => api[k].del)
  BY DEF Inv, Jobs, InHand, DropFinalizer, Routes
<1> DEFINE j == [job[k] EXCEPT !.at = "status"]
<1>2. /\ job' = [job EXCEPT ![k] = j]
      /\ UNCHANGED <<world, seen, queue, chan, draft, config, derived, lost, events>>
      /\ \/ api' = [api EXCEPT ![k] = Gone(api[k])] /\ lag' = lag \cup {k}
         \/ UNCHANGED <<api, lag>>
  BY <1>1, Zenon DEF DropFinalizer, Written, Routes
<1>3. j \in Work /\ j.at = "status" /\ j.obj = job[k].obj
  BY <1>1, Zenon DEF TypeOK, Work
<1> HIDE DEF j
<1>4. /\ api' \in [Kind -> Object] /\ (\A d \in Kind \ {k} : api'[d] = api[d])
      /\ api'[k].gen = api[k].gen
      /\ \/ api'[k] = api[k] /\ lag' = lag
         \/ ~api'[k].on /\ ~api'[k].del /\ ~api'[k].fin /\ lag' = lag \cup {k}
  <2>1. CASE UNCHANGED <<api, lag>>
    BY <1>1, <2>1, Zenon DEF TypeOK
  <2>2. CASE api' = [api EXCEPT ![k] = Gone(api[k])] /\ lag' = lag \cup {k}
    <3>1. api[k] \in Object
      BY <1>1, Typed, Zenon
    <3>2. api' \in [Kind -> Object] /\ (\A d \in Kind \ {k} : api'[d] = api[d]) /\ api'[k] = Gone(api[k])
      BY <1>1, <2>2, <3>1, GoneFacts DEF TypeOK
    <3>3. QED
      BY <2>2, <3>1, <3>2, GoneFacts, Zenon
  <2>3. QED
    BY <1>2, <2>1, <2>2, Zenon
<1>5. MovesOn(k, j)
  <2>1. events' \in 0..MaxEvents /\ events' >= events
    BY <1>1, <1>2, EventsKept, ZenonT(30)
  <2>2. chan' \in [Kind -> 0..Cap] /\ \A d \in Kind : chan'[d] >= chan[d]
    BY <1>1, <1>2, ChannelsKept, ZenonT(30)
  <2>3. QED
    BY <1>1, <1>2, <1>4, <2>1, <2>2, ZenonT(60) DEF MovesOn, TypeOK
<1>6. job'[k] = j /\ SameCache
  BY <1>1, <1>3, <1>5, MovesFacts, Zenon
<1>7. Objects'
  <2>1. ASSUME NEW d \in Kind PROVE Sound(api[d], d)' /\ Sound(seen[d], d)'
    <3>1. Sound(api[d], d) /\ Sound(seen[d], d)
      BY ZenonT(30) DEF Inv, Objects
    <3>2. CASE api'[d] = api[d]
      BY <1>2, <3>1, <3>2, ZenonT(30) DEF Sound
    <3>3. CASE d = k /\ ~api'[k].on /\ ~api'[k].del /\ ~api'[k].fin
      BY <1>1, <1>2, <3>1, <3>3, ZenonT(30) DEF Sound
    <3>4. QED
      BY <1>4, <3>2, <3>3, ZenonT(30)
  <2>2. QED
    BY <1>2, <1>4, <2>1, ZenonT(30) DEF Inv, Objects
<1>8. ASSUME NEW d \in Kind PROVE Behind(d)'
  <2>1. CASE api'[d] = api[d] /\ (d \in lag' => d \in lag)
    BY <1>2, <1>4, <2>1, Zenon DEF Inv, Cached, Behind, Live
  <2>2. CASE d = k /\ ~api'[k].on /\ ~api'[k].del /\ lag' = lag \cup {k}
    <3>1. Behind(k) /\ Sound(seen[k], k) /\ seen[k] \in Object /\ api'[k] \in Object
      BY <1>1, <1>4, Typed, Zenon DEF Inv, Cached, Objects
    <3>2. /\ seen[k].on \in BOOLEAN /\ seen[k].del \in BOOLEAN
          /\ api'[k].on \in BOOLEAN /\ api'[k].del \in BOOLEAN
      BY <3>1, ObjectType, Zenon
    <3>3. seen[k].on = api'[k].on => seen[k].del = api'[k].del
      BY <2>2, <3>1, <3>2, Zenon DEF Sound
    <3>4. QED
      BY <1>1, <1>2, <1>4, <2>2, <3>1, <3>3, Zenon DEF Behind, Live
  <2>3. QED
    BY <1>4, <2>1, <2>2
<1>9. ~Live(seen[k])'
  BY <1>1, <1>2 DEF Live
<1>10. InHand(k)'
  BY <1>1, <1>2, <1>3, <1>6, <1>9, Zenon DEF InHand
<1>11. PassesOn(k)
  BY <1>1, Zenon DEF PassesOn
<1>12. GoesLast(k)
  BY <1>1, <1>2, <1>3, <1>6 DEF GoesLast, Sends
<1>13. derived' \in [Derived -> 0..MaxEvents + 1] /\ api'["Secret"].gen = api["Secret"].gen
  BY <1>1, <1>2, <1>4, Zenon DEF TypeOK, Kind
<1>14. QED
  BY <1>1, <1>2, <1>3, <1>5, <1>7, <1>8, <1>10, <1>11, <1>12, <1>13, MoveStep, Zenon DEF Cached

(* With Announced, a status update makes another version only of what may  *)
(* be deleted, a secret not among it.                                      *)
LEMMA FinishStep ==
  ASSUME Announced, Inv, NEW k \in Kind, Finish(k)
  PROVE  Inv'
<1>1. /\ job[k].at = "status" /\ queue' = queue \cup {q \in {k} : job[k].retry}
      /\ UNCHANGED <<world, api, seen, chan, draft, config, derived, lost, events>>
      /\ \/ k = "QuotaPolicy" /\ ~job[k].retry /\ Advance(k, "send", Notified(k))
         \/ (k = "QuotaPolicy" => job[k].retry) /\ job' = [job EXCEPT ![k] = Idle]
  BY DEF Finish
<1>2. TypeOK /\ k \in Kind \ {"Gateway"} /\ InHand(k) /\ world \in Worlds
  BY <1>1, Zenon DEF Inv, Jobs, TypeOK
<1>3. lag \subseteq lag' /\ lag' \subseteq Kind /\ ("Secret" \in lag' => "Secret" \in lag)
  <2>1. lag' = lag \/ (k \in world.deleted /\ lag' = lag \cup {k})
    BY Zenon DEF Finish
  <2>2. "Secret" \notin world.deleted
    BY <1>2, Zenon DEF Announced, Routes
  <2>3. QED
    BY <1>2, <2>1, <2>2, Zenon DEF TypeOK
<1>4. PICK j \in Work :
        /\ job' = [job EXCEPT ![k] = j]
        /\ \/ /\ k = "QuotaPolicy" /\ ~job[k].retry /\ j.at = "send" /\ Notified(k) # <<>>
              /\ j.todo = Notified(k) /\ j.obj = job[k].obj
           \/ /\ k = "QuotaPolicy" /\ Notified(k) = <<>> /\ j.at = "idle"
           \/ (k = "QuotaPolicy" => job[k].retry) /\ j.at = "idle"
  <2>1. CASE k = "QuotaPolicy" /\ ~job[k].retry /\ Advance(k, "send", Notified(k))
    <3>1. ~job[k].obj.del
      BY <1>1, <1>2, <2>1, Zenon DEF InHand, Routes
    <3>2. AfterSend(k, job[k].obj) = "idle"
      BY <2>1, <3>1, Zenon DEF AfterSend
    <3>3. PICK todo \in Seq(Kind) : todo = Notified(k)
      BY <1>2, NotifiedFacts
    <3>a. Advance(k, "send", todo)
      BY <2>1, <3>3
    <3>4. PICK j \in Work :
            /\ job' = [job EXCEPT ![k] = j]
            /\ j.at # "idle" => j.obj = job[k].obj /\ j.cur = job[k].cur
            /\ todo # <<>> => j.at = "send" /\ j.todo = todo
            /\ todo = <<>> => j.at = AfterSend(k, job[k].obj) /\ j.at \in {"drop", "status", "idle"}
      BY <1>2, <3>a, Advances, ZenonT(60)
    <3>5. QED
      BY <2>1, <3>2, <3>3, <3>4, Zenon
  <2>2. CASE (k = "QuotaPolicy" => job[k].retry) /\ job' = [job EXCEPT ![k] = Idle]
    BY <2>2, IdleFacts, Zenon DEF Work
  <2>3. QED
    BY <1>1, <2>1, <2>2, Zenon
<1>5. MovesOn(k, j)
  <2>1. events' \in 0..MaxEvents /\ events' >= events
    BY <1>1, <1>2, EventsKept, ZenonT(30)
  <2>2. chan' \in [Kind -> 0..Cap] /\ \A d \in Kind : chan'[d] >= chan[d]
    BY <1>1, <1>2, ChannelsKept, ZenonT(30)
  <2>3. QED
    BY <1>1, <1>2, <1>3, <1>4, <2>1, <2>2, ZenonT(60) DEF MovesOn, TypeOK
<1>6. job'[k] = j /\ SameCache
  BY <1>2, <1>5, MovesFacts
<1>7. Objects' /\ Cached'
  <2>1. Objects'
    BY <1>1, Zenon DEF Inv, Objects, Sound
  <2>2. Cached'
    BY <1>1, <1>3, Zenon DEF Inv, Cached, Behind, Live
  <2>3. QED
    BY <2>1, <2>2
<1>8. Live(seen[k])' = Live(seen[k])
  BY <1>1, Zenon DEF Live
<1>9. InHand(k)'
  <2>1. CASE j.at = "idle"
    BY <1>6, <2>1 DEF InHand
  <2>2. CASE k = "QuotaPolicy" /\ j.at = "send" /\ j.todo # <<>> /\ j.obj = job[k].obj
    <3>1. ~job[k].obj.del /\ k \notin Routes
      BY <1>1, <1>2, <2>2, Zenon DEF InHand, Routes
    <3>2. QED
      BY <1>6, <2>2, <3>1, Zenon DEF InHand
  <2>3. QED
    BY <1>4, <2>1, <2>2, ZenonT(30)
<1>10. k \in queue => k \in queue'
  BY <1>1, Zenon
<1>11. Told(k) \/ job[k].retry => Told(k)'
  BY <1>1, Zenon DEF Told
<1>12. PassesOn(k)
  <2>1. SUFFICES ASSUME NEW d \in Kind, Edge(k, d), Live(seen[k]), seen[d].on, Calls(k, d)
                 PROVE  Calls(k, d)' \/ Told(d)'
    BY Zenon DEF PassesOn
  <2>2. seen'[k].on
    BY <1>1, <2>1, Zenon DEF Live
  <2>3. CASE Told(k) \/ job[k].retry
    BY <1>11, <2>2, <2>3, ZenonT(30) DEF Calls, Due
  <2>4. CASE ~(Told(k) \/ job[k].retry)
    <3>1. k = "QuotaPolicy"
      BY <1>1, <2>1, <2>4, Zenon DEF Calls, Due, Sends
    <3>2. PICK i \in 1..Len(Notified(k)) : Notified(k)[i] = d
      BY <1>2, <2>1, NotifiedFacts
    <3>3. Notified(k) # <<>>
      BY <3>2
    <3>4. job'[k].at = "send" /\ job'[k].todo = Notified(k)
      BY <1>4, <1>6, <2>4, <3>1, <3>3, Zenon
    <3>5. \E n \in 1..Len(job'[k].todo) : job'[k].todo[n] = d
      BY <3>2, <3>4, Zenon
    <3>6. QED
      BY <2>2, <3>4, <3>5, Zenon DEF Calls, Sends
  <2>5. QED
    BY <2>3, <2>4, Zenon
<1>13. k \in Routes => GoesLast(k)
  BY <1>1, <1>4, <1>6, <1>10, Zenon DEF GoesLast, Sends, Routes
<1>14. k \in Routes /\ Due(k) => Due(k)'
  BY <1>1, <1>11, Zenon DEF Due, Routes
<1>15. derived' \in [Derived -> 0..MaxEvents + 1]
  BY <1>1, <1>2, Zenon DEF TypeOK
<1>16. QED
  BY <1>1, <1>2, <1>5, <1>7, <1>9, <1>12, <1>13, <1>14, <1>15, MoveStep, Zenon

(* What sync makes of a route.                                             *)
LEMMA Made ==
  ASSUME Inv, NEW k \in Kind, SyncSucceeds(k)
  PROVE  /\ derived' \in [Derived -> 0..MaxEvents + 1]
         /\ k \notin Routes => derived' = derived
         /\ k = "Route" => /\ derived'["Route"] = job["Route"].obj.gen
                           /\ derived'["Backend"] = seen["Backend"].gen
                           /\ \A d \in {"MCPRoute", "Secret"} : derived'[d] = derived[d]
         /\ k = "MCPRoute" => /\ derived'["MCPRoute"] = job["MCPRoute"].obj.gen
                              /\ derived'["Secret"] = api["Secret"].gen
                              /\ \A d \in {"Route", "Backend"} : derived'[d] = derived[d]
<1>1. /\ derived \in [Derived -> 0..MaxEvents + 1]
      /\ \A d \in Kind : /\ job[d].obj.gen \in 0..MaxEvents + 1 /\ seen[d].gen \in 0..MaxEvents + 1
                         /\ api[d].gen \in 0..MaxEvents + 1
  <2>1. TypeOK
    BY DEF Inv
  <2>2. QED
    BY <2>1, Typed, ObjectType, Zenon DEF TypeOK
<1>2. /\ "Route" \in Kind /\ "MCPRoute" \in Kind /\ "Backend" \in Kind /\ "Secret" \in Kind
      /\ Derived = {"Route", "Backend", "MCPRoute", "Secret"}
  BY Zenon DEF Kind, Derived
<1>3. CASE k = "Route"
  <2>1. derived' = [derived EXCEPT !["Route"] = job["Route"].obj.gen, !["Backend"] = seen["Backend"].gen]
    BY <1>3, Zenon DEF SyncSucceeds, newHTTPRoute
  <2>2. QED
    BY <1>1, <1>2, <1>3, <2>1, Zenon DEF Routes
<1>4. CASE k = "MCPRoute"
  <2>1. derived' = [[derived EXCEPT !["MCPRoute"] = job["MCPRoute"].obj.gen] EXCEPT !["Secret"] = api["Secret"].gen]
    BY <1>4, Zenon DEF SyncSucceeds, newMainHTTPRoute, ensureCredentialSecret
  <2>2. QED
    BY <1>1, <1>2, <1>4, <2>1 DEF Routes
<1>5. CASE k \notin Routes
  <2>1. derived' = derived
    BY <1>5 DEF SyncSucceeds, Routes
  <2>2. QED
    BY <1>1, <1>5, <2>1 DEF Routes
<1>6. QED
  BY <1>3, <1>4, <1>5 DEF Routes

LEMMA SyncSucceedsStep ==
  ASSUME Inv, NEW k \in Kind, SyncSucceeds(k)
  PROVE  Inv'
<1>1. /\ job[k].at = "sync" /\ queue \subseteq queue' /\ queue' \subseteq queue \cup {k}
      /\ UNCHANGED <<world, api, seen, lag, chan, draft, config, lost, events>>
      /\ \/ k # "QuotaPolicy" /\ GatewayFound(k) /\ Advance(k, "send", Notified(k))
         \/ /\ k = "QuotaPolicy" \/ ~GatewayFound(k)
            /\ job' = [job EXCEPT ![k] = [job[k] EXCEPT !.at = "status", !.retry = ~GatewayFound(k)]]
  BY Zenon DEF SyncSucceeds
<1>2. TypeOK /\ k \in Kind \ {"Gateway"} /\ InHand(k) /\ ~job[k].obj.del
  BY <1>1, Zenon DEF Inv, Jobs, InHand
<1>3. PICK todo \in Seq(Kind) : todo = Notified(k)
  BY <1>2, NotifiedFacts
<1>4. PICK j \in Work :
        /\ job' = [job EXCEPT ![k] = j]
        /\ j.at # "idle" => j.obj = job[k].obj
        /\ \/ todo # <<>> /\ j.at = "send" /\ j.todo = todo
           \/ todo = <<>> /\ j.at \in {"status", "idle"}
           \/ j.at = "status" /\ (k = "QuotaPolicy" \/ j.retry)
  <2>1. CASE Advance(k, "send", Notified(k))
    <3>1. Advance(k, "send", todo)
      BY <1>3, <2>1
    <3>2. PICK j \in Work :
            /\ job' = [job EXCEPT ![k] = j]
            /\ j.at # "idle" => j.obj = job[k].obj /\ j.cur = job[k].cur
            /\ todo # <<>> => j.at = "send" /\ j.todo = todo
            /\ todo = <<>> => j.at = AfterSend(k, job[k].obj) /\ j.at \in {"drop", "status", "idle"}
      BY <1>2, <3>1, Advances, ZenonT(60)
    <3>3. AfterSend(k, job[k].obj) # "drop"
      BY <1>2 DEF AfterSend
    <3>4. QED
      BY <3>2, <3>3, Zenon
  <2>2. CASE /\ k = "QuotaPolicy" \/ ~GatewayFound(k)
             /\ job' = [job EXCEPT ![k] = [job[k] EXCEPT !.at = "status", !.retry = ~GatewayFound(k)]]
    <3> DEFINE b == ~GatewayFound(k)
               j == [job[k] EXCEPT !.at = "status", !.retry = b]
    <3>1. b \in BOOLEAN
      OBVIOUS
    <3> HIDE DEF b
    <3>2. j \in Work /\ j.at = "status" /\ j.retry = b /\ j.obj = job[k].obj
      BY <1>2, <3>1, Zenon DEF TypeOK, Work
    <3>3. job' = [job EXCEPT ![k] = j] /\ (k = "QuotaPolicy" \/ b)
      BY <2>2 DEF b
    <3> HIDE DEF j
    <3>4. k = "QuotaPolicy" \/ j.retry
      BY <3>2, <3>3
    <3>5. QED
      BY <3>2, <3>3, <3>4, Zenon
  <2>3. QED
    BY <1>1, <2>1, <2>2
<1>5. MovesOn(k, j)
  <2>1. events' \in 0..MaxEvents /\ events' >= events
    BY <1>1, <1>2, Counts
  <2>2. chan' \in [Kind -> 0..Cap] /\ \A d \in Kind : chan'[d] >= chan[d]
    BY <1>1, <1>2, Typed, PropagationAssumption DEF TypeOK
  <2>3. QED
    BY <1>1, <1>2, <1>4, <2>1, <2>2 DEF MovesOn, TypeOK
<1>6. job'[k] = j /\ SameCache /\ \A d \in Kind \ {k} : Resting(d)
  BY <1>2, <1>5, MovesFacts
<1>7. \A d \in Kind : Live(seen[d])' = Live(seen[d])
  BY <1>1, Zenon DEF Live
<1>8. InHand(k)'
  <2>1. job'[k].at \in {"send", "status", "idle"} /\ (job'[k].at # "idle" => job'[k].obj = job[k].obj)
    BY <1>4, <1>6
  <2>2. job'[k].at = "send" => job'[k].todo # <<>> /\ (k \in Routes => job'[k].todo = <<"Gateway">>)
    <3>1. job'[k].at = "send" => todo # <<>> /\ job'[k].todo = todo
      BY <1>4, <1>6, Zenon
    <3>2. k \in Routes => todo \in {<<>>, <<"Gateway">>}
      BY <1>2, <1>3, NotifiedFacts, Zenon
    <3>3. QED
      BY <3>1, <3>2, Zenon
  <2>3. QED
    BY <1>1, <1>2, <1>7, <2>1, <2>2, Zenon DEF InHand
<1>9. PassesOn(k)
  <2>1. SUFFICES ASSUME NEW d \in Kind, Edge(k, d), Live(seen[k]), seen[d].on
                 PROVE  Calls(k, d)'
    BY Zenon DEF PassesOn
  <2>2. PICK i \in 1..Len(todo) : todo[i] = d
    BY <1>2, <1>3, <2>1, NotifiedFacts
  <2>3. todo # <<>> /\ seen'[k].on
    BY <1>1, <2>1, <2>2 DEF Live
  <2>4. CASE job'[k].at = "send" /\ job'[k].todo = todo
    BY <2>2, <2>3, <2>4, Zenon DEF Calls, Sends
  <2>5. CASE job'[k].at = "status" /\ (k = "QuotaPolicy" \/ job'[k].retry)
    BY <2>3, <2>5 DEF Calls, Due
  <2>6. QED
    BY <1>4, <1>6, <2>3, <2>4, <2>5, Zenon
<1>10. GoesLast(k)
  BY <1>1, <1>4, <1>6, Zenon DEF GoesLast, Sends
<1>11. \A d \in Kind \ {"Gateway"} : PassesOn(d)
  BY <1>6, <1>9, Rested, Zenon
<1>12. \A d \in Kind \ {k} : Due(d) => Due(d)'
  BY <1>6, Rested, Zenon
<1>13. Generated' \/ (derived' = derived /\ k \notin Routes)
  <2>1. CASE k \notin Routes
    BY <2>1, Made
  <2>2. CASE k \in Routes
    <3>1. ASSUME NEW r \in Routes, Live(seen[r]) PROVE derived'[r] = seen'[r].gen \/ Due(r)'
      <4>1. CASE r = k
        <5>1. derived'[k] = job[k].obj.gen
          BY <2>2, Made DEF Routes
        <5>2. job[k].obj.gen = seen[k].gen \/ k \in queue
          BY <1>1, <1>2, <3>1, <4>1 DEF InHand
        <5>3. k \in queue => Due(k)'
          BY <1>1 DEF Due, Told
        <5>4. QED
          BY <1>1, <4>1, <5>1, <5>2, <5>3, Zenon
      <4>2. CASE r # k
        <5>1. derived'[r] = derived[r] /\ (Due(r) => Due(r)')
          BY <1>12, <2>2, <3>1, <4>2, Made DEF Routes, Kind
        <5>2. QED
          BY <1>1, <3>1, <5>1, Zenon DEF Inv, Generated
      <4>3. QED
        BY <4>1, <4>2
    <3>2. ASSUME Live(seen["Route"]), world.ref = "Backend"
          PROVE  derived'["Backend"] = seen'["Backend"].gen \/ Due("Route")' \/ Calls("Backend", "Route")'
      <4>1. CASE k = "Route"
        BY <1>1, <4>1, Made, Zenon
      <4>2. CASE k = "MCPRoute"
        <5>1. derived'["Backend"] = derived["Backend"] /\ (Due("Route") => Due("Route")')
          BY <1>12, <4>2, Made, Zenon DEF Kind
        <5>2. Calls("Backend", "Route") => Calls("Backend", "Route")' \/ Told("Route")'
          <6>1. seen["Backend"].on => Live(seen["Backend"])
            BY DEF Inv, Objects, Sound, Live, Routes, Kind
          <6>2. seen["Route"].on
            BY <3>2, Zenon DEF Live
          <6>3. QED
            BY <1>11, <3>2, <6>1, <6>2, Zenon DEF PassesOn, Edge, Calls, Kind
        <5>3. QED
          BY <1>1, <3>2, <5>1, <5>2, Zenon DEF Inv, Generated, Due
      <4>3. QED
        BY <2>2, <4>1, <4>2 DEF Routes
    <3>3. ASSUME Live(seen["MCPRoute"])
          PROVE  \/ derived'["Secret"] = api'["Secret"].gen \/ "Secret" \in lag'
                 \/ Due("MCPRoute")' \/ Calls("Secret", "MCPRoute")'
      <4>1. CASE k = "MCPRoute"
        BY <1>1, <4>1, Made, Zenon
      <4>2. CASE k = "Route"
        <5>1. derived'["Secret"] = derived["Secret"] /\ (Due("MCPRoute") => Due("MCPRoute")')
          BY <1>12, <4>2, Made, Zenon DEF Kind
        <5>2. Calls("Secret", "MCPRoute") => Calls("Secret", "MCPRoute")' \/ Told("MCPRoute")'
          <6>1. seen["Secret"].on => Live(seen["Secret"])
            BY DEF Inv, Objects, Sound, Live, Routes, Kind
          <6>2. seen["MCPRoute"].on
            BY <3>3, Zenon DEF Live
          <6>3. QED
            BY <1>11, <6>1, <6>2, Zenon DEF PassesOn, Edge, Calls, Kind
        <5>3. QED
          BY <1>1, <3>3, <5>1, <5>2, Zenon DEF Inv, Generated, Due
      <4>3. QED
        BY <2>2, <4>1, <4>2 DEF Routes
    <3>4. /\ \A r \in Routes : Live(seen[r])' => Live(seen[r])
          /\ Live(seen["Route"])' => Live(seen["Route"])
          /\ Live(seen["MCPRoute"])' => Live(seen["MCPRoute"])
      BY <1>7, Zenon DEF Routes, Kind
    <3>5. \A r \in Routes : Live(seen[r])' => derived'[r] = seen'[r].gen \/ Due(r)'
      BY <3>1, <3>4
    <3>6. /\ Live(seen["Route"])' /\ world'.ref = "Backend" =>
               derived'["Backend"] = seen'["Backend"].gen \/ Due("Route")' \/ Calls("Backend", "Route")'
      BY <1>1, <3>2, <3>4, Zenon
    <3>7. Generated'
      BY <3>3, <3>4, <3>5, <3>6 DEF Generated
    <3>8. QED
      BY <3>7, Zenon
  <2>3. QED
    BY <2>1, <2>2, Zenon
<1>14. Objects' /\ Cached'
  BY <1>1, <1>2, Counts, ObjectsKept
<1>15. QED
  BY <1>1, <1>2, <1>5, <1>8, <1>9, <1>10, <1>13, <1>14, Made, MoveStep, Zenon

-----------------------------------------------------------------------------
(* The cache takes in a version.                                           *)
LEMMA PartKept ==
  ASSUME world' = world, NEW C \in SUBSET Content,
         \A c \in C : (Included(seen, c)' <=> Included(seen, c)) /\ (Included(seen, c) => seen'[c] = seen[c])
  PROVE  \A c \in C : FilterConfig(seen)'[c] = FilterConfig(seen)[c]
  BY Zenon DEF FilterConfig, Version

(* The part of a route that is not live is empty.                          *)
LEMMA PartEmpty ==
  ASSUME world' = world, NEW r \in Routes, ~Live(seen[r]), ~Live(seen[r])'
  PROVE  \A c \in Part(r) : FilterConfig(seen)'[c] = FilterConfig(seen)[c]
<1>1. Part(r) \in SUBSET Content
  BY DEF Part, Content
<1>2. \A c \in Part(r) : ~Included(seen, c) /\ ~Included(seen, c)'
  BY Zenon DEF Part, Routes, Included, mcpConfig, BackendFound, injectQuotaPolicyCostExpressions
<1>3. QED
  BY <1>1, <1>2, PartKept, Zenon

(* What the controllers are about when the cache takes in a version of k   *)
(* that is new to them.                                                    *)
News(k) ==
  /\ k \in lag /\ lag' = lag \ {k} /\ seen' = [seen EXCEPT ![k] = api[k]]
  /\ queue \cup {k} \subseteq queue' /\ queue' \subseteq Kind
  /\ api[k].gen > 0 /\ (k \notin Routes \cup {"Gateway"} => api[k].on)
  /\ UNCHANGED <<world, api, chan, job, draft, config, derived, lost, events>>

LEMMA NewsFacts ==
  ASSUME Inv, NEW k \in Kind, News(k)
  PROVE  /\ seen'[k] = api[k] /\ \A j \in Kind \ {k} : seen'[j] = seen[j]
         /\ Told(k)' /\ Due(k)' /\ \A d : seen'[k].on => Calls(k, d)'
         /\ \A j \in Kind : /\ Told(j) => Told(j)'
                            /\ Due(j) => Due(j)'
                            /\ \A d : Sends(j, d) => Sends(j, d)'
         /\ \A j \in Kind \ {k}, d \in Kind : Calls(j, d) => Calls(j, d)'
         /\ \A j \in Kind \ (Routes \cup {"Gateway"}) : seen[j].on => seen'[j].on
         /\ Newest' = Newest
<1>1. /\ seen \in [Kind -> Object] /\ seen'[k] = api[k] /\ \A j \in Kind \ {k} : seen'[j] = seen[j]
  BY Zenon DEF Inv, TypeOK, News
<1>2. Told(k)' /\ \A j \in Kind : Told(j) => Told(j)'
  BY Zenon DEF News, Told
<1>3. \A j \in Kind : Due(j) => Due(j)'
  BY <1>2, Zenon DEF Due, News
<1>4. \A j \in Kind : \A d : Sends(j, d) => Sends(j, d)'
  BY Zenon DEF Sends, News
<1>5. \A j \in Kind \ {k}, d \in Kind : Calls(j, d) => Calls(j, d)'
  BY <1>1, <1>3, <1>4, Zenon DEF Calls
<1>6. Due(k)' /\ \A d : seen'[k].on => Calls(k, d)'
  BY <1>2, Zenon DEF Due, Calls
<1>7. \A j \in Kind \ (Routes \cup {"Gateway"}) : seen[j].on => seen'[j].on
  BY <1>1, Zenon DEF News
<1>8. Newest' = Newest
  BY Zenon DEF Newest, News
<1>9. QED
  BY <1>1, <1>2, <1>3, <1>4, <1>5, <1>6, <1>7, <1>8, Zenon

LEMMA NewsGenerated ==
  ASSUME Inv, NEW k \in Kind, News(k)
  PROVE  Generated'
<1>1. ASSUME NEW r \in Routes, Live(seen[r])' PROVE derived'[r] = seen'[r].gen \/ Due(r)'
  <2>1. CASE r = k
    BY <2>1, NewsFacts, Zenon
  <2>2. CASE r # k
    <3>1. r \in Kind
      BY DEF Routes, Kind
    <3>2. seen'[r] = seen[r] /\ (Due(r) => Due(r)')
      BY <2>2, <3>1, NewsFacts, Zenon
    <3>3. QED
      BY <1>1, <3>2 DEF Inv, Generated, Live, News
  <2>3. QED
    BY <2>1, <2>2
<1>2. ASSUME Live(seen["Route"])', world'.ref = "Backend"
      PROVE  derived'["Backend"] = seen'["Backend"].gen \/ Due("Route")' \/ Calls("Backend", "Route")'
  <2>0. {"Route", "Backend"} \subseteq Kind \ {"Gateway"} /\ "Backend" \notin Routes
    BY Zenon DEF Kind, Routes
  <2>1. CASE k = "Route"
    BY <2>1, NewsFacts
  <2>2. CASE k = "Backend"
    BY <2>0, <2>2, NewsFacts, Zenon DEF News
  <2>3. CASE k \notin {"Route", "Backend"}
    <3>1. /\ seen'["Route"] = seen["Route"] /\ seen'["Backend"] = seen["Backend"]
          /\ (Due("Route") => Due("Route")') /\ (Calls("Backend", "Route") => Calls("Backend", "Route")')
      BY <2>0, <2>3, NewsFacts, Zenon
    <3>2. Live(seen["Route"]) /\ world.ref = "Backend" /\ derived' = derived
      BY <1>2, <3>1, Zenon DEF Live, News
    <3>3. QED
      BY <3>1, <3>2, Zenon DEF Inv, Generated
  <2>4. QED
    BY <2>1, <2>2, <2>3, Zenon
<1>3. ASSUME Live(seen["MCPRoute"])'
      PROVE  \/ derived'["Secret"] = api'["Secret"].gen \/ "Secret" \in lag'
             \/ Due("MCPRoute")' \/ Calls("Secret", "MCPRoute")'
  <2>0. {"MCPRoute", "Secret"} \subseteq Kind \ {"Gateway"} /\ "Secret" \notin Routes
    BY Zenon DEF Kind, Routes
  <2>1. CASE k = "MCPRoute"
    BY <2>1, NewsFacts
  <2>2. CASE k = "Secret"
    BY <2>0, <2>2, NewsFacts, Zenon DEF News
  <2>3. CASE k \notin {"MCPRoute", "Secret"}
    <3>1. /\ seen'["MCPRoute"] = seen["MCPRoute"]
          /\ (Due("MCPRoute") => Due("MCPRoute")') /\ (Calls("Secret", "MCPRoute") => Calls("Secret", "MCPRoute")')
      BY <2>0, <2>3, NewsFacts, Zenon
    <3>2. Live(seen["MCPRoute"]) /\ derived' = derived /\ api' = api /\ ("Secret" \in lag => "Secret" \in lag')
      BY <1>3, <2>3, <3>1 DEF Live, News
    <3>3. QED
      BY <3>1, <3>2 DEF Inv, Generated
  <2>4. QED
    BY <2>1, <2>2, <2>3, Zenon
<1>4. QED
  BY <1>1, <1>2, <1>3, Zenon DEF Generated

(* What the route refers to has news: they are on their way to the route,  *)
(* or its part of the configuration does not depend on them.               *)
LEMMA RouteNews ==
  ASSUME Announced, Inv, NEW k \in Kind \ {"Route", "Gateway"}, News(k)
  PROVE  OnTheWay' \/ \A c \in Part("Route") : FilterConfig(seen)'[c] = FilterConfig(seen)[c]
<1> DEFINE R == {"Route", "Backend", "BSP", "Secret", "QuotaPolicy"}
<1>1. /\ Part("Route") = R /\ R \in SUBSET Content /\ R \subseteq Kind
  BY Zenon DEF Part, Content, Kind
<1>2. /\ world' = world /\ world \in Worlds /\ world.ref \in {"Backend", "Pool"}
      /\ world.ref = "Pool" => "BSP" \notin world.kinds
  BY PropagationAssumption, Zenon DEF Inv, TypeOK, News, Announced
<1>3. /\ seen'[k] = api[k] /\ (\A j \in Kind \ {k} : seen'[j] = seen[j])
      /\ Due(k)' /\ \A d : seen'[k].on => Calls(k, d)'
  BY NewsFacts, ZenonT(30)
<1>4. ~Never.on /\ (seen["BSP"].on \/ api["BSP"].on => "BSP" \in world.kinds)
  <2>1. ~Never.on
    BY DEF Never
  <2>2. Sound(seen["BSP"], "BSP") /\ Sound(api["BSP"], "BSP")
    BY ZenonT(30) DEF Inv, Objects, Kind
  <2>3. QED
    BY <2>1, <2>2, ZenonT(30) DEF Sound
<1>5. CASE k \notin R
  <2>1. \A c \in R : seen'[c] = seen[c]
    BY <1>1, <1>3, <1>5
  <2>2. \A c \in R : Included(seen, c)' <=> Included(seen, c)
    BY <1>2, <2>1 DEF Included, BackendFound, injectQuotaPolicyCostExpressions,
         backendWithMaybeBSP, bspToFilterAPIBackendAuth, Live
  <2>3. QED
    BY <1>1, <1>2, <2>1, <2>2, PartKept, ZenonT(30)
<1>6. CASE k = "QuotaPolicy"
  BY <1>3, <1>6, Zenon DEF OnTheWay, News, Routes
<1>7. CASE k = "Backend"
  <2>1. api["Backend"].on
    BY <1>7, Zenon DEF News, Routes
  <2>2. CASE world.ref = "Backend"
    BY <1>2, <1>3, <1>7, <2>1, <2>2, Zenon DEF OnTheWay
  <2>3. CASE world.ref = "Pool"
    <3>1. \A c \in R \ {"Backend"} : seen'[c] = seen[c]
      BY <1>1, <1>3, <1>7
    <3>2. \A c \in R : Included(seen, c)' <=> Included(seen, c)
      BY <1>2, <2>3, <3>1 DEF Included, BackendFound, injectQuotaPolicyCostExpressions,
           backendWithMaybeBSP, bspToFilterAPIBackendAuth, Live
    <3>3. ~Included(seen, "Backend")
      BY <2>3, Zenon DEF Included
    <3>4. \A c \in R : Included(seen, c) => seen'[c] = seen[c]
      BY <3>1, <3>3, ZenonT(30)
    <3>5. QED
      BY <1>1, <1>2, <3>2, <3>4, PartKept, ZenonT(30)
  <2>4. QED
    BY <1>2, <2>2, <2>3, Zenon
<1>8. CASE k \in {"BSP", "Secret"} /\ (world.ref = "Backend" => ~seen["Backend"].on)
  <2>1. api[k].on
    BY <1>8, Zenon DEF News, Routes
  <2>2. \A c \in {"Route", "Backend", "QuotaPolicy"} : seen'[c] = seen[c]
    BY <1>1, <1>3, <1>8, Zenon
  <2>3. CASE world.ref = "Backend"
    <3>1. \A c \in R \ {"Route"} : ~Included(seen, c) /\ ~Included(seen, c)'
      BY <1>2, <1>8, <2>2, <2>3, Zenon DEF Included, BackendFound, injectQuotaPolicyCostExpressions,
           backendWithMaybeBSP
    <3>2. Included(seen, "Route")' <=> Included(seen, "Route")
      BY <2>2, Zenon DEF Included, Live
    <3>3. QED
      BY <1>1, <1>2, <2>2, <3>1, <3>2, PartKept, ZenonT(60)
  <2>4. CASE world.ref = "Pool"
    <3>1. ~seen["BSP"].on /\ k = "Secret"
      BY <1>2, <1>4, <1>8, <2>1, <2>4, Zenon
    <3>2. \A c \in R \ {"Secret"} : seen'[c] = seen[c]
      BY <1>1, <1>3, <3>1, Zenon
    <3>3. \A c \in R : Included(seen, c)' <=> Included(seen, c)
      BY <1>2, <3>1, <3>2 DEF Included, BackendFound, injectQuotaPolicyCostExpressions,
           backendWithMaybeBSP, bspToFilterAPIBackendAuth, Live
    <3>4. ~Included(seen, "Secret")
      BY <3>1, Zenon DEF Included
    <3>5. \A c \in R : Included(seen, c) => seen'[c] = seen[c]
      BY <3>2, <3>4, ZenonT(30)
    <3>6. QED
      BY <1>1, <1>2, <3>3, <3>5, PartKept, ZenonT(30)
  <2>5. QED
    BY <1>2, <2>3, <2>4
<1>9. CASE k = "BSP" /\ world.ref = "Backend" /\ seen["Backend"].on
  <2>1. seen'["BSP"].on /\ seen'["Backend"].on
    BY <1>1, <1>3, <1>9, Zenon DEF News, Routes
  <2>2. QED
    BY <1>2, <1>3, <1>9, <2>1, Zenon DEF OnTheWay
<1>10. CASE k = "Secret" /\ world.ref = "Backend" /\ seen["Backend"].on
  <2>1. /\ seen'["Secret"].on /\ \A c \in R \ {"Secret"} : seen'[c] = seen[c]
    BY <1>1, <1>3, <1>10, Zenon DEF News, Routes
  <2>2. CASE seen["BSP"].on
    BY <1>2, <1>3, <1>10, <2>1, <2>2, Zenon DEF OnTheWay
  <2>3. CASE ~seen["BSP"].on
    <3>1. \A c \in R : Included(seen, c)' <=> Included(seen, c)
      BY <1>2, <2>1, <2>3 DEF Included, BackendFound, injectQuotaPolicyCostExpressions,
           backendWithMaybeBSP, bspToFilterAPIBackendAuth, Live
    <3>2. ~Included(seen, "Secret")
      BY <2>3, Zenon DEF Included
    <3>3. \A c \in R : Included(seen, c) => seen'[c] = seen[c]
      BY <2>1, <3>2, ZenonT(30)
    <3>4. QED
      BY <1>1, <1>2, <3>1, <3>3, PartKept, ZenonT(30)
  <2>4. QED
    BY <2>2, <2>3, Zenon
<1>11. QED
  BY <1>5, <1>6, <1>7, <1>8, <1>9, <1>10, Zenon

LEMMA NewsConfigured ==
  ASSUME Announced, Inv, NEW k \in Kind, News(k)
  PROVE  Configured'
<1>1. k = "Gateway" => Told("Gateway")'
  BY NewsFacts
<1>2. SUFFICES ASSUME k # "Gateway", seen["Gateway"].on, lost = {}, ~Told("Gateway")' PROVE Configured'
  <2>1. k # "Gateway" => seen'["Gateway"] = seen["Gateway"]
    BY NewsFacts, Zenon DEF Kind
  <2>2. QED
    BY <1>1, <2>1, Zenon DEF Configured, RightFor, News
<1>3. ~Told("Gateway")
  BY <1>2, NewsFacts DEF Kind
<1>4. ASSUME NEW C, \A c \in C : FilterConfig(seen)'[c] = FilterConfig(seen)[c], Same(C) PROVE Same(C)'
  BY <1>4, NewsFacts, Zenon DEF Same
<1>5. Same({"GatewayConfig"})' \/ Calls("GatewayConfig", "Gateway")'
  <2>0. "GatewayConfig" \in Kind /\ "Gateway" \in Kind /\ "GatewayConfig" \notin Routes
    BY DEF Kind, Routes
  <2>1. CASE k = "GatewayConfig"
    BY <2>0, <2>1, NewsFacts, Zenon DEF News
  <2>2. CASE k # "GatewayConfig"
    <3>1. /\ seen'["GatewayConfig"] = seen["GatewayConfig"]
          /\ Calls("GatewayConfig", "Gateway") => Calls("GatewayConfig", "Gateway")'
      BY <2>0, <2>2, NewsFacts
    <3>2. Included(seen, "GatewayConfig")' <=> Included(seen, "GatewayConfig")
      BY <3>1, Zenon DEF Included, fetchGatewayConfig
    <3>3. {"GatewayConfig"} \in SUBSET Content /\ world' = world
      BY DEF Content, News
    <3>4. \A c \in {"GatewayConfig"} : FilterConfig(seen)'[c] = FilterConfig(seen)[c]
      BY <3>1, <3>2, <3>3, PartKept, Zenon
    <3>5. Same({"GatewayConfig"}) => Same({"GatewayConfig"})'
      BY <1>4, <3>4, Zenon
    <3>6. Same({"GatewayConfig"}) \/ Calls("GatewayConfig", "Gateway")
      BY <1>2, <1>3, Zenon DEF Inv, Configured
    <3>7. QED
      BY <3>1, <3>5, <3>6, Zenon
  <2>3. QED
    BY <2>1, <2>2
<1>6. ASSUME NEW r \in Routes PROVE RightFor(r)'
  <2>1. /\ r \in Kind \ {"Gateway"} /\ "Gateway" \in Kind /\ RightFor(r) /\ InHand(r) /\ Behind(r)
        /\ Sound(seen[r], r) /\ Part(r)' = Part(r)
        /\ seen[r].gen \in Nat /\ api[r].gen \in Nat
    <3>1. r \in Kind \ {"Gateway"} /\ "Gateway" \in Kind /\ Part(r)' = Part(r)
      BY Zenon DEF Routes, Kind, Part
    <3>2. seen[r] \in Object /\ api[r] \in Object
      BY <3>1, Typed, Zenon DEF Inv
    <3>3. seen[r].gen \in Nat /\ api[r].gen \in Nat
      BY <3>2, Generation, ZenonT(30)
    <3>4. QED
      BY <1>2, <3>1, <3>3, ZenonT(60) DEF Inv, Configured, Jobs, Cached, Objects
  <2>2. /\ job' = job /\ api' = api /\ world' = world /\ queue \subseteq queue'
    BY ZenonT(30) DEF News
  <2>3. \/ Live(seen[r]) /\ job[r].at # "drop" /\ api[r].on /\ seen[r].on /\ ~seen[r].del
        \/ ~Live(seen[r])
    <3>1. SUFFICES ASSUME Live(seen[r]) PROVE job[r].at # "drop" /\ api[r].on
      BY ZenonT(30) DEF Live
    <3>2. job[r].at # "drop"
      BY <2>1, <3>1, ZenonT(30) DEF InHand
    <3>3. seen[r].gen # 0 /\ seen[r].gen <= api[r].gen
      BY <2>1, <3>1, ZenonT(30) DEF Sound, Behind, Live
    <3>4. api[r].gen > 0
      BY <2>1, <3>3, Later, ZenonT(30)
    <3>5. QED
      BY <2>1, <3>1, <3>2, <3>4, ZenonT(30) DEF Behind
  <2>4. ~Live(seen[r]) /\ ~Live(seen[r])' /\ Same(Part(r)) => Same(Part(r))'
    BY <1>4, <2>1, <2>2, PartEmpty, ZenonT(30)
  <2>5. (~seen[r].on \/ job[r].at = "drop" \/ ~api[r].on) => Same(Part(r))
    BY <1>3, <2>1, Zenon DEF RightFor
  <2>6. Sends(r, "Gateway") => Sends(r, "Gateway")'
    BY <2>1, NewsFacts, Zenon
  <2>7. CASE r = k
    <3>1. seen'[r] = api[r] /\ r \in queue' /\ (seen'[r].on => Calls(r, "Gateway")')
      BY <2>7, NewsFacts, Zenon DEF News
    <3>2. ASSUME ~seen'[r].on \/ job'[r].at = "drop" \/ ~api'[r].on PROVE Same(Part(r))'
      <4>1. ~api[r].on => ~Live(seen[r])
        BY <2>1, <2>7, Zenon DEF Behind, News
      <4>2. job[r].at = "drop" => ~Live(seen[r]) /\ seen[r].gen > 0
        BY <2>1, Zenon DEF InHand
      <4>3. ~Live(seen[r]) /\ ~Live(api[r])
        BY <2>1, <2>2, <3>1, <3>2, <4>1, <4>2, ZenonT(30) DEF Behind, Live
      <4>4. ~Live(seen[r])'
        BY <3>1, <4>3 DEF Live
      <4>5. Same(Part(r))
        BY <2>2, <2>5, <3>1, <3>2, Zenon
      <4>6. QED
        BY <2>4, <4>3, <4>4, <4>5, Zenon
    <3>3. Live(seen[r])' => Calls(r, "Gateway")'
      BY <3>1, Zenon DEF Live
    <3>4. QED
      BY <2>1, <3>1, <3>2, <3>3, Zenon DEF RightFor
  <2>8. CASE r # k /\ ~Live(seen[r])
    <3>1. seen'[r] = seen[r] /\ ~Live(seen[r])'
      <4>1. seen'[r] = seen[r]
        BY <2>1, <2>8, NewsFacts, Zenon
      <4>2. QED
        BY <2>8, <4>1 DEF Live
    <3>2. Same(Part(r)) => Same(Part(r))'
      BY <2>4, <2>8, <3>1, Zenon
    <3>3. seen[r].del => Same(Part(r)) \/ Sends(r, "Gateway") \/ r \in queue
      BY <1>3, <2>1, Zenon DEF RightFor
    <3>4. seen'[r].del => Same(Part(r))' \/ Sends(r, "Gateway")' \/ r \in queue'
      BY <2>2, <2>6, <3>1, <3>2, <3>3, Zenon
    <3>5. ~seen'[r].on \/ job'[r].at = "drop" \/ ~api'[r].on => Same(Part(r))'
      BY <2>2, <2>5, <3>1, <3>2, Zenon
    <3>6. QED
      BY <2>1, <3>1, <3>4, <3>5, Zenon DEF RightFor
  <2>9. CASE r # k /\ Live(seen[r])
    <3>1. seen'[r] = seen[r] /\ (Calls(r, "Gateway") => Calls(r, "Gateway")')
      BY <2>1, <2>9, NewsFacts, Zenon
    <3>2. seen'[r].on /\ ~seen'[r].del /\ job'[r].at # "drop" /\ api'[r].on
      BY <2>2, <2>3, <2>9, <3>1, Zenon
    <3>3. Same(Part(r)) \/ Calls(r, "Gateway") \/ (r = "Route" /\ OnTheWay)
      BY <1>3, <2>1, <2>9, Zenon DEF RightFor
    <3>4. CASE r = "MCPRoute"
      <4>1. {"MCPRoute"} \in SUBSET Content /\ Part(r) = {"MCPRoute"}
        BY <3>4 DEF Part, Content
      <4>2. Included(seen, "MCPRoute")' <=> Included(seen, "MCPRoute")
        BY <3>1, <3>4, Zenon DEF Included, mcpConfig, Live
      <4>3. \A c \in Part(r) : FilterConfig(seen)'[c] = FilterConfig(seen)[c]
        BY <2>2, <3>1, <3>4, <4>1, <4>2, PartKept, Zenon
      <4>4. Same(Part(r))' \/ Calls(r, "Gateway")'
        BY <1>4, <2>1, <3>1, <3>3, <3>4, <4>3, Zenon
      <4>5. QED
        BY <2>1, <3>2, <4>4, Zenon DEF RightFor
    <3>5. CASE r = "Route"
      <4>1. OnTheWay' \/ \A c \in Part(r) : FilterConfig(seen)'[c] = FilterConfig(seen)[c]
        BY <1>2, <2>9, <3>5, RouteNews, Zenon
      <4>2. OnTheWay => OnTheWay'
        <5>1. /\ {"Backend", "BSP", "Secret", "QuotaPolicy", "Route"} \subseteq Kind
              /\ {"Backend", "BSP", "Secret", "QuotaPolicy"} \cap (Routes \cup {"Gateway"}) = {}
          BY DEF Kind, Routes
        <5>2. \A j \in {"Backend", "BSP", "Secret", "QuotaPolicy"}, d \in Kind : Calls(j, d) => Calls(j, d)'
          <6>1. SUFFICES ASSUME NEW j \in {"Backend", "BSP", "Secret", "QuotaPolicy"}, NEW d \in Kind,
                                Calls(j, d)
                         PROVE  Calls(j, d)'
            OBVIOUS
          <6>2. CASE j = k
            BY <5>1, <6>2, NewsFacts, Zenon DEF News
          <6>3. CASE j # k
            BY <5>1, <6>1, <6>3, NewsFacts
          <6>4. QED
            BY <6>2, <6>3, Zenon
        <5>3. \A j \in {"Backend", "BSP"} : seen[j].on => seen'[j].on
          BY <5>1, NewsFacts, Zenon
        <5>4. QED
          BY <2>2, <5>1, <5>2, <5>3, Zenon DEF OnTheWay
      <4>3. Same(Part(r))' \/ Calls(r, "Gateway")' \/ OnTheWay'
        BY <1>4, <2>1, <3>1, <3>3, <4>1, <4>2, Zenon
      <4>4. QED
        BY <2>1, <3>2, <3>5, <4>3, Zenon DEF RightFor
    <3>6. QED
      BY <3>4, <3>5 DEF Routes
  <2>10. QED
    BY <2>7, <2>8, <2>9, Zenon
<1>7. QED
  BY <1>5, <1>6, Zenon DEF Configured

LEMMA WatchStep ==
  ASSUME Announced, Inv, NEW k \in Kind, Watch(k)
  PROVE  Inv'
<1>1. /\ k \in lag /\ lag' = lag \ {k} /\ seen' = [seen EXCEPT ![k] = api[k]]
      /\ UNCHANGED <<world, api, chan, job, draft, config, derived, lost, events>>
      /\ \/ (seen[k].on # api[k].on \/ seen[k].gen # api[k].gen) /\ queue' = queue \cup Concerns(k)
         \/ seen[k].on = api[k].on /\ seen[k].gen = api[k].gen /\ queue' = queue
  BY DEF Watch
<1>2. /\ TypeOK /\ Behind(k) /\ Sound(api[k], k) /\ Sound(seen[k], k) /\ api[k] \in Object /\ seen[k] \in Object
  BY Typed, ZenonT(30) DEF Inv, Cached, Objects
<1>3. seen[k].gen \in Nat /\ \A j \in Kind : api[j].gen \in Nat
  BY <1>2, Typed, Generation, ZenonT(30)
<1>4. seen' \in [Kind -> Object] /\ seen'[k] = api[k] /\ \A j \in Kind \ {k} : seen'[j] = seen[j]
  BY <1>1, <1>2, Zenon DEF TypeOK
<1>5. queue \subseteq queue' /\ queue' \subseteq Kind
  <2>1. Concerns(k) \subseteq Kind
    BY DEF Concerns, BackendToQuotaPolicy, PoolEventHandlers, Kind
  <2>2. QED
    BY <1>1, <1>2, <2>1, Zenon DEF TypeOK
<1>6. TypeOK'
  BY <1>1, <1>2, <1>4, <1>5, Zenon DEF TypeOK
<1>7. Objects'
  BY <1>1, <1>4, ZenonT(30) DEF Inv, Objects, Sound
<1>8. ASSUME NEW j \in Kind PROVE Behind(j)'
  <2>1. CASE j = k
    <3>1. seen'[j] = api'[j] /\ j \notin lag' /\ api' = api
      BY <1>1, <1>4, <2>1, Zenon
    <3>2. api[j].gen <= api[j].gen
      BY <1>3
    <3> QED
      BY <3>1, <3>2, Zenon DEF Behind, Live
  <2>2. CASE j # k
    BY <1>1, <1>4, <2>2, Zenon DEF Inv, Cached, Behind, Live
  <2>3. QED
    BY <2>1, <2>2
<1>9. seen[k].on = api[k].on /\ seen[k].gen = api[k].gen => Alike(api[k], seen[k])
  BY <1>2, Zenon DEF Behind, Alike
<1>10. seen[k].on # api[k].on \/ seen[k].gen # api[k].gen => News(k)
  <2>1. SUFFICES ASSUME seen[k].on # api[k].on \/ seen[k].gen # api[k].gen PROVE News(k)
    BY Zenon
  <2>2. k \in queue'
    BY <1>1, <2>1, Zenon DEF Concerns
  <2>3. api[k].gen > 0
    <3>1. SUFFICES ASSUME api[k].gen = 0 PROVE FALSE
      BY <1>3, SMTT(30)
    <3>2. seen[k].gen = 0
      <4>1. seen[k].gen <= api[k].gen
        BY <1>2, ZenonT(30) DEF Behind
      <4>2. QED
        BY <1>3, <3>1, <4>1, SMTT(30)
    <3>3. ~api[k].on /\ ~seen[k].on /\ api[k].on \in BOOLEAN /\ seen[k].on \in BOOLEAN
      BY <1>2, <3>1, <3>2, ObjectType DEF Sound
    <3>4. QED
      BY <2>1, <3>1, <3>2, <3>3, ZenonT(30)
  <2>4. k \notin Routes \cup {"Gateway"} => api[k].on
    BY <1>2, <2>3, Zenon DEF Sound
  <2>5. QED
    BY <1>1, <1>5, <2>2, <2>3, <2>4, Zenon DEF News
<1>11. Jobs'
  <2>1. ASSUME NEW j \in Kind \ {"Gateway"} PROVE InHand(j)'
    <3>1. InHand(j)
      BY DEF Inv, Jobs
    <3>2. CASE j # k
      <4>1. Live(seen[j])' = Live(seen[j]) /\ seen'[j] = seen[j]
        BY <1>4, <3>2 DEF Live
      <4>2. QED
        BY <1>1, <1>5, <3>1, <4>1, Zenon DEF InHand
    <3>3. CASE j = k
      <4>1. Live(seen[k])' = Live(api[k])
        BY <1>4, ZenonT(30) DEF Live
      <4>2. seen[k].gen > 0 /\ ~Live(seen[k]) => ~Live(api[k]) /\ api[k].gen > 0
        <5>1. seen[k].gen <= api[k].gen
          BY <1>2, ZenonT(30) DEF Behind
        <5>2. QED
          BY <1>2, <1>3, <5>1, Later, ZenonT(30) DEF Behind
      <4>3. /\ job[k].at # "idle" /\ k \in Routes /\ Live(api[k])
               => job[k].obj.gen = api[k].gen \/ k \in queue'
        <5>1. CASE seen[k].on # api[k].on \/ seen[k].gen # api[k].gen
          BY <1>10, <5>1, Zenon DEF News
        <5>2. CASE seen[k].on = api[k].on /\ seen[k].gen = api[k].gen
          <6>1. Live(api[k]) => Live(seen[k])
            BY <1>9, <5>2, Zenon DEF Alike, Live
          <6>2. QED
            BY <1>5, <3>1, <3>3, <5>2, <6>1, Zenon DEF InHand
        <5>3. QED
          BY <5>1, <5>2, Zenon
      <4>4. /\ job[k].at # "idle" /\ k \in Routes /\ api[k].del => job[k].obj.del \/ k \in queue'
        <5>1. CASE seen[k].on # api[k].on \/ seen[k].gen # api[k].gen
          BY <1>10, <5>1, Zenon DEF News
        <5>2. CASE seen[k].on = api[k].on /\ seen[k].gen = api[k].gen
          BY <1>5, <1>9, <3>1, <3>3, <5>2, Zenon DEF InHand, Alike
        <5>3. QED
          BY <5>1, <5>2, Zenon
      <4>5. QED
        BY <1>1, <1>4, <3>1, <3>3, <4>1, <4>2, <4>3, <4>4, Zenon DEF InHand
    <3>4. QED
      BY <3>2, <3>3, Zenon
  <2>2. QED
    BY <1>1, <2>1, Zenon DEF Inv, Jobs
<1>12. Configured' /\ Generated'
  <2>1. CASE News(k)
    BY <2>1, NewsConfigured, NewsGenerated, Zenon
  <2>2. CASE ~News(k)
    <3>1. seen[k].on = api[k].on /\ seen[k].gen = api[k].gen
      BY <1>10, <2>2, Zenon
    <3>2. SameCache
      <4>1. ASSUME NEW j \in Kind PROVE Alike(seen'[j], seen[j])
        <5>1. CASE j = k
          BY <1>4, <1>9, <3>1, <5>1, Zenon
        <5>2. CASE j # k
          BY <1>4, <5>2, Zenon DEF Alike
        <5>3. QED
          BY <5>1, <5>2, Zenon
      <4>2. QED
        BY <1>1, <4>1, Zenon DEF SameCache
    <3>3. \A j \in Kind : Resting(j)
      BY <1>1, <1>5, Zenon DEF Resting, Told
    <3>4. {} \in SUBSET (Kind \ {"Gateway"}) /\ \A j \in Kind \ {} : Resting(j)
      BY <3>3
    <3>5. Configured'
      BY <1>1, <3>2, <3>4, Frame, Zenon
    <3>6. {} \in SUBSET Kind
      OBVIOUS
    <3>7. k # "Secret" /\ ("Secret" \in lag => "Secret" \in lag') /\ api' = api
      BY <1>1, <1>2, <3>1, Zenon DEF Behind
    <3>8. Generated'
      BY <1>1, <3>2, <3>4, <3>6, <3>7, FrameGenerated, Zenon
    <3>9. QED
      BY <3>5, <3>8, Zenon
  <2>3. QED
    BY <2>1, <2>2, Zenon
<1>13. QED
  BY <1>6, <1>7, <1>8, <1>11, <1>12, Zenon DEF Inv, Cached

-----------------------------------------------------------------------------
(* The theorems.                                                           *)
LEMMA ExistingFacts ==
  ASSUME NEW k \in Kind
  PROVE  /\ Existing(k) \in Object /\ Existing(k).on /\ ~Existing(k).del /\ Existing(k).gen = 1
         /\ (k \notin Finalized => ~Existing(k).fin)
         /\ Never \in Object /\ ~Never.on /\ ~Never.del /\ ~Never.fin /\ Never.gen = 0
<1>1. 0 \in 0..MaxEvents + 1 /\ 1 \in 0..MaxEvents + 1
  BY PropagationAssumption
<1> DEFINE f == k \in Finalized
           e == [on |-> TRUE, gen |-> 1, del |-> FALSE, fin |-> f]
<1>2. f \in BOOLEAN
  OBVIOUS
<1>3. Existing(k) = e
  BY DEF Existing
<1>4. ~(k \in Finalized) => ~f
  OBVIOUS
<1> HIDE DEF f
<1>5. e \in Object /\ e.on /\ ~e.del /\ e.gen = 1 /\ e.fin = f
  BY <1>1, <1>2, Zenon DEF Object
<1> HIDE DEF e
<1>6. Never \in Object /\ ~Never.on /\ ~Never.del /\ ~Never.fin /\ Never.gen = 0
  BY <1>1, Zenon DEF Object, Never
<1>7. QED
  BY <1>3, <1>4, <1>5, <1>6, Zenon

LEMMA InvInit ==
  ASSUME Init
  PROVE  Inv
<1>1. PICK missing \in SUBSET world.kinds :
        api = [k \in Kind |-> IF k \in world.kinds \ missing THEN Existing(k) ELSE Never]
  BY Zenon DEF Init
<1>2. /\ world \in Worlds /\ seen = api /\ lag = {} /\ queue = {} /\ chan = [k \in Kind |-> 0]
      /\ job = [k \in Kind |-> Idle] /\ config = FilterConfig(api) /\ draft = [k \in Content |-> 0]
      /\ derived = [k \in Derived |-> api[k].gen] /\ lost = {} /\ events = 0
  BY Zenon DEF Init
<1>3. /\ api \in [Kind -> Object] /\ \A k \in Kind : ~api[k].del /\ api[k].gen \in {0, 1}
  BY <1>1, ExistingFacts, Zenon
<1>4. \A k \in Kind : Sound(api[k], k)
  BY <1>1, ExistingFacts DEF Sound
<1>5. 0 \in 0..MaxEvents + 1 /\ 1 \in 0..MaxEvents + 1 /\ 0 \in 0..MaxEvents /\ 0 \in 0..Cap
  BY PropagationAssumption
<1>6. config \in [Content -> 0..MaxEvents + 1]
  <2>1. \A k \in Content : Version(api[k]) \in 0..MaxEvents + 1
    BY <1>3, <1>5, Zenon DEF Version, Content, Kind
  <2>2. QED
    BY <1>2, <1>5, <2>1, Zenon DEF FilterConfig
<1>7. derived \in [Derived -> 0..MaxEvents + 1]
  BY <1>2, <1>3, <1>5, Zenon DEF Derived, Kind
<1>8. TypeOK
  BY <1>2, <1>3, <1>5, <1>6, <1>7, IdleFacts, Zenon DEF TypeOK
<1>9. \A k \in Kind : job[k].at = "idle"
  BY <1>2, IdleFacts, ZenonT(30)
<1>10. Objects
  <2>1. events = 0 /\ \A k \in Kind : api[k].gen \in {0, 1}
    BY <1>2, <1>3, ZenonT(30)
  <2>2. \A k \in Kind : api[k].gen <= events + 1
    BY <2>1
  <2>3. QED
    BY <1>2, <1>4, <2>2, ZenonT(30) DEF Objects
<1>11. Cached
  <2>1. \A k \in Kind : api[k].gen <= api[k].gen
    BY <1>3
  <2>2. QED
    BY <1>2, <2>1, ZenonT(30) DEF Cached, Behind, Live
<1>12. Jobs
  BY <1>9, Zenon DEF Jobs, InHand, Kind
<1>13. \A C : Same(C)
  BY <1>2, <1>9, Zenon DEF Same, Newest, Kind
<1>14. Configured
  <2>1. \A r \in Routes : ~seen[r].del
    BY <1>2, <1>3, Zenon DEF Routes, Kind
  <2>2. QED
    BY <1>13, <2>1, Zenon DEF Configured, RightFor
<1>15. Generated
  BY <1>2, Zenon DEF Generated, Routes, Derived
<1>16. QED
  BY <1>8, <1>10, <1>11, <1>12, <1>14, <1>15, Zenon DEF Inv

LEMMA InvStep ==
  ASSUME Announced, Inv, [Next]_vars
  PROVE  Inv'
<1>1. CASE UNCHANGED vars
  <2>1. UNCHANGED <<world, api, seen, lag, queue, chan, job, draft, config, derived, lost, events>>
    BY <1>1 DEF vars
  <2>2. TypeOK /\ TypeOK'
    BY <2>1, Zenon DEF Inv, TypeOK
  <2>3. SameCache /\ \A j \in Kind : Resting(j)
    <3>1. SameCache
      BY <2>1, NothingMoves
    <3>2. \A j \in Kind : Resting(j)
      BY <2>1, Zenon DEF Resting, Told
    <3>3. QED
      BY <3>1, <3>2, Zenon
  <2>4. Objects' /\ Cached'
    BY <2>1, <2>2, Counts, ObjectsKept
  <2>5. Jobs'
    BY <2>1, <2>3, InHandKept, Zenon DEF Inv, Jobs
  <2>6. {} \in SUBSET (Kind \ {"Gateway"}) /\ \A j \in Kind \ {} : Resting(j)
    BY <2>3
  <2>7. Configured'
    BY <2>1, <2>3, <2>6, Frame, Zenon
  <2>8. {} \in SUBSET Kind
    OBVIOUS
  <2>9. Generated'
    BY <2>1, <2>3, <2>6, <2>8, FrameGenerated, Zenon
  <2>10. QED
    BY <2>2, <2>4, <2>5, <2>7, <2>9, Zenon DEF Inv
<1>2. ASSUME NEW k \in Kind, Create(k) \/ Edit(k) \/ Delete(k) \/ Watch(k) \/ Deliver(k) PROVE Inv'
  BY <1>2, CreateStep, EditStep, DeleteStep, WatchStep, DeliverStep, Zenon
<1>3. ASSUME NEW k \in Kind, Reconcile(k) PROVE Inv'
  BY <1>3, StartStep, AddFinalizerStep, SyncSucceedsStep, SyncFailsStep, SendStep, SendFailsStep,
     DropFinalizerStep, FinishStep, Zenon DEF Reconcile
<1>4. CASE ReconcileGateway
  BY <1>4, GatewayReadsStep, GatewayEndsStep, Zenon DEF ReconcileGateway
<1>5. CASE Restart
  BY <1>5, RestartStep
<1>6. QED
  BY <1>1, <1>2, <1>3, <1>4, <1>5, Zenon DEF Next

(* In a cluster whose changes the controllers announce every object, queue,*)
(* channel and reconcile is what it should be: no event channel overflows  *)
(* and generations stay within the bound.                                  *)
THEOREM TypeCorrect ==
  ASSUME Announced
  PROVE  Spec => []TypeOK
<1>1. Init => Inv
  BY InvInit
<1>2. Inv /\ [Next]_vars => Inv'
  BY InvStep
<1>3. Inv => TypeOK
  BY DEF Inv
<1>4. QED
  BY <1>1, <1>2, <1>3, PTL DEF Spec

(* In such a cluster no change is lost between the informers' cache and    *)
(* the gateway: whenever the controllers of StartControllers have nothing  *)
(* left to do, the configuration, the generated HTTPRoutes and the MCP     *)
(* credential are those of the objects as they are, after any changes,     *)
(* deletions of routes and of the gateway, failed calls, full channels and *)
(* restarts, unless the gateway has not been reconciled since a call       *)
(* failed whose error the code only logs: that of the deletion of a route  *)
(* (controller.go:598-602), or of a QuotaPolicy to its routes.             *)
THEOREM RestSettled ==
  ASSUME Announced
  PROVE  Spec => []RestIsSettled
<1>1. Init => Inv
  BY InvInit
<1>2. Inv /\ [Next]_vars => Inv'
  BY InvStep
<1>3. Inv => RestIsSettled
  <2>1. SUFFICES ASSUME Inv, AtRest, lost = {} PROVE Settled
    BY Zenon DEF RestIsSettled
  <2>2. lag = {} /\ queue = {} /\ \A k \in Kind : chan[k] = 0 /\ job[k].at = "idle"
    BY <2>1, Zenon DEF AtRest
  <2>3. seen = api
    <3>1. \A k \in Kind : seen[k] = api[k]
      BY <2>1, <2>2, Zenon DEF Inv, Cached, Behind
    <3>2. QED
      BY <2>1, <3>1 DEF Inv, TypeOK
  <2>4. /\ \A k \in Kind : ~Told(k) /\ ~Due(k)
        /\ \A k \in Kind : \A d : ~Sends(k, d) /\ ~Calls(k, d)
    BY <2>2 DEF Told, Due, Sends, Calls
  <2>5. {"Gateway", "Route", "MCPRoute", "Backend", "BSP", "Secret", "QuotaPolicy", "GatewayConfig"} \subseteq Kind
    BY Zenon DEF Kind
  <2>6. ASSUME api["Gateway"].on PROVE config = Desired
    <3>1. Newest = config
      BY <2>2, <2>5, Zenon DEF Newest
    <3>2. Same({"GatewayConfig"})
      BY <2>1, <2>3, <2>4, <2>5, <2>6, Zenon DEF Inv, Configured
    <3>3. ~OnTheWay
      BY <2>4, <2>5 DEF OnTheWay
    <3>4. ASSUME NEW r \in Routes PROVE Same(Part(r))
      <4>1. r \in Kind /\ RightFor(r)
        BY <2>1, <2>3, <2>5, <2>6, Zenon DEF Inv, Configured, Routes
      <4>2. Live(seen[r]) \/ seen[r].del \/ ~seen[r].on
        BY Zenon DEF Live
      <4>3. QED
        BY <2>2, <2>4, <2>5, <3>3, <4>1, <4>2, Zenon DEF RightFor
    <3>5. ASSUME NEW c \in Content PROVE config[c] = FilterConfig(seen)[c]
      <4>1. c \in {"GatewayConfig"} \/ c \in Part("Route") \/ c \in Part("MCPRoute")
        BY Zenon DEF Content, Part
      <4>2. QED
        BY <3>1, <3>2, <3>4, <4>1, Zenon DEF Same, Routes
    <3>6. config \in [Content -> 0..MaxEvents + 1]
      BY <2>1, Zenon DEF Inv, TypeOK
    <3>7. QED
      BY <2>3, <3>5, <3>6, Zenon DEF Desired, FilterConfig
  <2>7. \A k \in {"Route", "MCPRoute"} : Live(api[k]) => derived[k] = api[k].gen
    BY <2>1, <2>3, <2>4, <2>5, Zenon DEF Inv, Generated, Routes
  <2>8. Live(api["Route"]) /\ world.ref = "Backend" => derived["Backend"] = api["Backend"].gen
    BY <2>1, <2>3, <2>4, <2>5, Zenon DEF Inv, Generated
  <2>9. Live(api["MCPRoute"]) => derived["Secret"] = api["Secret"].gen
    BY <2>1, <2>2, <2>3, <2>4, <2>5, Zenon DEF Inv, Generated
  <2>10. QED
    BY <2>6, <2>7, <2>8, <2>9, Zenon DEF Settled
<1>4. QED
  BY <1>1, <1>2, <1>3, PTL DEF Spec
=============================================================================
