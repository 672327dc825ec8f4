------------------------ MODULE MCPResources_proofs ------------------------
(***************************************************************************)
(* Proofs about MCPResources, for any routes and backends, any choice of   *)
(* the user and any number of changes and failures.                        *)
(***************************************************************************)
EXTENDS MCPResources_calls

-----------------------------------------------------------------------------
(* One call after the other.                                               *)

(* For a route that is not being reconciled no call is coming.             *)
LEMMA Elsewhere ==
  ASSUME NEW r, task.route # r
  PROVE  /\ \A c : ~Coming(r, c)
         /\ ~ListComing(r)
         /\ \A o, w : Provided(r, o, w) => made[o] = w
         /\ \A o : Removed(r, o) => made[o] = "nil"
         /\ \A b, p, w : Made(r, b, p, w) => made[Obj(r, p, b)] = w
         /\ \A b, p : ~Dropped(r, b, p)
  BY Zenon DEF Coming, ListComing, Provided, Removed, Made, Dropped

LEMMA Idle ==
  ASSUME Names, NEW r \in MCPRoutes, task = NoTask
  PROVE  task.route # r
  BY DEF Names, NoTask

(* The head of the calls is made: what was coming is the head, or it still *)
(* is coming.                                                              *)
LEMMA Moves ==
  ASSUME Names, Working, task # NoTask, Proceed(Tail(task.todo))
  PROVE  /\ \A r \in MCPRoutes : \A c : Coming(r, c) => (r = task.route /\ c = Head(task.todo)) \/ Coming(r, c)'
         /\ \A r : r = task.route => \A c : Has(Tail(task.todo), c) => Coming(r, c)'
         /\ task'.route # task.route => task' = NoTask
         /\ task' # NoTask => /\ task' \in [route : MCPRoutes, spec : Spec1, todo : Seq(Calls)] /\ task'.todo # <<>>
                              /\ task'.route = task.route /\ task'.spec = task.spec /\ task'.todo = Tail(task.todo)
<1> DEFINE rest == Tail(task.todo)
<1>1. /\ task \in [route : MCPRoutes, spec : Spec1, todo : Seq(Calls)] /\ task.todo # <<>>
      /\ Planned(task.todo, task.route, task.spec)
  BY Zenon DEF Working
<1>2. /\ Planned(rest, task.route, task.spec)
      /\ \A c : Has(task.todo, c) => c = Head(task.todo) \/ Has(rest, c)
  BY <1>1, Rest, Zenon
<1>3. rest \in Seq(Calls)
  BY <1>2, Zenon DEF Planned
<1>4. task' = IF rest = <<>> THEN NoTask ELSE [task EXCEPT !.todo = rest]
  BY Zenon DEF Proceed
<1> HIDE DEF rest
<1>5. CASE rest = <<>>
  <2>1. \A c : ~Has(rest, c)
    BY <1>5, Empty DEF Has
  <2> QED
    BY <1>2, <1>4, <1>5, <2>1 DEF Coming, rest
<1>6. CASE rest # <<>>
  <2>1. /\ task' \in [route : MCPRoutes, spec : Spec1, todo : Seq(Calls)]
        /\ task'.route = task.route /\ task'.spec = task.spec /\ task'.todo = rest
    BY <1>1, <1>3, <1>4, <1>6
  <2> QED
    BY <1>2, <1>6, <2>1, Zenon DEF Coming, rest
<1> QED
  BY <1>5, <1>6, Zenon

(* What a call other than the list does to the objects.                    *)
Wrote(c) ==
  /\ made' \in [Object -> Content] /\ lag' \subseteq Object /\ lag \subseteq lag'
  /\ \A o \in Object : o # Target(c) => made'[o] = made[o] /\ (o \in lag' => o \in lag)
  /\ \A o \in Object : o \notin lag' => made'[o] = made[o]
  /\ c.verb \in {"put", "drop"} => made'[c.obj] = c.val
  /\ c.verb = "ensure" /\ c.obj # Proxy => made'[c.obj] = c.val
  /\ c.verb = "ensure" /\ c.obj = Proxy => made'[Proxy] = c.val \/ (seenMade[Proxy] # "nil" /\ made'[Proxy] = made[Proxy])
  /\ c.verb = "cleanup" => made'[c.obj] = "nil" \/ (seenMade[c.obj] = "nil" /\ made'[c.obj] = made[c.obj])
  /\ c.verb = "unlink" => made'[Target(c)] = "nil" \/ (seenMade[c.obj] # "key" /\ made'[Target(c)] = made[Target(c)])
  /\ c.verb = "release" => \/ made'[Proxy] = made[Proxy]
                           \/ \A r \in MCPRoutes \ {task.route} : seenSpec[r].is # "live"
  /\ c.verb = "finalize" => made' = made

LEMMA WriteFacts ==
  ASSUME ResourcesTypeOK, NEW o \in Object, NEW val \in Content, WriteObject(o, val)
  PROVE  /\ made' \in [Object -> Content] /\ lag' \subseteq Object /\ lag \subseteq lag'
         /\ \A x \in Object : x # o => made'[x] = made[x] /\ (x \in lag' => x \in lag)
         /\ \A x \in Object : x \notin lag' => made'[x] = made[x]
         /\ made'[o] = val
  BY SMTT(30) DEF WriteObject, ResourcesTypeOK

LEMMA SameFacts ==
  ASSUME ResourcesTypeOK, UNCHANGED <<made, lag>>, NEW o
  PROVE  /\ made' \in [Object -> Content] /\ lag' \subseteq Object /\ lag \subseteq lag'
         /\ \A x \in Object : x # o => made'[x] = made[x] /\ (x \in lag' => x \in lag)
         /\ \A x \in Object : x \notin lag' => made'[x] = made[x]
         /\ made' = made
  BY DEF ResourcesTypeOK

(* What a call is about, by its verb.                                      *)
LEMMA ByVerb ==
  ASSUME NEW c, NEW r, NEW s, Fits(c, r, s)
  PROVE  /\ c.verb \in {"ensure", "list", "put", "unlink", "drop", "cleanup", "release", "finalize"}
         /\ c.verb \in {"release", "finalize"} => s.is = "deleting" /\ c.obj = Proxy
         /\ c.verb \notin {"release", "finalize"} => s.is = "live"
         /\ c.verb = "ensure" =>
              \/ c = ensureMCPProxyBackend /\ c.obj = Proxy
              \/ c.obj \in Of(r) /\ c.obj.part # "cred" /\ c.val = Asked(s, c.obj) /\ c.val # "nil"
         /\ c.verb = "put" => c.obj \in Of(r) /\ c.obj.part = "cred" /\ c.val = "set" /\ s.refs[c.obj.of] = "key"
         /\ c.verb = "unlink" => c.obj \in Of(r) /\ c.obj.part = "filter" /\ s.refs[c.obj.of] = "plain"
         /\ c.verb = "drop" =>
              c.obj \in Of(r) /\ c.obj.part \in OfBackend /\ c.val = "nil" /\ s.refs[c.obj.of] = "absent"
         /\ c.verb = "cleanup" =>
              c.obj \in Of(r) /\ c.obj.part \in OfRoute /\ c.val = "nil" /\ Asked(s, c.obj) = "nil"
<1>1. ensureMCPProxyBackend.verb = "ensure" /\ ensureMCPProxyBackend.obj = Proxy
  BY CallFacts DEF ensureMCPProxyBackend
<1>2. listExistingPerBackendHTTPRoutes(r).verb = "list"
  BY CallFacts DEF listExistingPerBackendHTTPRoutes
<1> QED
  BY <1>1, <1>2 DEF Fits

(* The target of such a call: an object of the route, or the proxy.        *)
LEMMA Targets ==
  ASSUME Names, NEW r \in MCPRoutes, NEW s, NEW c \in Calls, Fits(c, r, s), c.verb # "list"
  PROVE  /\ Target(c) \in Object /\ c.obj \in Object /\ c.val \in Content
         /\ Target(c) = Proxy \/ (s.is = "live" /\ Target(c) \in Of(r))
         /\ c.verb # "unlink" => Target(c) = c.obj
         /\ c.verb = "unlink" => Target(c) = [c.obj EXCEPT !.part = "cred"] /\ c.obj \in Of(r)
<1>1. c.val \in Content
  BY DEF Calls
<1>2. \/ s.is = "deleting" /\ c.verb \in {"release", "finalize"} /\ c.obj = Proxy
      \/ s.is = "live" /\ c.verb = "ensure" /\ c.obj = Proxy
      \/ s.is = "live" /\ c.verb # "unlink" /\ c.obj \in Of(r)
      \/ s.is = "live" /\ c.verb = "unlink" /\ c.obj \in Of(r) /\ c.obj.part = "filter"
  BY ByVerb, ZenonT(30)
<1>3. ASSUME NEW o \in Of(r), o.part = "filter"
      PROVE  /\ Beside(o, "cred") \in Of(r) /\ Beside(o, "cred") = [o EXCEPT !.part = "cred"]
  <2>1. o \in [route : MCPRoutes, part : OfBackend, of : Backends] /\ o.route = r
    BY <1>3 DEF Of, Object, OfRoute, OAuthParts
  <2>2. Beside(o, "cred") = [o EXCEPT !.part = "cred"]
    BY <2>1 DEF Beside, Obj
  <2>3. Beside(o, "cred") \in Of(r)
    BY <2>1 DEF Beside, Obj, Of, Object, OfBackend
  <2> QED
    BY <2>2, <2>3
<1>4. \A o \in Of(r) : o \in Object
  BY DEF Of
<1> QED
  BY <1>1, <1>2, <1>3, <1>4, ProxyFacts DEF Target

LEMMA Written ==
  ASSUME Names, ResourcesTypeOK, Working, task # NoTask, NEW c, c = Head(task.todo),
         Ensure(c) \/ Cleanup(c) \/ Put(c) \/ Unlink(c) \/ ReleaseProxy(c) \/ Finalize(c)
  PROVE  Wrote(c) /\ c.verb # "list"
<1>1. task.route \in MCPRoutes /\ c \in Calls /\ Fits(c, task.route, task.spec)
  <2>1. task \in [route : MCPRoutes, spec : Spec1, todo : Seq(Calls)] /\ task.todo # <<>>
    BY Zenon DEF Working
  <2>2. Planned(task.todo, task.route, task.spec)
    BY Zenon DEF Working
  <2>3. task.route \in MCPRoutes
    BY <2>1
  <2> QED
    BY <2>1, <2>2, <2>3, Rest, Zenon
<1>2. c.verb # "list"
  BY DEF Ensure, Cleanup, Put, Unlink, ReleaseProxy, Finalize
<1>3. /\ Target(c) \in Object /\ c.obj \in Object /\ c.val \in Content
      /\ c.verb # "unlink" => Target(c) = c.obj
      /\ c.verb = "unlink" => Target(c) = [c.obj EXCEPT !.part = "cred"]
  BY <1>1, <1>2, Targets, Zenon
<1>4. "nil" \in Content /\ Proxy \in Object
  BY ProxyFacts DEF Content
<1>5. CASE Ensure(c)
  <2>1. c.verb = "ensure"
    BY <1>5 DEF Ensure
  <2>2. CASE c.obj = Proxy /\ seenMade[Proxy] # "nil"
    <3>1. UNCHANGED <<made, lag>>
      BY <1>5, <2>2 DEF Ensure
    <3> QED
      BY <2>1, <2>2, <3>1, SameFacts DEF Wrote
  <2>3. CASE ~(c.obj = Proxy /\ seenMade[Proxy] # "nil")
    <3>1. WriteObject(c.obj, c.val)
      BY <1>5, <2>3, Zenon DEF Ensure
    <3>2. Target(c) = c.obj
      BY <1>3, <2>1
    <3> QED
      BY <1>3, <2>1, <3>1, <3>2, WriteFacts DEF Wrote
  <2> QED
    BY <1>2, <2>2, <2>3
<1>6. CASE Cleanup(c)
  <2>1. c.verb = "cleanup" /\ Target(c) = c.obj
    BY <1>3, <1>6 DEF Cleanup
  <2>2. CASE seenMade[c.obj] = "nil"
    <3>1. UNCHANGED <<made, lag>>
      BY <1>6, <2>2 DEF Cleanup
    <3> QED
      BY <2>1, <2>2, <3>1, SameFacts DEF Wrote
  <2>3. CASE seenMade[c.obj] # "nil"
    <3>1. WriteObject(c.obj, "nil")
      BY <1>6, <2>3, Zenon DEF Cleanup
    <3> QED
      BY <1>3, <1>4, <2>1, <3>1, WriteFacts DEF Wrote
  <2> QED
    BY <1>2, <2>2, <2>3
<1>7. CASE Put(c)
  <2>1. c.verb \in {"put", "drop"} /\ Target(c) = c.obj /\ WriteObject(c.obj, c.val)
    BY <1>3, <1>7 DEF Put
  <2> QED
    BY <1>2, <1>3, <2>1, WriteFacts DEF Wrote
<1>8. CASE Unlink(c)
  <2>1. c.verb = "unlink" /\ Target(c) = [c.obj EXCEPT !.part = "cred"]
    BY <1>3, <1>8 DEF Unlink
  <2>2. CASE seenMade[c.obj] # "key"
    <3>1. UNCHANGED <<made, lag>>
      BY <1>8, <2>2 DEF Unlink
    <3> QED
      BY <2>1, <2>2, <3>1, SameFacts DEF Wrote
  <2>3. CASE seenMade[c.obj] = "key"
    <3>1. WriteObject(Target(c), "nil")
      BY <1>8, <2>1, <2>3, Zenon DEF Unlink
    <3> QED
      BY <1>3, <1>4, <2>1, <3>1, WriteFacts DEF Wrote
  <2> QED
    BY <1>2, <2>2, <2>3
<1>9. CASE ReleaseProxy(c)
  <2>1. c.verb = "release" /\ Target(c) = c.obj
    BY <1>3, <1>9 DEF ReleaseProxy
  <2>2. c.obj = Proxy
    BY <1>1, <2>1, ByVerb, ZenonT(30)
  <2>3. CASE UNCHANGED <<made, lag>>
    BY <2>1, <2>3, SameFacts DEF Wrote
  <2>4. CASE ~UNCHANGED <<made, lag>>
    <3>1. WriteObject(Proxy, "nil") /\ \A r \in MCPRoutes \ {task.route} : seenSpec[r].is # "live"
      BY <1>9, <2>4 DEF ReleaseProxy
    <3> QED
      BY <1>4, <2>1, <2>2, <3>1, WriteFacts DEF Wrote
  <2> QED
    BY <1>2, <2>3, <2>4
<1>10. CASE Finalize(c)
  <2>1. c.verb = "finalize" /\ UNCHANGED <<made, lag>>
    BY <1>10 DEF Finalize
  <2> QED
    BY <1>2, <2>1, SameFacts DEF Wrote
<1> QED
  BY <1>5, <1>6, <1>7, <1>8, <1>9, <1>10, Zenon

-----------------------------------------------------------------------------
(* A call other than the list keeps the invariant.                         *)
Called(c) ==
  /\ task # NoTask /\ c = Head(task.todo) /\ c.verb # "list" /\ Wrote(c) /\ Proceed(Tail(task.todo))
  /\ UNCHANGED <<scenario, seenSpec, seenMade, queue, failures, changes>>

AtHead(c, R) ==
  /\ R = task.route /\ R \in MCPRoutes /\ task.spec \in Spec1 /\ c \in Calls /\ Fits(c, R, task.spec)
  /\ Target(c) \in Object
  /\ Target(c) = Proxy \/ (task.spec.is = "live" /\ Target(c) \in Of(R))
  /\ \A x : Coming(R, x) => Fits(x, R, task.spec)
  /\ \A x : Coming(R, x) => x = c \/ (Coming(R, x)' /\ Target(c) \notin Reads(x))
  /\ \A r \in MCPRoutes : \A x : Coming(r, x) => (r = R /\ x = c) \/ Coming(r, x)'
  /\ scenario.prompt => \A x : Coming(R, x) => Reads(x) \cap lag = {}
  /\ Coming(R, c)
  /\ \A x : Then(task.todo, 1, x) => Coming(R, x)'

LEMMA HeadFacts ==
  ASSUME Names, Inv, NEW c, Called(c), NEW R, R = task.route
  PROVE  AtHead(c, R)
<1> DEFINE s == task.spec
           rest == Tail(task.todo)
<1>1. /\ task \in [route : MCPRoutes, spec : Spec1, todo : Seq(Calls)] /\ task.todo # <<>>
      /\ Planned(task.todo, R, s)
      /\ scenario.prompt => \A i \in 1..Len(task.todo) : Reads(task.todo[i]) \cap lag = {}
  BY Zenon DEF Inv, Working, Called
<1>2. R \in MCPRoutes /\ s \in Spec1
  BY <1>1
<1>3. /\ c \in Calls /\ Fits(c, R, s) /\ c = task.todo[1] /\ 1 \in 1..Len(task.todo)
      /\ \A x : Has(task.todo, x) <=> x = c \/ Has(rest, x)
      /\ \A i \in 1..Len(rest) : Target(c) \notin Reads(rest[i])
      /\ \A x : Then(task.todo, 1, x) => Has(rest, x)
  BY <1>1, Rest, Zenon DEF Called
<1>4. /\ \A r \in MCPRoutes : \A x : Coming(r, x) => (r = R /\ x = c) \/ Coming(r, x)'
      /\ \A x : Has(rest, x) => Coming(R, x)'
  BY Moves, Zenon DEF Inv, Called
<1>5. \A x : Coming(R, x) <=> Has(task.todo, x)
  BY Zenon DEF Coming
<1>6. \A x : Has(rest, x) => Target(c) \notin Reads(x)
  BY <1>3, Zenon DEF Has
<1>7. \A x : Has(task.todo, x) => Fits(x, R, s)
  BY <1>1, Zenon DEF Has, Planned
<1>8. scenario.prompt => \A x : Has(task.todo, x) => Reads(x) \cap lag = {}
  BY <1>1, Zenon DEF Has
<1>9. Target(c) \in Object /\ (Target(c) = Proxy \/ (s.is = "live" /\ Target(c) \in Of(R)))
  <2>1. c \in Calls /\ Fits(c, R, s) /\ R \in MCPRoutes
    BY <1>2, <1>3, Zenon
  <2>2. c.verb # "list"
    BY Zenon DEF Called
  <2> HIDE DEF s, rest
  <2> QED
    BY <2>1, <2>2, Targets, Zenon
<1> HIDE DEF s, rest
<1>10. \A x : Coming(R, x) => x = c \/ (Coming(R, x)' /\ Target(c) \notin Reads(x))
  BY <1>3, <1>4, <1>5, <1>6, Zenon
<1>11. Coming(R, c) /\ \A x : Then(task.todo, 1, x) => Coming(R, x)'
  BY <1>3, <1>4, <1>5, Zenon
<1>12. scenario.prompt => \A x : Coming(R, x) => Reads(x) \cap lag = {}
  BY <1>5, <1>8, Zenon
<1>13. \A x : Coming(R, x) => Fits(x, R, s)
  BY <1>5, <1>7, Zenon
<1> QED
  BY <1>2, <1>3, <1>4, <1>9, <1>10, <1>11, <1>12, <1>13, Zenon DEF AtHead, s

(* The objects of other routes stay; those of the route stay or become     *)
(* what it asks for.                                                       *)
LEMMA Effect ==
  ASSUME Names, Inv, NEW c, Called(c)
  PROVE  /\ \A r \in MCPRoutes \ {task.route} : \A o \in Of(r) : made'[o] = made[o]
         /\ task.spec.is = "live" => \A o \in Of(task.route) : made'[o] = made[o] \/ made'[o] = Asked(task.spec, o)
<1> DEFINE s == task.spec
<1>0. PICK R : R = task.route
  OBVIOUS
<1>1. AtHead(c, R) /\ Wrote(c) /\ c.verb # "list"
  BY <1>0, HeadFacts, Zenon DEF Called
<1>2. \A r \in MCPRoutes : \A o \in Of(r) : o \in Object /\ o # Proxy /\ o.route = r
  BY ProxyFacts DEF Names, Of
<1>3. \A r \in MCPRoutes \ {R} : \A o \in Of(r) : o # Target(c)
  BY <1>1, <1>2 DEF AtHead
<1>4. \A r \in MCPRoutes \ {R} : \A o \in Of(r) : made'[o] = made[o]
  BY <1>1, <1>2, <1>3 DEF Wrote
<1>5. ASSUME s.is = "live", NEW o \in Of(R) PROVE made'[o] = made[o] \/ made'[o] = Asked(s, o)
  <2>1. R \in MCPRoutes /\ s \in Spec1 /\ Fits(c, R, s) /\ o \in Object /\ o # Proxy
    BY <1>1, <1>2 DEF AtHead
  <2>2. CASE o # Target(c)
    BY <1>1, <2>1, <2>2 DEF Wrote
  <2>3. CASE o = Target(c)
    <3>1. c.verb # "unlink" => c.obj = o
      BY <2>3 DEF Target
    <3>2. CASE c.verb = "ensure"
      <4>1. c.val = Asked(s, o)
        BY <2>1, <3>1, <3>2, ByVerb, ZenonT(30)
      <4> QED
        BY <1>1, <2>1, <3>1, <3>2, <4>1 DEF Wrote
    <3>3. CASE c.verb = "put"
      <4>1. c.val = "set" /\ o.part = "cred" /\ s.refs[o.of] = "key"
        BY <2>1, <3>1, <3>3, ByVerb, ZenonT(30)
      <4>2. Asked(s, o) = "set"
        BY <4>1 DEF Asked, Wanted, OAuthParts
      <4> QED
        BY <1>1, <3>1, <3>3, <4>1, <4>2 DEF Wrote
    <3>4. CASE c.verb = "drop"
      <4>1. c.val = "nil" /\ o.part \in OfBackend /\ s.refs[o.of] = "absent"
        BY <2>1, <3>1, <3>4, ByVerb, ZenonT(30)
      <4>2. Asked(s, o) = "nil"
        BY <4>1 DEF Asked, Wanted, OAuthParts, OfBackend
      <4> QED
        BY <1>1, <3>1, <3>4, <4>1, <4>2 DEF Wrote
    <3>5. CASE c.verb = "cleanup"
      <4>1. Asked(s, o) = "nil"
        BY <2>1, <3>1, <3>5, ByVerb, ZenonT(30)
      <4> QED
        BY <1>1, <3>1, <3>5, <4>1 DEF Wrote
    <3>6. CASE c.verb = "unlink"
      <4>1. c.obj.part = "filter" /\ s.refs[c.obj.of] = "plain"
        BY <2>1, <3>6, ByVerb, ZenonT(30)
      <4>2. o.part = "cred" /\ o.of = c.obj.of
        BY <2>3, <3>6, ObjFacts DEF Target, Beside
      <4>3. Asked(s, o) = "nil"
        BY <4>1, <4>2 DEF Asked, Wanted, OAuthParts
      <4> QED
        BY <1>1, <2>3, <3>6, <4>3 DEF Wrote
    <3>7. CASE c.verb \in {"release", "finalize"}
      <4>1. c.obj = Proxy
        BY <2>1, <3>7, ByVerb, ZenonT(30)
      <4> QED
        BY <2>1, <3>1, <3>7, <4>1
    <3> QED
      BY <1>1, <3>2, <3>3, <3>4, <3>5, <3>6, <3>7 DEF AtHead, Calls
  <2> QED
    BY <2>2, <2>3
<1> QED
  BY <1>0, <1>4, <1>5, Zenon

(* A call leaves the routes alone, or the route is gone after it.          *)
Went ==
  \/ UNCHANGED <<spec, lagSpec>>
  \/ /\ spec' \in [MCPRoutes -> Spec1] /\ spec'[task.route].is = "gone" /\ lagSpec' = lagSpec \cup {task.route}
     /\ \A r \in MCPRoutes \ {task.route} : spec'[r] = spec[r]

LEMMA CallCached ==
  ASSUME Names, Inv, NEW c, Called(c), Went
  PROVE  Cached'
<1>1. task.route \in MCPRoutes
  BY HeadFacts, Zenon DEF AtHead
<1>2. \A o \in Object \ lag' : seenMade'[o] = made'[o]
  <2>1. \A o \in Object \ lag' : made'[o] = made[o] /\ o \notin lag
    BY DEF Called, Wrote
  <2> QED
    BY <2>1 DEF Called, Inv, Cached
<1>3. \A r \in MCPRoutes : r \notin lagSpec' => seenSpec'[r] = spec'[r]
  BY <1>1 DEF Went, Called, Inv, Cached
<1>4. \A r \in MCPRoutes : seenSpec'[r].is \in {"deleting", "gone"} => spec'[r].is \in {"deleting", "gone"}
  BY <1>1 DEF Went, Called, Inv, Cached
<1> QED
  BY <1>2, <1>3, <1>4, Zenon DEF Cached

LEMMA CallWorking ==
  ASSUME Names, Inv, NEW c, Called(c)
  PROVE  Working'
<1> SUFFICES ASSUME task' # NoTask PROVE Working'
  BY Zenon DEF Working
<1>1. /\ task' \in [route : MCPRoutes, spec : Spec1, todo : Seq(Calls)] /\ task'.todo # <<>>
      /\ task'.route = task.route /\ task'.spec = task.spec /\ task'.todo = Tail(task.todo)
  BY Moves, Zenon DEF Inv, Called
<1>2. /\ task.todo # <<>> /\ Planned(task.todo, task.route, task.spec)
      /\ task.route \notin queue => task.spec = seenSpec[task.route]
      /\ task.spec.is = "deleting" => seenSpec[task.route].is \in {"deleting", "gone"}
      /\ scenario.prompt => \A i \in 1..Len(task.todo) : Reads(task.todo[i]) \cap lag = {}
  BY Zenon DEF Inv, Working, Called
<1>3. /\ Planned(Tail(task.todo), task.route, task.spec)
      /\ \A x : Has(Tail(task.todo), x) => Has(task.todo, x)
      /\ \A i \in 1..Len(Tail(task.todo)) : Target(c) \notin Reads(Tail(task.todo)[i])
  BY <1>2, Rest, Zenon DEF Called
<1>4. scenario.prompt => \A i \in 1..Len(Tail(task.todo)) : Reads(Tail(task.todo)[i]) \cap lag = {}
  <2>1. \A i \in 1..Len(Tail(task.todo)) : Has(Tail(task.todo), Tail(task.todo)[i])
    BY Zenon DEF Has
  <2>2. scenario.prompt => \A x : Has(task.todo, x) => Reads(x) \cap lag = {}
    BY <1>2, Zenon DEF Has
  <2> QED
    BY <1>3, <2>1, <2>2, Zenon
<1>5. scenario.prompt => \A i \in 1..Len(Tail(task.todo)) : Reads(Tail(task.todo)[i]) \cap lag' = {}
  <2>1. \A o \in lag' : o \in lag \/ o = Target(c)
    BY Zenon DEF Called, Wrote
  <2> QED
    BY <1>3, <1>4, <2>1
<1>6. UNCHANGED <<scenario, seenSpec, queue>>
  BY DEF Called
<1> QED
  BY <1>1, <1>2, <1>3, <1>5, <1>6 DEF Working

LEMMA CallComplete ==
  ASSUME Names, Inv, NEW c, Called(c), Went
  PROVE  Complete'
<1>0. PICK R : R = task.route
  OBVIOUS
<1>1. AtHead(c, R) /\ Wrote(c) /\ c.verb # "list" /\ UNCHANGED <<seenSpec, queue>>
  BY <1>0, HeadFacts, Zenon DEF Called
<1>2. R \in MCPRoutes
  BY <1>1 DEF AtHead
<1>3. ASSUME NEW r \in MCPRoutes, seenSpec'[r].is = "live", spec'[r].is # "gone", r \notin queue',
             NEW o \in Of(r), NEW w, w = Asked(seenSpec'[r], o), w # "nil"
      PROVE  Provided(r, o, w)'
  <2>1. seenSpec[r].is = "live" /\ r \notin queue /\ w # "nil" /\ w = Asked(seenSpec[r], o)
    BY <1>1, <1>3
  <2>2. spec[r].is # "gone"
    BY <1>0, <1>2, <1>3 DEF Went
  <2>3. Provided(r, o, w)
    BY <2>1, <2>2, Zenon DEF Inv, Complete
  <2>4. o \in Object /\ o # Proxy
    BY ProxyFacts DEF Names, Of
  <2>5. CASE r # R
    <3>1. made[o] = w /\ made'[o] = made[o]
      BY <1>0, <2>3, <2>5, Elsewhere, Effect, Zenon
    <3> QED
      BY <2>1, <3>1, Zenon DEF Provided
  <2>6. CASE r = R
    <3>1. task.spec = seenSpec[r]
      BY <1>0, <1>1, <2>1, <2>6, Zenon DEF Inv, Working, Called
    <3>2. CASE made[o] = w
      <4>1. made'[o] = w
        BY <1>0, <2>1, <2>6, <3>1, <3>2, Effect, Zenon
      <4> QED
        BY <2>1, <4>1, Zenon DEF Provided
    <3>3. CASE Coming(r, Call("ensure", o, w))
      <4>1. Coming(r, Call("ensure", o, w))' \/ c = Call("ensure", o, w)
        BY <1>1, <3>3, Zenon DEF AtHead
      <4>2. ASSUME c = Call("ensure", o, w) PROVE made'[o] = w
        BY <1>1, <2>4, <4>2, CallFacts DEF Wrote
      <4> QED
        BY <2>1, <4>1, <4>2, Zenon DEF Provided
    <3>4. CASE Coming(r, Call("put", o, w))
      <4>1. Coming(r, Call("put", o, w))' \/ c = Call("put", o, w)
        BY <1>1, <3>4, Zenon DEF AtHead
      <4>2. ASSUME c = Call("put", o, w) PROVE made'[o] = w
        BY <1>1, <4>2, CallFacts DEF Wrote
      <4> QED
        BY <2>1, <4>1, <4>2, Zenon DEF Provided
    <3>5. CASE o.part # "main" /\ ListComing(r)
      <4>1. listExistingPerBackendHTTPRoutes(r).verb = "list"
        BY CallFacts DEF listExistingPerBackendHTTPRoutes
      <4>2. ListComing(r)'
        BY <1>1, <3>5, <4>1, Zenon DEF ListComing, AtHead
      <4> QED
        BY <3>5, <4>2, Zenon DEF Provided
    <3> QED
      BY <2>3, <3>2, <3>3, <3>4, <3>5, Zenon DEF Provided
  <2> QED
    BY <2>5, <2>6
<1> QED
  BY <1>3, Zenon DEF Complete, Provided, Coming, ListComing

LEMMA CallShared ==
  ASSUME Names, Inv, NEW c, Called(c)
  PROVE  Shared'
<1>0. PICK R : R = task.route
  OBVIOUS
<1>1. AtHead(c, R) /\ Wrote(c) /\ UNCHANGED <<scenario, seenSpec, queue>>
  BY <1>0, HeadFacts, Zenon DEF Called
<1>2. ASSUME scenario.prompt, NEW r \in MCPRoutes, seenSpec[r].is = "live", r \notin queue
      PROVE  made'[Proxy] # "nil" \/ Coming(r, ensureMCPProxyBackend)'
  <2>1. made[Proxy] # "nil" \/ Coming(r, ensureMCPProxyBackend)
    BY <1>2, Zenon DEF Inv, Shared
  <2>2. /\ ensureMCPProxyBackend.verb = "ensure" /\ ensureMCPProxyBackend.obj = Proxy
        /\ ensureMCPProxyBackend.val = "set"
    BY CallFacts DEF ensureMCPProxyBackend
  <2>3. CASE c = ensureMCPProxyBackend
    <3>1. Proxy \notin lag /\ Proxy \in Object
      <4>1. Reads(c) = {Proxy}
        BY <2>2, <2>3 DEF Reads
      <4> QED
        BY <1>1, <1>2, <4>1, ProxyFacts DEF AtHead
    <3>2. seenMade[Proxy] = made[Proxy]
      BY <3>1, Zenon DEF Inv, Cached
    <3> QED
      BY <1>1, <2>2, <2>3, <3>2 DEF Wrote
  <2>4. CASE c # ensureMCPProxyBackend /\ Coming(r, ensureMCPProxyBackend)
    BY <1>1, <2>4, Zenon DEF AtHead
  <2>5. CASE c # ensureMCPProxyBackend /\ made[Proxy] # "nil"
    <3>1. CASE Target(c) # Proxy
      BY <1>1, <2>5, <3>1, ProxyFacts DEF Wrote
    <3>2. CASE Target(c) = Proxy
      <4>1. c.verb \in {"release", "finalize"} /\ task.spec.is = "deleting"
        <5>1. \A o \in Of(R) : o # Proxy
          BY <1>1, ProxyFacts DEF Names, Of, AtHead
        <5>2. Beside(c.obj, "cred") # Proxy
          BY ProxyFacts, ObjFacts DEF Beside
        <5>3. c.verb # "unlink" /\ c.obj = Proxy
          BY <3>2, <5>2 DEF Target
        <5>4. c.verb # "list"
          BY DEF Called
        <5>5. Fits(c, R, task.spec)
          BY <1>1, ZenonT(30) DEF AtHead
        <5> QED
          BY <2>5, <5>1, <5>3, <5>4, <5>5, ByVerb, ZenonT(30)
      <4>2. seenSpec[task.route].is \in {"deleting", "gone"}
        BY <4>1, Zenon DEF Inv, Working, Called
      <4>3. r # task.route
        BY <1>2, <4>2
      <4>4. made'[Proxy] = made[Proxy]
        BY <1>1, <1>2, <4>1, <4>3 DEF Wrote
      <4> QED
        BY <2>5, <4>4
    <3> QED
      BY <3>1, <3>2
  <2> QED
    BY <2>1, <2>3, <2>4, <2>5
<1> QED
  BY <1>1, <1>2, Zenon DEF Shared

(* The calls for a backend that follow the head.                           *)
NextUp(c, b, r) ==
  LET Set(p, w) == Coming(r, Call("ensure", Obj(r, p, b), w))'
      Drop(p) == Coming(r, Call("drop", Obj(r, p, b), "nil"))'
  IN  /\ c.verb = "put" /\ c.obj = Obj(r, "cred", b) => Set("filter", "key") /\ Set("http", "set")
      /\ c.verb = "ensure" /\ c.obj = Obj(r, "filter", b) => Set("http", "set")
      /\ c.verb = "drop" /\ c.obj = Obj(r, "http", b) => Drop("filter") /\ Drop("cred")
      /\ c.verb = "drop" /\ c.obj = Obj(r, "filter", b) => Drop("cred")

LEMMA Chain ==
  ASSUME NEW r, NEW s, NEW todo, Planned(todo, r, s), NEW x, Has(todo, x)
  PROVE  /\ x.verb = "ensure" /\ x.obj.part = "filter" => Has(todo, Call("ensure", Beside(x.obj, "http"), "set"))
         /\ x.verb = "drop" /\ x.obj.part = "filter" => Has(todo, Call("drop", Beside(x.obj, "cred"), "nil"))
<1>1. PICK i \in 1..Len(todo) : todo[i] = x
  BY Zenon DEF Has
<1>2. todo \in Seq(Calls) /\ Follows(todo)
  BY Zenon DEF Planned
<1>3. \A y : Then(todo, i, y) => Has(todo, y)
  BY <1>2 DEF Then, Has
<1> QED
  BY <1>1, <1>2, <1>3, Zenon DEF Follows

LEMMA Besides ==
  ASSUME NEW r, NEW p, NEW q, NEW b
  PROVE  Beside(Obj(r, p, b), q) = Obj(r, q, b)
  BY ObjFacts DEF Beside

LEMMA HeadNext ==
  ASSUME Names, Inv, NEW c, Called(c), NEW b \in Backends, NEW R, R = task.route
  PROVE  NextUp(c, b, R)
<1> DEFINE http == Obj(R, "http", b)
           filter == Obj(R, "filter", b)
           cred == Obj(R, "cred", b)
<1>1. /\ AtHead(c, R) /\ task \in [route : MCPRoutes, spec : Spec1, todo : Seq(Calls)] /\ task.todo # <<>>
      /\ Planned(task.todo, R, task.spec)
  BY HeadFacts, Zenon DEF Inv, Working, Called
<1>2. c = task.todo[1] /\ 1 \in 1..Len(task.todo) /\ Planned(Tail(task.todo), R, task.spec)
  BY <1>1, Rest, Zenon DEF Called
<1>3. /\ c.verb = "put" => Then(task.todo, 1, Call("ensure", Beside(c.obj, "filter"), "key"))
      /\ c.verb = "ensure" /\ c.obj.part = "filter" => Then(task.todo, 1, Call("ensure", Beside(c.obj, "http"), "set"))
      /\ c.verb = "drop" /\ c.obj.part = "http" => Then(task.todo, 1, Call("drop", Beside(c.obj, "filter"), "nil"))
      /\ c.verb = "drop" /\ c.obj.part = "filter" => Then(task.todo, 1, Call("drop", Beside(c.obj, "cred"), "nil"))
  BY <1>1, <1>2, Zenon DEF Planned, Follows
<1>4. \A x : Then(task.todo, 1, x) => Coming(R, x)'
  BY <1>1, Zenon DEF AtHead
<1>5. \A x : Coming(R, x)' <=> (task'.route = R /\ Has(task'.todo, x))
  BY Zenon DEF Coming
<1>6. ASSUME NEW x, Coming(R, x)'
      PROVE  /\ x.verb = "ensure" /\ x.obj.part = "filter" => Coming(R, Call("ensure", Beside(x.obj, "http"), "set"))'
             /\ x.verb = "drop" /\ x.obj.part = "filter" => Coming(R, Call("drop", Beside(x.obj, "cred"), "nil"))'
  <2>1. task'.route = R /\ Has(task'.todo, x)
    BY <1>5, <1>6, Zenon
  <2>2. R \in MCPRoutes
    BY <1>1
  <2>3. task' # NoTask
    BY <2>1, <2>2 DEF Names, NoTask
  <2>4. task'.todo = Tail(task.todo)
    BY <2>3, Moves, Zenon DEF Inv, Called
  <2>5. /\ x.verb = "ensure" /\ x.obj.part = "filter" => Has(task'.todo, Call("ensure", Beside(x.obj, "http"), "set"))
        /\ x.verb = "drop" /\ x.obj.part = "filter" => Has(task'.todo, Call("drop", Beside(x.obj, "cred"), "nil"))
    BY <1>2, <2>1, <2>4, Chain, Zenon
  <2> QED
    BY <1>5, <2>1, <2>5, Zenon
<1>7. /\ http.part = "http" /\ filter.part = "filter" /\ Beside(cred, "filter") = filter
      /\ Beside(filter, "http") = http /\ Beside(http, "filter") = filter /\ Beside(filter, "cred") = cred
  BY DEF Obj, Beside
<1>8. /\ Call("ensure", filter, "key").verb = "ensure" /\ Call("ensure", filter, "key").obj = filter
      /\ Call("drop", filter, "nil").verb = "drop" /\ Call("drop", filter, "nil").obj = filter
  BY CallFacts
<1>9. ASSUME Coming(R, Call("ensure", filter, "key"))' PROVE Coming(R, Call("ensure", http, "set"))'
  BY <1>6, <1>7, <1>8, <1>9, Zenon
<1>10. ASSUME Coming(R, Call("drop", filter, "nil"))' PROVE Coming(R, Call("drop", cred, "nil"))'
  BY <1>6, <1>7, <1>8, <1>10, Zenon
<1>11. c.verb = "put" /\ c.obj = cred => Coming(R, Call("ensure", filter, "key"))' /\ Coming(R, Call("ensure", http, "set"))'
  BY <1>3, <1>4, <1>7, <1>9, Zenon
<1>12. c.verb = "ensure" /\ c.obj = filter => Coming(R, Call("ensure", http, "set"))'
  BY <1>3, <1>4, <1>7, Zenon
<1>13. c.verb = "drop" /\ c.obj = http => Coming(R, Call("drop", filter, "nil"))' /\ Coming(R, Call("drop", cred, "nil"))'
  BY <1>3, <1>4, <1>7, <1>10, Zenon
<1>14. c.verb = "drop" /\ c.obj = filter => Coming(R, Call("drop", cred, "nil"))'
  BY <1>3, <1>4, <1>7, Zenon
<1> QED
  BY <1>11, <1>12, <1>13, <1>14, Zenon DEF NextUp, http, filter, cred

(* What a call does to the objects of a backend.                           *)
Touched(c, r, b) ==
  LET http == Obj(r, "http", b)
      filter == Obj(r, "filter", b)
      cred == Obj(r, "cred", b)
  IN  /\ \/ made'[http] = made[http]
         \/ c.verb = "ensure" /\ c.obj = http /\ made'[http] = "set"
         \/ c.verb = "drop" /\ c.obj = http /\ made'[http] = "nil"
      /\ \/ made'[filter] = made[filter]
         \/ c.verb = "ensure" /\ c.obj = filter /\ made'[filter] = task.spec.refs[b]
         \/ c.verb = "drop" /\ c.obj = filter /\ made'[filter] = "nil"
      /\ \/ made'[cred] = made[cred] \/ made'[cred] = "nil"
         \/ c.verb = "put" /\ c.obj = cred /\ made'[cred] = "set"

LEMMA Touches ==
  ASSUME Names, Inv, NEW c, Called(c), NEW b \in Backends, NEW R, R = task.route
  PROVE  Touched(c, R, b)
<1> DEFINE s == task.spec
           http == Obj(R, "http", b)
           filter == Obj(R, "filter", b)
           cred == Obj(R, "cred", b)
<1>1. AtHead(c, R) /\ Wrote(c) /\ c.verb # "list"
  BY HeadFacts, Zenon DEF Called
<1>2. R \in MCPRoutes /\ Fits(c, R, s)
  BY <1>1, Zenon DEF AtHead
<1>3. /\ http \in Object /\ filter \in Object /\ cred \in Object
      /\ http # Proxy /\ filter # Proxy /\ cred # Proxy
  BY <1>2, ProxyFacts, ObjFacts DEF Obj, Object, OfBackend
<1>4. /\ http.part = "http" /\ filter.part = "filter" /\ cred.part = "cred"
      /\ http.of = b /\ filter.of = b
  BY ObjFacts
<1>5. \A o \in Object : o # Target(c) => made'[o] = made[o]
  BY <1>1, Zenon DEF Wrote
<1>6. CASE c.verb = "unlink"
  <2>1. Target(c) = Beside(c.obj, "cred")
    BY <1>6 DEF Target
  <2>2. Target(c).part = "cred"
    BY <2>1, ObjFacts DEF Beside
  <2>3. made'[http] = made[http] /\ made'[filter] = made[filter]
    BY <1>3, <1>4, <1>5, <2>2
  <2>4. made'[Target(c)] = made[Target(c)] \/ made'[Target(c)] = "nil"
    BY <1>1, <1>6, Zenon DEF Wrote
  <2>5. made'[cred] = made[cred] \/ made'[cred] = "nil"
    BY <1>3, <1>5, <2>4, Zenon
  <2> QED
    BY <2>3, <2>5, Zenon DEF Touched
<1>7. CASE c.verb # "unlink"
  <2>0. Target(c) = c.obj
    BY <1>7 DEF Target
  <2>1. made'[http] = made[http] \/ c.obj = http
    BY <1>3, <1>5, <2>0, Zenon
  <2>2. made'[filter] = made[filter] \/ c.obj = filter
    BY <1>3, <1>5, <2>0, Zenon
  <2>3. made'[cred] = made[cred] \/ c.obj = cred
    BY <1>3, <1>5, <2>0, Zenon
  <2>4. ASSUME c.obj = http
        PROVE  \/ c.verb = "ensure" /\ c.val = "set"
               \/ c.verb = "drop" /\ c.val = "nil"
    <3>1. \/ c.verb = "ensure" /\ c.val = Asked(s, http) /\ c.val # "nil"
          \/ c.verb = "drop" /\ c.val = "nil"
      BY <1>1, <1>2, <1>3, <1>4, <1>7, <2>4, ByVerb, ZenonT(30) DEF OfRoute, OAuthParts
    <3>2. Asked(s, http) \in {"set", "nil"}
      BY <1>4 DEF Asked, Wanted, OAuthParts
    <3> QED
      BY <3>1, <3>2
  <2>5. ASSUME c.obj = filter
        PROVE  \/ c.verb = "ensure" /\ c.val = s.refs[b]
               \/ c.verb = "drop" /\ c.val = "nil"
    <3>1. \/ c.verb = "ensure" /\ c.val = Asked(s, filter) /\ c.val # "nil"
          \/ c.verb = "drop" /\ c.val = "nil"
      BY <1>1, <1>2, <1>3, <1>4, <1>7, <2>5, ByVerb, ZenonT(30) DEF OfRoute, OAuthParts
    <3>2. Asked(s, filter) \in {s.refs[b], "nil"}
      BY <1>4 DEF Asked, Wanted, OAuthParts
    <3> QED
      BY <3>1, <3>2
  <2>6. ASSUME c.obj = cred
        PROVE  \/ c.verb = "put" /\ c.val = "set"
               \/ c.verb = "drop" /\ c.val = "nil"
    BY <1>1, <1>2, <1>3, <1>4, <1>7, <2>6, ByVerb, ZenonT(30) DEF OfRoute, OAuthParts
  <2>7. /\ c.verb \in {"put", "drop"} => made'[c.obj] = c.val
        /\ c.verb = "ensure" /\ c.obj # Proxy => made'[c.obj] = c.val
    BY <1>1, Zenon DEF Wrote
  <2>8. \/ made'[http] = made[http]
        \/ c.verb = "ensure" /\ c.obj = http /\ made'[http] = "set"
        \/ c.verb = "drop" /\ c.obj = http /\ made'[http] = "nil"
    BY <1>3, <2>1, <2>4, <2>7
  <2>9. \/ made'[filter] = made[filter]
        \/ c.verb = "ensure" /\ c.obj = filter /\ made'[filter] = s.refs[b]
        \/ c.verb = "drop" /\ c.obj = filter /\ made'[filter] = "nil"
    BY <1>3, <2>2, <2>5, <2>7
  <2>10. \/ made'[cred] = made[cred] \/ made'[cred] = "nil"
         \/ c.verb = "put" /\ c.obj = cred /\ made'[cred] = "set"
    BY <1>3, <2>3, <2>6, <2>7
  <2> QED
    BY <2>8, <2>9, <2>10, Zenon DEF Touched
<1> QED
  BY <1>6, <1>7

(* A filter is not made plain while there still is a credential.           *)
LEMMA NoKeyLost ==
  ASSUME Names, Inv, Calm, NEW c, Called(c), NEW b \in Backends, NEW R, R = task.route,
         c.verb = "ensure", c.obj = Obj(R, "filter", b), task.spec.refs[b] = "plain"
  PROVE  made[Obj(R, "cred", b)] = "nil"
<1> DEFINE s == task.spec
           filter == Obj(R, "filter", b)
           cred == Obj(R, "cred", b)
           unlink == Call("unlink", Beside(cred, "filter"), "plain")
           list == listExistingPerBackendHTTPRoutes(R)
<1>1. AtHead(c, R)
  BY HeadFacts, Zenon
<1>2. R \in MCPRoutes /\ Fits(c, R, s) /\ Target(c) = filter
  BY <1>1 DEF AtHead, Target
<1>3. /\ filter \in Object /\ cred \in Of(R) /\ filter # Proxy
      /\ filter.part = "filter" /\ cred.part = "cred" /\ cred.of = b /\ Beside(cred, "filter") = filter
  BY <1>2, Objects, ObjFacts, Besides, ProxyFacts DEF OfBackend, Of
<1>4. s.is = "live"
  BY <1>2 DEF Fits
<1>5. Asked(s, cred) = "nil"
  BY <1>3 DEF Asked, Wanted, OAuthParts
<1>6. Removed(R, cred)
  <2>1. Present(R) = s
    BY DEF Present
  <2> QED
    BY <1>2, <1>3, <1>4, <1>5, <2>1, Zenon DEF Inv, Cleared
<1>7. \A x : Coming(R, x) => Fits(x, R, s) /\ (x = c \/ filter \notin Reads(x))
  BY <1>1, <1>2, Zenon DEF AtHead
<1>8. ~Coming(R, Call("drop", cred, "nil"))
  <2>1. Call("drop", cred, "nil").verb = "drop" /\ Call("drop", cred, "nil").obj = cred
    BY CallFacts
  <2>2. ASSUME NEW x, x.verb = "drop", x.obj = cred PROVE ~Fits(x, R, s)
    BY <1>3, <1>4, <2>2, ByVerb, ZenonT(30)
  <2> QED
    BY <1>7, <2>1, <2>2, Zenon
<1>9. ~Coming(R, Call("cleanup", cred, "nil"))
  <2>1. Call("cleanup", cred, "nil").verb = "cleanup" /\ Call("cleanup", cred, "nil").obj = cred
    BY CallFacts
  <2>2. ASSUME NEW x, x.verb = "cleanup", x.obj = cred PROVE ~Fits(x, R, s)
    BY <1>3, <1>4, <2>2, ByVerb, ZenonT(30) DEF OfRoute, OAuthParts
  <2> QED
    BY <1>7, <2>1, <2>2, Zenon
<1>10. ~Coming(R, unlink)
  <2>1. unlink.verb = "unlink" /\ unlink.obj = filter
    BY <1>3, CallFacts
  <2>2. unlink # c /\ filter \in Reads(unlink)
    BY <2>1 DEF Reads
  <2> QED
    BY <1>7, <2>2, Zenon
<1>11. ~Coming(R, list)
  <2>1. list.verb = "list"
    BY CallFacts DEF listExistingPerBackendHTTPRoutes
  <2>2. list # c /\ filter \in Reads(list)
    BY <1>3, <2>1 DEF Reads
  <2> QED
    BY <1>7, <2>2, Zenon
<1> QED
  BY <1>6, <1>8, <1>9, <1>10, <1>11, Zenon DEF Removed, ListComing

LEMMA CallTied ==
  ASSUME Names, Inv, NEW c, Called(c)
  PROVE  Tied'
<1>0. PICK R : R = task.route
  OBVIOUS
<1> DEFINE TiedTo(r, b) ==
             /\ made[Obj(r, "cred", b)] # "nil" =>
                  (Made(r, b, "filter", "key") /\ Made(r, b, "http", "set")) \/ Dropped(r, b, "cred")
             /\ made[Obj(r, "filter", b)] # "nil" => Made(r, b, "http", "set") \/ Dropped(r, b, "filter")
<1>1. AtHead(c, R) /\ Wrote(c) /\ UNCHANGED <<scenario, failures>>
  BY <1>0, HeadFacts, Zenon DEF Called
<1>2. SUFFICES ASSUME Calm, NEW r \in MCPRoutes, NEW b \in Backends PROVE TiedTo(r, b)'
  <2>1. Calm' <=> Calm
    BY <1>1, Zenon DEF Calm
  <2> QED
    BY <1>2, <2>1, Zenon DEF Tied
<1>3. TiedTo(r, b)
  BY <1>2, Zenon DEF Inv, Tied
<1>4. CASE r # R
  <2>1. \A p \in OfBackend : Obj(r, p, b) \in Of(r)
    BY Objects, Zenon
  <2>2. \A p \in OfBackend : made'[Obj(r, p, b)] = made[Obj(r, p, b)]
    BY <1>0, <1>4, <2>1, Effect, Zenon
  <2>3. /\ made'[Obj(r, "cred", b)] = made[Obj(r, "cred", b)]
        /\ made'[Obj(r, "filter", b)] = made[Obj(r, "filter", b)]
        /\ made'[Obj(r, "http", b)] = made[Obj(r, "http", b)]
    BY <2>2 DEF OfBackend
  <2>4. /\ \A p, w : Made(r, b, p, w) => made[Obj(r, p, b)] = w
        /\ \A p : ~Dropped(r, b, p)
    BY <1>0, <1>4, Elsewhere, Zenon
  <2> QED
    BY <1>3, <2>3, <2>4, Zenon DEF Made
<1>5. CASE r = R
  <2> DEFINE http == Obj(R, "http", b)
             filter == Obj(R, "filter", b)
             cred == Obj(R, "cred", b)
  <2>1. Touched(c, R, b) /\ NextUp(c, b, R)
    BY <1>0, Touches, HeadNext, Zenon
  <2>2. \A x : Coming(R, x) => x = c \/ Coming(R, x)'
    BY <1>1, Zenon DEF AtHead
  <2>3. /\ http \in Object /\ filter \in Object /\ cred \in Object
        /\ http # Proxy /\ filter # Proxy /\ cred # Proxy
    BY ProxyFacts, ObjFacts, <1>5 DEF Obj, Object, OfBackend
  <2>4. ASSUME NEW o \in Object, o # Proxy, NEW w, c = Call("ensure", o, w) PROVE made'[o] = w
    BY <1>1, <2>4, CallFacts DEF Wrote
  <2>5. ASSUME NEW o, c = Call("drop", o, "nil") PROVE made'[o] = "nil"
    BY <1>1, <2>5, CallFacts DEF Wrote
  <2>6. Made(R, b, "http", "set") => Made(R, b, "http", "set")' \/ (c.verb = "drop" /\ c.obj = http)
    BY <2>1, <2>2, <2>3, <2>4, Zenon DEF Made, Touched
  <2>7. /\ c.verb = "drop" /\ c.obj = http => Dropped(R, b, "filter")' /\ Dropped(R, b, "cred")'
        /\ c.verb = "drop" /\ c.obj = filter => Dropped(R, b, "cred")'
        /\ c.verb = "ensure" /\ c.obj = filter => Made(R, b, "http", "set")'
        /\ c.verb = "put" /\ c.obj = cred => Made(R, b, "filter", "key")' /\ Made(R, b, "http", "set")'
    BY <2>1, Zenon DEF NextUp, Made, Dropped
  <2>8. \A p : Dropped(R, b, p) => Dropped(R, b, p)' \/ made'[Obj(R, p, b)] = "nil"
    BY <2>2, <2>5, Zenon DEF Dropped
  <2>9. ASSUME made'[filter] # "nil" PROVE Made(R, b, "http", "set")' \/ Dropped(R, b, "filter")'
    <3>1. made'[filter] = made[filter] \/ (c.verb = "ensure" /\ c.obj = filter)
      BY <2>1, <2>9, Zenon DEF Touched
    <3>2. CASE made'[filter] = made[filter]
      BY <1>3, <1>5, <2>6, <2>7, <2>8, <2>9, <3>2, Zenon
    <3> QED
      BY <2>7, <3>1, <3>2, Zenon
  <2>10. ASSUME made'[cred] # "nil"
         PROVE  (Made(R, b, "filter", "key")' /\ Made(R, b, "http", "set")') \/ Dropped(R, b, "cred")'
    <3>1. made'[cred] = made[cred] \/ (c.verb = "put" /\ c.obj = cred)
      BY <2>1, <2>10, Zenon DEF Touched
    <3>2. CASE made'[cred] = made[cred]
      <4>1. (Made(R, b, "filter", "key") /\ Made(R, b, "http", "set")) \/ Dropped(R, b, "cred")
        BY <1>3, <1>5, <2>10, <3>2, Zenon
      <4>2. Made(R, b, "filter", "key") =>
              \/ Made(R, b, "filter", "key")'
              \/ c.verb = "drop" /\ c.obj = filter
              \/ c.verb = "ensure" /\ c.obj = filter /\ made'[filter] = task.spec.refs[b]
        BY <2>1, <2>2, <2>3, <2>4, Zenon DEF Made, Touched
      <4>3. ASSUME c.verb = "ensure", c.obj = filter, made'[filter] = task.spec.refs[b]
            PROVE  Made(R, b, "filter", "key")'
        <5>1. task.spec \in Spec1 /\ Fits(c, R, task.spec)
          BY <1>1, Zenon DEF AtHead
        <5>2. filter.part = "filter" /\ filter.of = b
          BY ObjFacts
        <5>3. task.spec.refs[b] # "absent"
          <6>1. filter # Proxy
            BY <5>2, ProxyFacts
          <6>2. Asked(task.spec, filter) # "nil"
            BY <4>3, <5>1, <6>1, ByVerb, ZenonT(30)
          <6> QED
            BY <5>2, <6>2 DEF Asked, Wanted, OAuthParts
        <5>4. task.spec.refs[b] # "plain"
          BY <1>0, <1>2, <2>10, <3>2, <4>3, NoKeyLost, Zenon
        <5>5. task.spec.refs[b] = "key"
          BY <5>1, <5>3, <5>4 DEF Spec1
        <5> QED
          BY <4>3, <5>5, Zenon DEF Made
      <4>4. CASE Dropped(R, b, "cred")
        BY <2>8, <2>10, <4>4, Zenon
      <4> QED
        BY <4>1, <4>2, <4>3, <4>4, <2>6, <2>7, Zenon
    <3> QED
      BY <2>7, <3>1, <3>2, Zenon
  <2> QED
    BY <1>5, <2>9, <2>10, Zenon
<1> QED
  BY <1>4, <1>5

(* What was to be removed is removed by the call, or still to be removed.  *)
LEMMA HeadRemoves ==
  ASSUME Names, Inv, Calm, NEW c, Called(c), NEW R, R = task.route, task.spec.is = "live",
         NEW o \in Of(R), Asked(task.spec, o) = "nil", Removed(R, o)
  PROVE  Removed(R, o)'
<1> DEFINE s == task.spec
<1>1. AtHead(c, R) /\ Wrote(c) /\ c.verb # "list" /\ R \in MCPRoutes
  <2>1. AtHead(c, R) /\ Wrote(c) /\ c.verb # "list"
    BY HeadFacts, Zenon DEF Called
  <2> QED
    BY <2>1, Zenon DEF AtHead
<1>2. \A x : Coming(R, x) => Fits(x, R, s) /\ (x = c \/ Coming(R, x)')
  BY <1>1, Zenon DEF AtHead
<1>3. \A p \in Reads(c) : p \in Object => seenMade[p] = made[p]
  <2>1. Reads(c) \cap lag = {}
    BY <1>1, Zenon DEF AtHead, Calm
  <2> QED
    BY <2>1 DEF Inv, Cached
<1>4. o \in Object
  BY DEF Of
<1>5. CASE made[o] = "nil"
  <2>1. made'[o] = "nil"
    BY <1>5, Effect, Zenon
  <2> QED
    BY <2>1, Zenon DEF Removed
<1>6. CASE Coming(R, Call("drop", o, "nil"))
  <2>1. ASSUME c = Call("drop", o, "nil") PROVE made'[o] = "nil"
    BY <1>1, <2>1, CallFacts DEF Wrote
  <2> QED
    BY <1>2, <1>6, <2>1, Zenon DEF Removed
<1>7. CASE Coming(R, Call("cleanup", o, "nil"))
  <2>1. ASSUME c = Call("cleanup", o, "nil") PROVE made'[o] = "nil"
    <3>1. c.verb = "cleanup" /\ c.obj = o
      BY <2>1, CallFacts
    <3>2. o \in Reads(c)
      BY <3>1 DEF Reads
    <3>3. seenMade[o] = made[o]
      BY <1>3, <1>4, <3>2, Zenon
    <3> QED
      BY <1>1, <3>1, <3>3 DEF Wrote
  <2> QED
    BY <1>2, <1>7, <2>1, Zenon DEF Removed
<1>8. CASE o.part = "cred" /\ Coming(R, Call("unlink", Beside(o, "filter"), "plain"))
  <2>0. PICK f : f = Beside(o, "filter")
    OBVIOUS
  <2>1. ASSUME c = Call("unlink", f, "plain") PROVE made'[o] = "nil"
    <3>1. c.verb = "unlink" /\ c.obj = f
      BY <2>1, CallFacts
    <3>2. PICK b \in Backends : o = Obj(R, "cred", b)
      BY <1>1, <1>8, Objects DEF Names, OfRoute, OAuthParts
    <3>3. /\ f = Obj(R, "filter", b) /\ f.part = "filter" /\ f.of = b /\ f \in Object
          /\ o.part = "cred" /\ o.of = b /\ Beside(f, "cred") = o
      BY <1>1, <2>0, <3>2, ObjFacts, Besides, Objects DEF OfBackend, Of
    <3>4. Target(c) = o /\ f \in Reads(c)
      BY <3>1, <3>3 DEF Target, Reads
    <3>5. seenMade[f] = made[f]
      BY <1>3, <3>3, <3>4, Zenon
    <3>6. s.refs[b] = "plain"
      <4>1. Fits(c, R, s)
        BY <1>1, Zenon DEF AtHead
      <4> QED
        BY <3>1, <3>3, <4>1, ByVerb
    <3>7. ~Coming(R, Call("drop", o, "nil"))
      <4>1. Call("drop", o, "nil").verb = "drop" /\ Call("drop", o, "nil").obj = o
        BY CallFacts
      <4>2. ASSUME NEW x, x.verb = "drop", x.obj = o PROVE ~Fits(x, R, s)
        BY <3>3, <3>6, <4>2, ByVerb, ZenonT(30)
      <4> QED
        BY <1>2, <4>1, <4>2, Zenon
    <3>8. ~Coming(R, Call("ensure", f, "key"))
      <4>1. /\ Call("ensure", f, "key").verb = "ensure" /\ Call("ensure", f, "key").obj = f
            /\ Call("ensure", f, "key").val = "key"
        BY CallFacts
      <4>2. Asked(s, f) = "plain" /\ f # Proxy
        BY <3>3, <3>6, ProxyFacts DEF Asked, Wanted, OAuthParts
      <4>3. ASSUME NEW x, x.verb = "ensure", x.obj = f, x.val = "key" PROVE ~Fits(x, R, s)
        BY <4>2, <4>3, ByVerb
      <4> QED
        BY <1>2, <4>1, <4>3, Zenon
    <3>9. made[o] # "nil" => made[f] = "key"
      BY <1>1, <3>2, <3>3, <3>7, <3>8, Zenon DEF Inv, Tied, Made, Dropped
    <3>10. made'[o] = "nil" \/ (seenMade[f] # "key" /\ made'[o] = made[o])
      BY <1>1, <3>1, <3>4, Zenon DEF Wrote
    <3> QED
      BY <3>5, <3>9, <3>10
  <2>2. Coming(R, Call("unlink", f, "plain"))' \/ c = Call("unlink", f, "plain")
    BY <1>2, <1>8, <2>0, Zenon
  <2>3. CASE Coming(R, Call("unlink", f, "plain"))'
    BY <1>8, <2>0, <2>3, Zenon DEF Removed
  <2> QED
    BY <2>1, <2>2, <2>3, Zenon DEF Removed
<1>9. CASE ListComing(R)
  <2>1. listExistingPerBackendHTTPRoutes(R).verb = "list"
    BY CallFacts DEF listExistingPerBackendHTTPRoutes
  <2>2. ListComing(R)'
    BY <1>1, <1>2, <1>9, <2>1, Zenon DEF ListComing
  <2> QED
    BY <2>2, Zenon DEF Removed
<1> QED
  BY <1>5, <1>6, <1>7, <1>8, <1>9, Zenon DEF Removed

LEMMA CallCleared ==
  ASSUME Names, Inv, NEW c, Called(c)
  PROVE  Cleared'
<1>0. PICK R : R = task.route
  OBVIOUS
<1>1. AtHead(c, R) /\ R \in MCPRoutes /\ UNCHANGED <<scenario, seenSpec, queue, failures>>
  <2>1. AtHead(c, R) /\ UNCHANGED <<scenario, seenSpec, queue, failures>>
    BY <1>0, HeadFacts, Zenon DEF Called
  <2>2. R \in MCPRoutes
    BY <2>1, Zenon DEF AtHead
  <2> QED
    BY <2>1, <2>2, Zenon
<1>2. Calm' <=> Calm
  BY <1>1, Zenon DEF Calm
<1>3. /\ task'.route # R => task' = NoTask
      /\ task' # NoTask => task'.route = R /\ task'.spec = task.spec
  BY <1>0, Moves, Zenon DEF Inv, Called
<1>4. ASSUME Calm, NEW r \in MCPRoutes, NEW s, s = Present(r)', s.is = "live", task'.route = r \/ r \notin queue,
             NEW o \in Of(r), Asked(s, o) = "nil"
      PROVE  Removed(r, o)'
  <2>1. CASE r # R
    <3>1. task'.route # r
      BY <1>3, <2>1 DEF Names, NoTask
    <3>2. s = Present(r) /\ r \notin queue
      BY <1>0, <1>1, <1>4, <2>1, <3>1, Zenon DEF Present
    <3>3. Removed(r, o)
      BY <1>4, <3>2, Zenon DEF Inv, Cleared
    <3>4. made'[o] = "nil"
      BY <1>0, <2>1, <3>3, Elsewhere, Effect, Zenon
    <3> QED
      BY <3>4, Zenon DEF Removed
  <2>2. CASE r = R
    <3>1. s = task.spec
      <4>1. CASE task'.route = R
        <5>1. task' # NoTask
          BY <1>1, <4>1 DEF Names, NoTask
        <5> QED
          BY <1>3, <1>4, <2>2, <4>1, <5>1, Zenon DEF Present
      <4>2. CASE task'.route # R
        BY <1>0, <1>1, <1>4, <2>2, <4>2, Zenon DEF Present, Inv, Working, Called
      <4> QED
        BY <4>1, <4>2
    <3>2. Present(R) = task.spec
      BY <1>0, Zenon DEF Present
    <3>3. Removed(R, o)
      BY <1>0, <1>4, <2>2, <3>1, <3>2, Zenon DEF Inv, Cleared
    <3> QED
      BY <1>0, <1>4, <2>2, <3>1, <3>3, HeadRemoves, Zenon
  <2> QED
    BY <2>1, <2>2
<1> QED
  BY <1>1, <1>2, <1>4, Zenon DEF Cleared

(* So a call keeps the invariant.                                          *)
LEMMA CallKeeps ==
  ASSUME Names, Inv, NEW c, Called(c), Went
  PROVE  Inv'
<1>1. ResourcesTypeOK'
  <2>1. task.route \in MCPRoutes
    BY HeadFacts, Zenon DEF AtHead
  <2>2. spec' \in [MCPRoutes -> Spec1] /\ lagSpec' \subseteq MCPRoutes
    BY <2>1 DEF Went, Inv, ResourcesTypeOK
  <2>3. made' \in [Object -> Content] /\ lag' \subseteq Object
    BY Zenon DEF Called, Wrote
  <2>4. task' # NoTask => task' \in [route : MCPRoutes, spec : Spec1, todo : Seq(Calls)] /\ task'.todo # <<>>
    BY Moves, Zenon DEF Inv, Called
  <2>5. task' # NoTask => task'.route \in MCPRoutes /\ task'.spec \in Spec1 /\ task'.todo # <<>>
    BY <2>4
  <2>6. UNCHANGED <<scenario, seenSpec, seenMade, queue, failures, changes>>
    BY DEF Called
  <2> QED
    BY <2>2, <2>3, <2>5, <2>6, Zenon DEF Inv, ResourcesTypeOK
<1> QED
  BY <1>1, CallCached, CallWorking, CallComplete, CallShared, CallTied, CallCleared, Zenon DEF Inv

-----------------------------------------------------------------------------
(* The list, with which the rest of the calls is decided.                  *)
Lists(c) ==
  /\ task # NoTask /\ c = Head(task.todo) /\ c.verb = "list" /\ Proceed(AfterList(task.route, task.spec))
  /\ UNCHANGED <<scenario, spec, made, seenSpec, seenMade, lagSpec, lag, queue, changes, failures>>

LEMMA ListFacts ==
  ASSUME Names, Inv, NEW c, Lists(c), NEW R, R = task.route
  PROVE  /\ R \in MCPRoutes /\ task.spec \in Spec1 /\ task.spec.is = "live" /\ c = listExistingPerBackendHTTPRoutes(R)
         /\ \A x : Coming(R, x) => x.verb = "list"
         /\ scenario.prompt => Reads(c) \cap lag = {}
         /\ AfterList(R, task.spec) # <<>> /\ Planned(AfterList(R, task.spec), R, task.spec)
         /\ task' \in [route : MCPRoutes, spec : Spec1, todo : Seq(Calls)]
         /\ task'.route = R /\ task'.spec = task.spec /\ task'.todo = AfterList(R, task.spec)
<1> DEFINE s == task.spec
           todo == AfterList(R, s)
<1>1. /\ task \in [route : MCPRoutes, spec : Spec1, todo : Seq(Calls)] /\ task.todo # <<>>
      /\ Planned(task.todo, R, s)
      /\ scenario.prompt => \A i \in 1..Len(task.todo) : Reads(task.todo[i]) \cap lag = {}
  BY Zenon DEF Inv, Working, Lists
<1>2. R \in MCPRoutes /\ s \in Spec1
  BY <1>1
<1>3. /\ c \in Calls /\ Fits(c, R, s) /\ c = task.todo[1] /\ 1 \in 1..Len(task.todo)
      /\ \A x : Has(task.todo, x) => x = c \/ Has(Tail(task.todo), x)
      /\ Tail(task.todo) = <<>>
  BY <1>1, Rest, Zenon DEF Lists
<1>4. c.verb = "list"
  BY Zenon DEF Lists
<1>5. s.is = "live" /\ c = listExistingPerBackendHTTPRoutes(R)
  BY <1>3, <1>4 DEF Fits, ensureMCPProxyBackend, Call
<1>6. \A x : ~Has(<<>>, x)
  BY Empty DEF Has
<1>7. \A x : Coming(R, x) => x.verb = "list"
  BY <1>3, <1>4, <1>6, Zenon DEF Coming
<1>8. scenario.prompt => Reads(c) \cap lag = {}
  BY <1>1, <1>3, Zenon
<1>9. todo # <<>> /\ Planned(todo, R, s)
  BY <1>2, <1>5, Decided, Zenon
<1>10. todo \in Seq(Calls) /\ task' = [task EXCEPT !.todo = todo]
  BY <1>9, Zenon DEF Planned, Lists, Proceed
<1> HIDE DEF todo
<1>11. /\ task' \in [route : MCPRoutes, spec : Spec1, todo : Seq(Calls)]
       /\ task'.route = R /\ task'.spec = s /\ task'.todo = todo
  BY <1>1, <1>10
<1> QED
  BY <1>2, <1>5, <1>7, <1>8, <1>9, <1>11, Zenon DEF todo

(* A backend that has no HTTPRoute has no filter and no credential.        *)
LEMMA SignOfBackend ==
  ASSUME Names, Inv, Calm, NEW c, Lists(c), NEW R, R = task.route, NEW o \in Of(R),
         o.part \in OfBackend, o.of \in Backends, seenMade[Beside(o, "http")] = "nil"
  PROVE  made[o] = "nil"
<1> DEFINE b == o.of
           http == Obj(R, "http", b)
<1>1. /\ R \in MCPRoutes /\ c = listExistingPerBackendHTTPRoutes(R)
      /\ \A x : Coming(R, x) => x.verb = "list"
      /\ Reads(c) \cap lag = {}
  BY ListFacts, Zenon DEF Calm
<1>2. http \in Object /\ http.part = "http" /\ Beside(o, "http") = http /\ o = Obj(R, o.part, b)
  <2>1. http \in Of(R) /\ http.part = "http"
    <3>1. "http" \in OfBackend
      BY DEF OfBackend
    <3>2. http \in Of(R)
      BY <1>1, <3>1, Objects, ZenonT(30)
    <3>3. http.part = "http"
      BY ObjFacts
    <3> QED
      BY <3>2, <3>3
  <2>2. o = Obj(R, o.part, b) /\ o.route = R /\ http \in Object
    BY <1>1, <2>1, Objects, ZenonT(30)
  <2> QED
    BY <2>1, <2>2, ZenonT(30) DEF Beside
<1>3. http \in Reads(c)
  <2>1. c.verb = "list"
    BY ZenonT(30) DEF Lists
  <2> QED
    BY <1>2, <2>1, ZenonT(30) DEF Reads
<1>4. made[http] = "nil"
  BY <1>1, <1>2, <1>3 DEF Inv, Cached
<1>5. \A p, w : ~Coming(R, Call("ensure", p, w)) /\ ~Coming(R, Call("drop", p, w))
  <2>1. \A p, w : Call("ensure", p, w).verb # "list" /\ Call("drop", p, w).verb # "list"
    BY DEF Call
  <2> QED
    BY <1>1, <2>1, Zenon
<1>6. ~Made(R, b, "http", "set") /\ \A p : ~Dropped(R, b, p)
  BY <1>4, <1>5 DEF Made, Dropped
<1>7. made[Obj(R, "cred", b)] = "nil" /\ made[Obj(R, "filter", b)] = "nil"
  BY <1>1, <1>6, Zenon DEF Inv, Tied
<1> QED
  BY <1>2, <1>4, <1>7 DEF OfBackend

LEMMA ListKeeps ==
  ASSUME Names, Inv, NEW c, Lists(c)
  PROVE  Inv'
<1>0. PICK R, s : R = task.route /\ s = task.spec
  OBVIOUS
<1> DEFINE todo == AfterList(R, s)
<1>1. /\ R \in MCPRoutes /\ s \in Spec1 /\ s.is = "live" /\ c = listExistingPerBackendHTTPRoutes(R)
      /\ \A x : Coming(R, x) => x.verb = "list"
      /\ scenario.prompt => Reads(c) \cap lag = {}
      /\ todo # <<>> /\ Planned(todo, R, s)
      /\ task' \in [route : MCPRoutes, spec : Spec1, todo : Seq(Calls)]
      /\ task'.route = R /\ task'.spec = s /\ task'.todo = todo
  BY <1>0, ListFacts, Zenon
<1>2. UNCHANGED <<scenario, spec, made, seenSpec, seenMade, lagSpec, lag, queue, changes, failures>>
  BY DEF Lists
<1>3. /\ \A o \in Of(R) : o.part # "main" => Settles(todo, s, o)
      /\ \A i \in 1..Len(todo) : Reads(todo[i]) \subseteq Reads(c)
  <2>1. R \in MCPRoutes /\ s \in Spec1 /\ s.is = "live" /\ c = listExistingPerBackendHTTPRoutes(R)
    BY <1>1, Zenon
  <2>2. /\ \A o \in Of(R) : o.part # "main" => Settles(AfterList(R, s), s, o)
        /\ \A i \in 1..Len(AfterList(R, s)) :
             Reads(AfterList(R, s)[i]) \subseteq Reads(listExistingPerBackendHTTPRoutes(R))
    BY <2>1, Decided, Zenon
  <2> QED
    BY <2>1, <2>2, Zenon
<1>4. PICK t : t = todo
  OBVIOUS
<1>5. \A x : Has(t, x) => Coming(R, x)'
  BY <1>1, <1>4, Zenon DEF Coming
<1>6. /\ task.route \notin queue => s = seenSpec[R]
      /\ s.is = "deleting" => seenSpec[R].is \in {"deleting", "gone"}
  BY <1>0, Zenon DEF Inv, Working, Lists
<1>7. /\ \A o, w : ~Coming(R, Call("ensure", o, w)) /\ ~Coming(R, Call("put", o, w)) /\ ~Coming(R, Call("drop", o, w))
      /\ ~Coming(R, ensureMCPProxyBackend)
  <2>1. /\ \A o, w : Call("ensure", o, w).verb # "list" /\ Call("put", o, w).verb # "list" /\ Call("drop", o, w).verb # "list"
        /\ ensureMCPProxyBackend.verb # "list"
    BY DEF Call, ensureMCPProxyBackend
  <2> QED
    BY <1>1, <2>1, Zenon
<1>8. \A r \in MCPRoutes : r # R => task.route # r /\ task'.route # r
  BY <1>0, <1>1
<1> HIDE DEF todo
<1>9. ResourcesTypeOK'
  <2>1. task'.route \in MCPRoutes /\ task'.spec \in Spec1 /\ task'.todo # <<>>
    BY <1>1
  <2> QED
    BY <1>2, <2>1, Zenon DEF Inv, ResourcesTypeOK
<1>10. Cached'
  BY <1>2, Zenon DEF Inv, Cached
<1>11. Working'
  <2>1. scenario'.prompt => \A i \in 1..Len(task'.todo) : Reads(task'.todo[i]) \cap lag' = {}
    BY <1>1, <1>2, <1>3
  <2> QED
    BY <1>0, <1>1, <1>2, <1>6, <2>1, Zenon DEF Working
<1>12. Complete'
  <2> SUFFICES ASSUME NEW r \in MCPRoutes, seenSpec[r].is = "live", spec[r].is # "gone", r \notin queue,
                      NEW o \in Of(r), NEW w, w = Asked(seenSpec[r], o), w # "nil"
               PROVE  Provided(r, o, w)'
    BY <1>2, Zenon DEF Complete, Provided, Coming, ListComing
  <2>1. Provided(r, o, w)
    BY Zenon DEF Inv, Complete
  <2>2. CASE made[o] = w
    BY <1>2, <2>2, Zenon DEF Provided
  <2>3. CASE r # R
    BY <1>8, <2>1, <2>2, <2>3, Elsewhere, Zenon
  <2>4. CASE r = R /\ o.part = "main"
    BY <1>7, <2>1, <2>2, <2>4, Zenon DEF Provided
  <2>5. CASE r = R /\ o.part # "main"
    <3>1. w = Asked(s, o)
      BY <1>0, <1>6, <2>5, Zenon
    <3>2. Has(t, Call("ensure", o, w)) \/ Has(t, Call("put", o, w))
      BY <1>3, <1>4, <2>5, <3>1, Zenon DEF Settles
    <3>3. Coming(R, Call("ensure", o, w))' \/ Coming(R, Call("put", o, w))'
      BY <1>5, <3>2, Zenon
    <3> QED
      BY <2>5, <3>3, Zenon DEF Provided
  <2> QED
    BY <2>3, <2>4, <2>5, Zenon
<1>13. Shared'
  <2>1. \A r \in MCPRoutes : ~Coming(r, ensureMCPProxyBackend)
    BY <1>7, <1>8, Elsewhere, Zenon
  <2> QED
    BY <1>2, <2>1, Zenon DEF Inv, Shared
<1>14. Tied'
  <2>1. \A r \in MCPRoutes : \A b : /\ \A p, w : Made(r, b, p, w) => made[Obj(r, p, b)] = w
                                    /\ \A p : ~Dropped(r, b, p)
    <3>1. \A b : /\ \A p, w : Made(R, b, p, w) => made[Obj(R, p, b)] = w
                 /\ \A p : ~Dropped(R, b, p)
      BY <1>7, Zenon DEF Made, Dropped
    <3>2. ASSUME NEW r \in MCPRoutes, r # R, NEW b
          PROVE  (\A p, w : Made(r, b, p, w) => made[Obj(r, p, b)] = w) /\ (\A p : ~Dropped(r, b, p))
      BY <1>8, <3>2, Elsewhere, Zenon
    <3> QED
      BY <3>1, <3>2, Zenon
  <2>2. Calm' <=> Calm
    BY <1>2, Zenon DEF Calm
  <2>3. ASSUME Calm, NEW r \in MCPRoutes, NEW b \in Backends
        PROVE  /\ made[Obj(r, "cred", b)] # "nil" =>
                    made[Obj(r, "filter", b)] = "key" /\ made[Obj(r, "http", b)] = "set"
               /\ made[Obj(r, "filter", b)] # "nil" => made[Obj(r, "http", b)] = "set"
    BY <2>1, <2>3, Zenon DEF Inv, Tied
  <2>4. \A r, b, p, w : made[Obj(r, p, b)] = w => Made(r, b, p, w)'
    BY <1>2, Zenon DEF Made
  <2> QED
    BY <1>2, <2>2, <2>3, <2>4, Zenon DEF Tied
<1>15. Cleared'
  <2>1. Calm' <=> Calm
    BY <1>2, Zenon DEF Calm
  <2>2. ASSUME Calm, NEW r \in MCPRoutes, NEW u, u = Present(r)', u.is = "live", task'.route = r \/ r \notin queue,
               NEW o \in Of(r), Asked(u, o) = "nil"
        PROVE  Removed(r, o)'
    <3>1. CASE r # R
      <4>1. u = Present(r) /\ r \notin queue
        BY <1>2, <1>8, <2>2, <3>1, Zenon DEF Present
      <4>2. Removed(r, o)
        BY <2>2, <4>1, Zenon DEF Inv, Cleared
      <4>3. made'[o] = "nil"
        BY <1>2, <1>8, <3>1, <4>2, Elsewhere, Zenon
      <4> QED
        BY <4>3, Zenon DEF Removed
    <3>2. CASE r = R
      <4>1. u = s
        BY <1>1, <2>2, <3>2, Zenon DEF Present
      <4>2. o.part # "main"
        <5>1. o.part = "main" => Asked(s, o) = s.auth
          BY DEF Asked, Wanted, OAuthParts
        <5>2. s.auth # "nil"
          BY <1>1 DEF Spec1
        <5> QED
          BY <2>2, <4>1, <5>1, <5>2
      <4>3. \/ Has(t, Call("drop", o, "nil")) \/ Has(t, Call("cleanup", o, "nil"))
            \/ (o.part = "cred" /\ Has(t, Call("unlink", Beside(o, "filter"), "plain")))
            \/ (o.part \in OfBackend /\ o.of \in Backends /\ seenMade[Beside(o, "http")] = "nil")
        BY <1>3, <1>4, <2>2, <3>2, <4>1, <4>2, Zenon DEF Settles
      <4>4. CASE o.part \in OfBackend /\ o.of \in Backends /\ seenMade[Beside(o, "http")] = "nil"
        <5>1. made'[o] = "nil"
          BY <1>0, <1>2, <2>2, <3>2, <4>4, SignOfBackend, Zenon
        <5> QED
          BY <5>1, Zenon DEF Removed
      <4>5. CASE Has(t, Call("drop", o, "nil")) \/ Has(t, Call("cleanup", o, "nil"))
        BY <1>5, <3>2, <4>5, Zenon DEF Removed
      <4>6. CASE o.part = "cred" /\ Has(t, Call("unlink", Beside(o, "filter"), "plain"))
        BY <1>5, <3>2, <4>6, Zenon DEF Removed
      <4> QED
        BY <4>3, <4>4, <4>5, <4>6
    <3> QED
      BY <3>1, <3>2
  <2> QED
    BY <1>2, <2>1, <2>2, Zenon DEF Cleared
<1> QED
  BY <1>9, <1>10, <1>11, <1>12, <1>13, <1>14, <1>15, Zenon DEF Inv

-----------------------------------------------------------------------------
(* A reconcile begins.                                                     *)
LEMMA StartFacts ==
  ASSUME Names, Inv, NEW R \in MCPRoutes, StartSync(R)
  PROVE  /\ task = NoTask /\ queue' = queue \ {R}
         /\ UNCHANGED <<scenario, spec, made, seenSpec, seenMade, lagSpec, lag, changes, failures>>
         /\ scenario.prompt => lag = {}
         /\ task' # NoTask =>
              /\ task' \in [route : MCPRoutes, spec : Spec1, todo : Seq(Calls)] /\ task'.todo # <<>>
              /\ task'.route = R /\ task'.spec = seenSpec[R]
              /\ Planned(task'.todo, R, seenSpec[R])
         /\ seenSpec[R].is = "live" =>
              /\ task' # NoTask /\ Coming(R, ensureMCPProxyBackend)'
              /\ Coming(R, Call("ensure", Obj(R, "main", "route"), seenSpec[R].auth))' /\ ListComing(R)'
<1>0. PICK s : s = seenSpec[R]
  OBVIOUS
<1> DEFINE todo == syncMCPRoute(R, s)
           begun == [route |-> R, spec |-> s, todo |-> todo]
<1>1. /\ task = NoTask /\ queue' = queue \ {R}
      /\ UNCHANGED <<scenario, spec, made, seenSpec, seenMade, lagSpec, lag, changes, failures>>
      /\ scenario.prompt => lag = {}
      /\ task' = IF todo = <<>> THEN NoTask ELSE begun
  BY <1>0, Zenon DEF StartSync
<1>2. s \in Spec1
  BY <1>0 DEF Inv, ResourcesTypeOK
<1>3. s.is \notin {"live", "deleting"} => todo = <<>>
  BY DEF syncMCPRoute
<1>4. todo # <<>> => Planned(todo, R, s) /\ todo \in Seq(Calls)
  BY <1>2, <1>3, Starts, Ends, Zenon DEF Planned
<1>5. s.is = "live" =>
        /\ todo # <<>> /\ Has(todo, ensureMCPProxyBackend)
        /\ Has(todo, Call("ensure", Obj(R, "main", "route"), s.auth))
        /\ Has(todo, listExistingPerBackendHTTPRoutes(R))
  BY <1>2, Starts, Zenon
<1>6. PICK t : t = todo
  OBVIOUS
<1> HIDE DEF todo
<1>7. ASSUME t # <<>>
      PROVE  /\ task' \in [route : MCPRoutes, spec : Spec1, todo : Seq(Calls)] /\ task'.todo = t
             /\ task'.route = R /\ task'.spec = s
  BY <1>1, <1>2, <1>4, <1>6, <1>7
<1>8. t # <<>> => task' # NoTask
  <2>1. NoTask.route = "none"
    BY DEF NoTask
  <2> QED
    BY <1>7, <2>1, ZenonT(30) DEF Names
<1>9. t # <<>> => \A x : Has(t, x) => Coming(R, x)'
  BY <1>7, Zenon DEF Coming
<1>10. seenSpec[R].is = "live" =>
         /\ task' # NoTask /\ Coming(R, ensureMCPProxyBackend)'
         /\ Coming(R, Call("ensure", Obj(R, "main", "route"), seenSpec[R].auth))' /\ ListComing(R)'
  <2> SUFFICES ASSUME s.is = "live"
               PROVE  /\ task' # NoTask /\ Coming(R, ensureMCPProxyBackend)'
                      /\ Coming(R, Call("ensure", Obj(R, "main", "route"), s.auth))' /\ ListComing(R)'
    BY <1>0, <1>1, Zenon DEF Coming
  <2>1. /\ t # <<>> /\ Has(t, ensureMCPProxyBackend)
        /\ Has(t, Call("ensure", Obj(R, "main", "route"), s.auth))
        /\ Has(t, listExistingPerBackendHTTPRoutes(R))
    BY <1>5, <1>6, Zenon
  <2> QED
    BY <1>8, <1>9, <2>1, Zenon DEF ListComing
<1>11. task' # NoTask => t # <<>>
  BY <1>1, <1>6, Zenon
<1> QED
  BY <1>0, <1>1, <1>4, <1>6, <1>7, <1>10, <1>11, Zenon

LEMMA StartKeeps ==
  ASSUME Names, Inv, NEW R \in MCPRoutes, StartSync(R)
  PROVE  Inv'
<1>1. /\ task = NoTask /\ queue' = queue \ {R}
      /\ UNCHANGED <<scenario, spec, made, seenSpec, seenMade, lagSpec, lag, changes, failures>>
      /\ scenario.prompt => lag = {}
      /\ task' # NoTask =>
           /\ task' \in [route : MCPRoutes, spec : Spec1, todo : Seq(Calls)] /\ task'.todo # <<>>
           /\ task'.route = R /\ task'.spec = seenSpec[R]
           /\ Planned(task'.todo, R, seenSpec[R])
  BY StartFacts, Zenon
<1>2. seenSpec[R].is = "live" =>
        /\ task' # NoTask /\ Coming(R, ensureMCPProxyBackend)'
        /\ Coming(R, Call("ensure", Obj(R, "main", "route"), seenSpec[R].auth))' /\ ListComing(R)'
  BY StartFacts, ZenonT(30)
<1>3. \A r \in MCPRoutes : task.route # r /\ (r # R => task'.route # r)
  BY <1>1, Idle, ZenonT(30) DEF Names, NoTask
<1>4. \A r \in MCPRoutes : r \notin queue' => r = R \/ r \notin queue
  BY <1>1
<1>5. ResourcesTypeOK'
  <2>1. task' # NoTask => task'.route \in MCPRoutes /\ task'.spec \in Spec1 /\ task'.todo # <<>>
    BY <1>1
  <2>2. queue' \subseteq MCPRoutes
    BY <1>1 DEF Inv, ResourcesTypeOK
  <2> QED
    BY <1>1, <2>1, <2>2, Zenon DEF Inv, ResourcesTypeOK
<1>6. Cached'
  BY <1>1, Zenon DEF Inv, Cached
<1>7. Working'
  <2> SUFFICES ASSUME task' # NoTask PROVE Working'
    BY Zenon DEF Working
  <2>1. scenario'.prompt => \A i \in 1..Len(task'.todo) : Reads(task'.todo[i]) \cap lag' = {}
    BY <1>1
  <2>2. task'.spec.is = "deleting" => seenSpec'[task'.route].is \in {"deleting", "gone"}
    BY <1>1
  <2> QED
    BY <1>1, <2>1, <2>2, Zenon DEF Working
<1>8. Complete'
  <2> SUFFICES ASSUME NEW r \in MCPRoutes, seenSpec[r].is = "live", spec[r].is # "gone", r \notin queue',
                      NEW o \in Of(r), NEW w, w = Asked(seenSpec[r], o), w # "nil"
               PROVE  Provided(r, o, w)'
    <3>1. UNCHANGED <<spec, seenSpec>>
      BY <1>1, Zenon
    <3> QED
      BY <3>1, Zenon DEF Complete, Provided, Coming, ListComing
  <2>1. CASE r # R
    <3>1. Provided(r, o, w)
      BY <1>4, <2>1, Zenon DEF Inv, Complete
    <3>2. made'[o] = w
      BY <1>1, <1>3, <3>1, Elsewhere, Zenon
    <3> QED
      BY <3>2, Zenon DEF Provided
  <2>2. CASE r = R /\ o.part # "main"
    BY <1>2, <2>2, Zenon DEF Provided
  <2>3. CASE r = R /\ o.part = "main"
    <3>1. w = seenSpec[R].auth
      BY <2>3 DEF Asked, Wanted, OAuthParts
    <3>2. o = Obj(R, "main", "route")
      BY <2>3, Objects DEF Names, OfBackend
    <3>3. Coming(R, Call("ensure", o, w))'
      <4>1. w = seenSpec'[R].auth
        BY <1>1, <3>1, Zenon
      <4> QED
        BY <1>2, <2>3, <3>2, <4>1, Zenon
    <3> QED
      BY <2>3, <3>3, Zenon DEF Provided
  <2> QED
    BY <2>1, <2>2, <2>3
<1>9. Shared'
  <2> SUFFICES ASSUME scenario.prompt, NEW r \in MCPRoutes, seenSpec[r].is = "live", r \notin queue'
               PROVE  made'[Proxy] # "nil" \/ Coming(r, ensureMCPProxyBackend)'
    BY <1>1, Zenon DEF Shared
  <2>1. CASE r = R
    BY <1>2, <2>1, Zenon
  <2>2. CASE r # R
    <3>1. made[Proxy] # "nil"
      BY <1>3, <1>4, <2>2, Elsewhere, Zenon DEF Inv, Shared
    <3> QED
      BY <1>1, <3>1, Zenon
  <2> QED
    BY <2>1, <2>2
<1>10. Tied'
  <2>1. \A r \in MCPRoutes : \A b : /\ \A p, w : Made(r, b, p, w) => made[Obj(r, p, b)] = w
                                    /\ \A p : ~Dropped(r, b, p)
    BY <1>3, Elsewhere, Zenon
  <2>2. Calm' <=> Calm
    BY <1>1, Zenon DEF Calm
  <2>3. ASSUME Calm, NEW r \in MCPRoutes, NEW b \in Backends
        PROVE  /\ made[Obj(r, "cred", b)] # "nil" =>
                    made[Obj(r, "filter", b)] = "key" /\ made[Obj(r, "http", b)] = "set"
               /\ made[Obj(r, "filter", b)] # "nil" => made[Obj(r, "http", b)] = "set"
    BY <2>1, <2>3, Zenon DEF Inv, Tied
  <2>4. \A r, b, p, w : made[Obj(r, p, b)] = w => Made(r, b, p, w)'
    BY <1>1, Zenon DEF Made
  <2> QED
    BY <1>1, <2>2, <2>3, <2>4, Zenon DEF Tied
<1>11. Cleared'
  <2>1. Calm' <=> Calm
    BY <1>1, Zenon DEF Calm
  <2>2. ASSUME Calm, NEW r \in MCPRoutes, NEW u, u = Present(r)', u.is = "live", task'.route = r \/ r \notin queue',
               NEW o \in Of(r), Asked(u, o) = "nil"
        PROVE  Removed(r, o)'
    <3>1. CASE r # R
      <4>1. u = Present(r) /\ r \notin queue
        BY <1>1, <1>3, <1>4, <2>2, <3>1, Zenon DEF Present
      <4>2. Removed(r, o)
        BY <2>2, <4>1, Zenon DEF Inv, Cleared
      <4>3. made'[o] = "nil"
        BY <1>1, <1>3, <4>2, Elsewhere, Zenon
      <4> QED
        BY <4>3, Zenon DEF Removed
    <3>2. CASE r = R
      <4>1. u = seenSpec[R]
        <5>1. CASE task'.route = R
          <6>1. task' # NoTask
            BY <5>1 DEF Names, NoTask
          <6> QED
            BY <1>1, <2>2, <3>2, <5>1, <6>1, Zenon DEF Present
        <5>2. CASE task'.route # R
          BY <1>1, <2>2, <3>2, <5>2, Zenon DEF Present
        <5> QED
          BY <5>1, <5>2
      <4>2. ListComing(R)'
        BY <1>2, <2>2, <4>1, Zenon
      <4> QED
        BY <3>2, <4>2, Zenon DEF Removed
    <3> QED
      BY <3>1, <3>2
  <2> QED
    BY <1>1, <2>1, <2>2, Zenon DEF Cleared
<1> QED
  BY <1>5, <1>6, <1>7, <1>8, <1>9, <1>10, <1>11, Zenon DEF Inv

(* A call fails.  With a cache that is up to date none is refused.         *)
LEMMA FailKeeps ==
  ASSUME Names, Inv, CallFails
  PROVE  Inv'
<1>0. PICK R, c : R = task.route /\ c = Head(task.todo)
  OBVIOUS
<1>1. /\ task # NoTask /\ task' = NoTask /\ queue' = queue \cup {R}
      /\ UNCHANGED <<scenario, spec, made, seenSpec, seenMade, lagSpec, lag, changes>>
      /\ \/ CallRefused(c) /\ UNCHANGED failures
         \/ failures < MaxFailures /\ failures' = failures + 1
  BY <1>0, Zenon DEF CallFails, Fail
<1>2. /\ task \in [route : MCPRoutes, spec : Spec1, todo : Seq(Calls)] /\ task.todo # <<>>
      /\ Planned(task.todo, R, task.spec)
      /\ scenario.prompt => \A i \in 1..Len(task.todo) : Reads(task.todo[i]) \cap lag = {}
  BY <1>0, <1>1, Zenon DEF Inv, Working
<1>3. R \in MCPRoutes /\ c \in Calls /\ Fits(c, R, task.spec) /\ c = task.todo[1] /\ 1 \in 1..Len(task.todo)
  <2>1. R \in MCPRoutes
    BY <1>0, <1>2
  <2> QED
    BY <1>0, <1>2, <2>1, Rest, Zenon
<1>4. failures \in Nat /\ MaxFailures \in Nat /\ failures <= MaxFailures
  BY DEF Inv, ResourcesTypeOK, Names
<1>5. CallRefused(c) => ~scenario.prompt
  <2> SUFFICES ASSUME CallRefused(c), scenario.prompt PROVE FALSE
    OBVIOUS
  <2>1. c.verb \in {"ensure", "cleanup"}
    BY DEF CallRefused
  <2>2. c.obj \in Object /\ Reads(c) = {c.obj}
    BY <1>3, <2>1, Targets DEF Reads
  <2>3. c.obj \notin lag
    BY <1>2, <1>3, <2>2
  <2>4. seenMade[c.obj] = made[c.obj]
    BY <2>2, <2>3, Zenon DEF Inv, Cached
  <2> QED
    BY <2>3, <2>4 DEF CallRefused
<1>6. ~Calm'
  <2>1. CASE CallRefused(c)
    BY <1>1, <1>5, <2>1, Zenon DEF Calm
  <2>2. CASE failures' = failures + 1
    BY <1>4, <2>2 DEF Calm
  <2> QED
    BY <1>1, <2>1, <2>2
<1>7. \A r \in MCPRoutes : task'.route # r
  BY <1>1 DEF Names, NoTask
<1>8. \A r \in MCPRoutes : r \notin queue' => r \notin queue /\ task.route # r
  BY <1>0, <1>1
<1>9. ResourcesTypeOK'
  <2>1. queue' \subseteq MCPRoutes
    BY <1>1, <1>3 DEF Inv, ResourcesTypeOK
  <2>2. failures' \in 0..MaxFailures
    BY <1>1, <1>4
  <2> QED
    BY <1>1, <2>1, <2>2, Zenon DEF Inv, ResourcesTypeOK
<1>10. Cached'
  BY <1>1, Zenon DEF Inv, Cached
<1>11. Working'
  BY <1>1, Zenon DEF Working
<1>12. Complete'
  <2> SUFFICES ASSUME NEW r \in MCPRoutes, seenSpec[r].is = "live", spec[r].is # "gone", r \notin queue',
                      NEW o \in Of(r), NEW w, w = Asked(seenSpec[r], o), w # "nil"
               PROVE  Provided(r, o, w)'
    BY <1>1, Zenon DEF Complete, Provided, Coming, ListComing
  <2>1. Provided(r, o, w)
    BY <1>8, Zenon DEF Inv, Complete
  <2>2. made'[o] = w
    BY <1>1, <1>8, <2>1, Elsewhere, Zenon
  <2> QED
    BY <2>2, Zenon DEF Provided
<1>13. Shared'
  <2> SUFFICES ASSUME scenario.prompt, NEW r \in MCPRoutes, seenSpec[r].is = "live", r \notin queue'
               PROVE  made'[Proxy] # "nil"
    BY <1>1, Zenon DEF Shared
  <2> QED
    BY <1>1, <1>8, Elsewhere, Zenon DEF Inv, Shared
<1>14. Tied' /\ Cleared'
  BY <1>6, Zenon DEF Tied, Cleared
<1> QED
  BY <1>9, <1>10, <1>11, <1>12, <1>13, <1>14, Zenon DEF Inv

-----------------------------------------------------------------------------
(* The user, the cache and the collector.                                  *)
LEMMA UserKeeps ==
  ASSUME Names, Inv, NEW R \in MCPRoutes, Apply(R) \/ DeleteRoute(R)
  PROVE  Inv'
<1>1. PICK s \in Spec1 : UserWrites(R, s) /\ s.is # "gone" /\ spec[R].is # "gone"
                         /\ (spec[R].is = "deleting" => s.is = "deleting")
  <2>1. CASE Apply(R)
    <3>1. PICK refs \in scenario.refs, auth \in scenario.auths :
            UserWrites(R, [is |-> "live", refs |-> refs, auth |-> auth])
      BY <2>1, Zenon DEF Apply
    <3>2. refs \in [Backends -> {"absent", "plain", "key"}] /\ auth \in {"none", "apiKey", "oauth"}
      BY DEF Inv, ResourcesTypeOK, Names
    <3>3. [is |-> "live", refs |-> refs, auth |-> auth] \in Spec1
      BY <3>2 DEF Spec1, RouteState
    <3>4. spec[R].is \in {"none", "live"}
      BY <2>1, Zenon DEF Apply
    <3> QED
      BY <3>1, <3>3, <3>4
  <2>2. CASE DeleteRoute(R)
    <3>1. spec[R].is = "live" /\ UserWrites(R, [spec[R] EXCEPT !.is = "deleting"])
      BY <2>2, Zenon DEF DeleteRoute
    <3>2. spec[R] \in Spec1
      BY DEF Inv, ResourcesTypeOK
    <3>3. [spec[R] EXCEPT !.is = "deleting"] \in Spec1 /\ [spec[R] EXCEPT !.is = "deleting"].is = "deleting"
      BY <3>2 DEF Spec1, RouteState
    <3> QED
      BY <3>1, <3>3, Zenon
  <2> QED
    BY <2>1, <2>2
<1>2. spec[R].is \notin {"deleting", "gone"}
  BY Zenon DEF Apply, DeleteRoute
<1>3. /\ changes < scenario.changes /\ changes' = changes + 1
      /\ spec' = [spec EXCEPT ![R] = s] /\ lagSpec' = lagSpec \cup {R}
      /\ UNCHANGED <<scenario, made, seenSpec, seenMade, lag, queue, task, failures>>
  BY <1>1, Zenon DEF UserWrites
<1>4. spec \in [MCPRoutes -> Spec1] /\ changes \in 0..scenario.changes /\ scenario.changes \in Nat
  BY DEF Inv, ResourcesTypeOK, Names
<1>5. spec' \in [MCPRoutes -> Spec1] /\ spec'[R] = s /\ \A r \in MCPRoutes : r # R => spec'[r] = spec[r]
  BY <1>3, <1>4
<1>6. ResourcesTypeOK'
  <2>1. changes' \in 0..scenario'.changes /\ lagSpec' \subseteq MCPRoutes
    BY <1>3, <1>4 DEF Inv, ResourcesTypeOK
  <2> QED
    BY <1>3, <1>5, <2>1, Zenon DEF Inv, ResourcesTypeOK
<1>7. Cached'
  <2>1. \A r \in MCPRoutes : /\ r \notin lagSpec' => seenSpec'[r] = spec'[r]
                             /\ seenSpec'[r].is \in {"deleting", "gone"} => spec'[r].is \in {"deleting", "gone"}
    BY <1>2, <1>3, <1>5 DEF Inv, Cached
  <2> QED
    BY <1>3, <2>1, Zenon DEF Inv, Cached
<1>8. Working' /\ Shared' /\ Tied' /\ Cleared'
  <2>1. Working'
    BY <1>3, Zenon DEF Inv, Working
  <2>2. Shared'
    BY <1>3, Zenon DEF Inv, Shared, Coming
  <2>3. Tied'
    BY <1>3, Zenon DEF Inv, Tied, Calm, Made, Dropped, Coming
  <2>4. Cleared'
    BY <1>3, Zenon DEF Inv, Cleared, Calm, Present, Removed, Coming, ListComing
  <2> QED
    BY <2>1, <2>2, <2>3, <2>4
<1>9. Complete'
  <2> SUFFICES ASSUME NEW r \in MCPRoutes, seenSpec[r].is = "live", spec'[r].is # "gone", r \notin queue,
                      NEW o \in Of(r), NEW w, w = Asked(seenSpec[r], o), w # "nil"
               PROVE  Provided(r, o, w)'
    BY <1>3, Zenon DEF Complete, Provided, Coming, ListComing
  <2>1. spec[r].is # "gone"
    BY <1>1, <1>5
  <2>2. Provided(r, o, w)
    BY <2>1, Zenon DEF Inv, Complete
  <2> QED
    BY <1>3, <2>2, Zenon DEF Provided, Coming, ListComing
<1> QED
  BY <1>6, <1>7, <1>8, <1>9, Zenon DEF Inv

LEMMA WatchRouteKeeps ==
  ASSUME Names, Inv, NEW R \in MCPRoutes, WatchRoute(R)
  PROVE  Inv'
<1>1. /\ lagSpec' = lagSpec \ {R} /\ seenSpec' = [seenSpec EXCEPT ![R] = spec[R]] /\ queue' = queue \cup {R}
      /\ UNCHANGED <<scenario, spec, made, seenMade, lag, task, changes, failures>>
  BY Zenon DEF WatchRoute
<1>2. spec \in [MCPRoutes -> Spec1] /\ seenSpec \in [MCPRoutes -> Spec1] /\ lagSpec \subseteq MCPRoutes /\ queue \subseteq MCPRoutes
  BY DEF Inv, ResourcesTypeOK
<1>3. /\ seenSpec' \in [MCPRoutes -> Spec1] /\ seenSpec'[R] = spec[R]
      /\ \A r \in MCPRoutes : r # R => seenSpec'[r] = seenSpec[r]
      /\ \A r \in MCPRoutes : r \notin queue' => r # R /\ r \notin queue
      /\ lagSpec' \subseteq MCPRoutes /\ queue' \subseteq MCPRoutes
  BY <1>1, <1>2
<1>4. ResourcesTypeOK'
  BY <1>1, <1>3, Zenon DEF Inv, ResourcesTypeOK
<1>5. Cached'
  <2>1. \A r \in MCPRoutes : /\ r \notin lagSpec' => seenSpec'[r] = spec'[r]
                             /\ seenSpec'[r].is \in {"deleting", "gone"} => spec'[r].is \in {"deleting", "gone"}
    BY <1>1, <1>3 DEF Inv, Cached
  <2> QED
    BY <1>1, <2>1, Zenon DEF Inv, Cached
<1>6. Working'
  <2> SUFFICES ASSUME task # NoTask PROVE Working'
    BY <1>1, Zenon DEF Working
  <2>1. task \in [route : MCPRoutes, spec : Spec1, todo : Seq(Calls)]
    BY Zenon DEF Inv, Working
  <2>2. task.route \in MCPRoutes
    BY <2>1
  <2>3. task.route \notin queue' => task.spec = seenSpec'[task.route]
    BY <1>3, <2>2, Zenon DEF Inv, Working
  <2>4. task.spec.is = "deleting" => seenSpec'[task.route].is \in {"deleting", "gone"}
    BY <1>3, <2>2, Zenon DEF Inv, Working, Cached
  <2> QED
    BY <1>1, <2>3, <2>4, Zenon DEF Inv, Working
<1>7. Complete'
  <2> SUFFICES ASSUME NEW r \in MCPRoutes, seenSpec'[r].is = "live", spec[r].is # "gone", r \notin queue',
                      NEW o \in Of(r), NEW w, w = Asked(seenSpec'[r], o), w # "nil"
               PROVE  Provided(r, o, w)'
    BY <1>1, Zenon DEF Complete, Provided, Coming, ListComing
  <2>1. Provided(r, o, w)
    BY <1>3, Zenon DEF Inv, Complete
  <2> QED
    BY <1>1, <2>1, Zenon DEF Provided, Coming, ListComing
<1>8. Shared'
  <2> SUFFICES ASSUME scenario.prompt, NEW r \in MCPRoutes, seenSpec'[r].is = "live", r \notin queue'
               PROVE  made[Proxy] # "nil" \/ Coming(r, ensureMCPProxyBackend)
    BY <1>1, Zenon DEF Shared, Coming
  <2> QED
    BY <1>3, Zenon DEF Inv, Shared
<1>9. Tied'
  BY <1>1, Zenon DEF Inv, Tied, Calm, Made, Dropped, Coming
<1>10. Cleared'
  <2>1. Calm' <=> Calm
    BY <1>1, Zenon DEF Calm
  <2>2. ASSUME Calm, NEW r \in MCPRoutes, NEW u, u = Present(r)', u.is = "live", task.route = r \/ r \notin queue',
               NEW o \in Of(r), Asked(u, o) = "nil"
        PROVE  Removed(r, o)'
    <3>1. u = Present(r) /\ (task.route = r \/ r \notin queue)
      BY <1>1, <1>3, <2>2, Zenon DEF Present
    <3>2. Removed(r, o)
      BY <2>2, <3>1, Zenon DEF Inv, Cleared
    <3> QED
      BY <1>1, <3>2, Zenon DEF Removed, Coming, ListComing
  <2> QED
    BY <1>1, <2>1, <2>2, Zenon DEF Cleared
<1> QED
  BY <1>4, <1>5, <1>6, <1>7, <1>8, <1>9, <1>10, Zenon DEF Inv

LEMMA WatchKeeps ==
  ASSUME Names, Inv, NEW p \in Object, WatchObject(p)
  PROVE  Inv'
<1>1. /\ lag' = lag \ {p} /\ seenMade' = [seenMade EXCEPT ![p] = made[p]]
      /\ queue \subseteq queue' /\ queue' \subseteq queue \cup MCPRoutes
      /\ UNCHANGED <<scenario, spec, made, seenSpec, lagSpec, task, changes, failures>>
  BY DEF WatchObject
<1>2. made \in [Object -> Content] /\ seenMade \in [Object -> Content] /\ lag \subseteq Object /\ queue \subseteq MCPRoutes
  BY DEF Inv, ResourcesTypeOK
<1>3. /\ seenMade' \in [Object -> Content] /\ seenMade'[p] = made[p] /\ \A o \in Object : o # p => seenMade'[o] = seenMade[o]
      /\ lag' \subseteq Object /\ queue' \subseteq MCPRoutes
  BY <1>1, <1>2
<1>4. \A r : r \notin queue' => r \notin queue
  BY <1>1
<1>5. ResourcesTypeOK'
  BY <1>1, <1>3, Zenon DEF Inv, ResourcesTypeOK
<1>6. Cached'
  <2>1. \A o \in Object \ lag' : seenMade'[o] = made'[o]
    BY <1>1, <1>3 DEF Inv, Cached
  <2> QED
    BY <1>1, <2>1, Zenon DEF Inv, Cached
<1>7. Working'
  <2>1. \A S : S \cap lag = {} => S \cap lag' = {}
    BY <1>1
  <2> QED
    BY <1>1, <1>4, <2>1, Zenon DEF Inv, Working
<1>8. Complete'
  <2> SUFFICES ASSUME NEW r \in MCPRoutes, seenSpec[r].is = "live", spec[r].is # "gone", r \notin queue',
                      NEW o \in Of(r), NEW w, w = Asked(seenSpec[r], o), w # "nil"
               PROVE  Provided(r, o, w)'
    BY <1>1, Zenon DEF Complete, Provided, Coming, ListComing
  <2>1. Provided(r, o, w)
    BY <1>4, Zenon DEF Inv, Complete
  <2> QED
    BY <1>1, <2>1, Zenon DEF Provided, Coming, ListComing
<1>9. Shared'
  BY <1>1, <1>4, Zenon DEF Inv, Shared, Coming
<1>10. Tied'
  BY <1>1, Zenon DEF Inv, Tied, Calm, Made, Dropped, Coming
<1>11. Cleared'
  <2>1. Calm' <=> Calm
    BY <1>1, Zenon DEF Calm
  <2>2. ASSUME Calm, NEW r \in MCPRoutes, NEW u, u = Present(r)', u.is = "live", task.route = r \/ r \notin queue',
               NEW o \in Of(r), Asked(u, o) = "nil"
        PROVE  Removed(r, o)'
    <3>1. u = Present(r) /\ (task.route = r \/ r \notin queue)
      BY <1>1, <1>4, <2>2, Zenon DEF Present
    <3>2. Removed(r, o)
      BY <2>2, <3>1, Zenon DEF Inv, Cleared
    <3> QED
      BY <1>1, <3>2, Zenon DEF Removed, Coming, ListComing
  <2> QED
    BY <1>1, <2>1, <2>2, Zenon DEF Cleared
<1> QED
  BY <1>5, <1>6, <1>7, <1>8, <1>9, <1>10, <1>11, Zenon DEF Inv

LEMMA CollectKeeps ==
  ASSUME Names, Inv, NEW R \in MCPRoutes, Collect(R)
  PROVE  Inv'
<1>1. /\ spec[R].is = "gone"
      /\ made' = [o \in Object |-> IF o \in Of(R) THEN "nil" ELSE made[o]]
      /\ seenMade' = [o \in Object |-> IF o \in Of(R) THEN "nil" ELSE seenMade[o]]
      /\ lag' = lag \ Of(R)
      /\ UNCHANGED <<scenario, spec, seenSpec, lagSpec, queue, task, changes, failures>>
  BY Zenon DEF Collect, Of
<1>2. made \in [Object -> Content] /\ seenMade \in [Object -> Content] /\ lag \subseteq Object /\ "nil" \in Content
  BY DEF Inv, ResourcesTypeOK, Content
<1>3. /\ made' \in [Object -> Content] /\ seenMade' \in [Object -> Content] /\ lag' \subseteq Object
      /\ \A o \in Of(R) : made'[o] = "nil"
      /\ \A o \in Object \ lag' : seenMade[o] = made[o] \/ o \in Of(R)
      /\ \A o \in Object : o \in Of(R) => made'[o] = "nil" /\ seenMade'[o] = "nil"
      /\ \A o \in Object : o \notin Of(R) => made'[o] = made[o] /\ seenMade'[o] = seenMade[o]
  BY <1>1, <1>2 DEF Inv, Cached, Of
<1>4. \A r \in MCPRoutes : \A o \in Of(r) : o \in Object /\ (r # R => o \notin Of(R))
  BY DEF Of
<1>5. Proxy \in Object /\ Proxy \notin Of(R)
  BY ProxyFacts DEF Names, Of
<1>6. ResourcesTypeOK'
  BY <1>1, <1>3, Zenon DEF Inv, ResourcesTypeOK
<1>7. Cached'
  <2>1. \A o \in Object \ lag' : seenMade'[o] = made'[o]
    BY <1>3, Zenon
  <2> QED
    BY <1>1, <2>1, Zenon DEF Inv, Cached
<1>8. Working'
  <2>1. \A S : S \cap lag = {} => S \cap lag' = {}
    BY <1>1
  <2> QED
    BY <1>1, <2>1, Zenon DEF Inv, Working
<1>9. Complete'
  <2> SUFFICES ASSUME NEW r \in MCPRoutes, seenSpec[r].is = "live", spec[r].is # "gone", r \notin queue,
                      NEW o \in Of(r), NEW w, w = Asked(seenSpec[r], o), w # "nil"
               PROVE  Provided(r, o, w)'
    <3>1. UNCHANGED <<spec, seenSpec, queue>>
      BY <1>1, Zenon
    <3> QED
      BY <3>1, Zenon DEF Complete, Provided, Coming, ListComing
  <2>1. Provided(r, o, w)
    BY Zenon DEF Inv, Complete
  <2>2. made'[o] = made[o]
    BY <1>1, <1>3, <1>4, Zenon
  <2> QED
    BY <1>1, <2>1, <2>2, Zenon DEF Provided, Coming, ListComing
<1>10. Shared'
  <2>1. made'[Proxy] = made[Proxy]
    BY <1>3, <1>5, Zenon
  <2> QED
    BY <1>1, <2>1, Zenon DEF Inv, Shared, Coming
<1>11. Tied'
  <2>1. Calm' <=> Calm
    BY <1>1, Zenon DEF Calm
  <2>2. ASSUME Calm, NEW r \in MCPRoutes, NEW b \in Backends
        PROVE  /\ made'[Obj(r, "cred", b)] # "nil" =>
                    (Made(r, b, "filter", "key")' /\ Made(r, b, "http", "set")') \/ Dropped(r, b, "cred")'
               /\ made'[Obj(r, "filter", b)] # "nil" => Made(r, b, "http", "set")' \/ Dropped(r, b, "filter")'
    <3>1. Obj(r, "cred", b) \in Of(r) /\ Obj(r, "filter", b) \in Of(r) /\ Obj(r, "http", b) \in Of(r)
      BY Objects DEF OfBackend
    <3>2. CASE r = R
      BY <1>3, <3>1, <3>2, Zenon
    <3>3. CASE r # R
      <4>1. /\ made'[Obj(r, "cred", b)] = made[Obj(r, "cred", b)]
            /\ made'[Obj(r, "filter", b)] = made[Obj(r, "filter", b)]
            /\ made'[Obj(r, "http", b)] = made[Obj(r, "http", b)]
        BY <1>3, <1>4, <3>1, <3>3, Zenon
      <4>2. /\ made[Obj(r, "cred", b)] # "nil" =>
                 (Made(r, b, "filter", "key") /\ Made(r, b, "http", "set")) \/ Dropped(r, b, "cred")
            /\ made[Obj(r, "filter", b)] # "nil" => Made(r, b, "http", "set") \/ Dropped(r, b, "filter")
        BY <2>2, Zenon DEF Inv, Tied
      <4> QED
        BY <1>1, <4>1, <4>2, Zenon DEF Made, Dropped, Coming
    <3> QED
      BY <3>2, <3>3
  <2> QED
    BY <2>1, <2>2, Zenon DEF Tied
<1>12. Cleared'
  <2>1. Calm' <=> Calm
    BY <1>1, Zenon DEF Calm
  <2>2. ASSUME Calm, NEW r \in MCPRoutes, NEW u, u = Present(r)', u.is = "live", task.route = r \/ r \notin queue,
               NEW o \in Of(r), Asked(u, o) = "nil"
        PROVE  Removed(r, o)'
    <3>1. u = Present(r)
      BY <1>1, <2>2, Zenon DEF Present
    <3>2. Removed(r, o)
      BY <2>2, <3>1, Zenon DEF Inv, Cleared
    <3>3. made'[o] = "nil" \/ made'[o] = made[o]
      BY <1>3, <1>4, <2>2, Zenon
    <3> QED
      BY <1>1, <3>2, <3>3, Zenon DEF Removed, Coming, ListComing
  <2> QED
    BY <1>1, <2>1, <2>2, Zenon DEF Cleared
<1> QED
  BY <1>6, <1>7, <1>8, <1>9, <1>10, <1>11, <1>12, Zenon DEF Inv

-----------------------------------------------------------------------------
LEMMA StepKeeps ==
  ASSUME Names, Inv, Step
  PROVE  Inv'
<1>0. PICK c : c = Head(task.todo)
  OBVIOUS
<1>1. CASE c.verb = "list" /\ Proceed(AfterList(task.route, task.spec)) /\ UNCHANGED <<spec, made, lagSpec, lag, queue, failures>>
  <2>1. Lists(c)
    BY <1>0, <1>1, Zenon DEF Step, Lists
  <2> QED
    BY <2>1, ListKeeps
<1>2. CASE /\ Ensure(c) \/ Cleanup(c) \/ Put(c) \/ Unlink(c) \/ ReleaseProxy(c)
           /\ Proceed(Tail(task.todo)) /\ UNCHANGED <<spec, lagSpec, queue, failures>>
  <2>1. Wrote(c) /\ c.verb # "list"
    BY <1>0, <1>2, Written, Zenon DEF Inv, Step
  <2>2. Called(c) /\ Went
    BY <1>0, <1>2, <2>1, Zenon DEF Step, Called, Went
  <2> QED
    BY <2>2, CallKeeps
<1>3. CASE Finalize(c) /\ Proceed(Tail(task.todo)) /\ UNCHANGED <<queue, failures>>
  <2>1. Wrote(c) /\ c.verb # "list"
    BY <1>0, <1>3, Written, Zenon DEF Inv, Step
  <2>2. Called(c)
    BY <1>0, <1>3, <2>1, Zenon DEF Step, Called
  <2>3. task.route \in MCPRoutes
    BY <2>2, HeadFacts, Zenon DEF AtHead
  <2>4. spec' = [spec EXCEPT ![task.route].is = "gone"] /\ lagSpec' = lagSpec \cup {task.route}
    BY <1>3, Zenon DEF Finalize
  <2>5. spec \in [MCPRoutes -> Spec1]
    BY DEF Inv, ResourcesTypeOK
  <2>6. /\ spec' \in [MCPRoutes -> Spec1] /\ spec'[task.route].is = "gone"
        /\ \A r \in MCPRoutes \ {task.route} : spec'[r] = spec[r]
    BY <2>3, <2>4, <2>5 DEF Spec1, RouteState
  <2>7. Went
    BY <2>4, <2>6, Zenon DEF Went
  <2> QED
    BY <2>2, <2>7, CallKeeps
<1> QED
  BY <1>0, <1>1, <1>2, <1>3, Zenon DEF Step

LEMMA InvInit ==
  ASSUME Names, ResourcesInit
  PROVE  Inv
<1>1. /\ scenario \in Scenarios /\ lagSpec = {} /\ lag = {} /\ queue = {} /\ task = NoTask /\ changes = 0 /\ failures = 0
      /\ spec = [r \in MCPRoutes |-> NoRoute] /\ seenSpec = spec /\ made = [o \in Object |-> "nil"] /\ seenMade = made
  BY Zenon DEF ResourcesInit
<1>2. NoRoute \in Spec1 /\ NoRoute.is = "none" /\ "nil" \in Content
  BY DEF NoRoute, NoRefs, Spec1, RouteState, Content
<1>3. /\ \A r \in MCPRoutes : seenSpec[r] = NoRoute /\ spec[r] = NoRoute
      /\ \A o \in Object : made[o] = "nil"
      /\ task.route = "none"
  BY <1>1 DEF NoTask
<1>4. ResourcesTypeOK
  <2>1. scenario.changes \in Nat /\ MaxFailures \in Nat
    BY <1>1 DEF Names
  <2>2. changes \in 0..scenario.changes /\ failures \in 0..MaxFailures
    BY <1>1, <2>1
  <2>3. spec \in [MCPRoutes -> Spec1] /\ seenSpec \in [MCPRoutes -> Spec1]
    BY <1>1, <1>2
  <2>4. made \in [Object -> Content] /\ seenMade \in [Object -> Content]
    BY <1>1, <1>2
  <2>5. lagSpec \subseteq MCPRoutes /\ lag \subseteq Object /\ queue \subseteq MCPRoutes
    BY <1>1
  <2> QED
    BY <1>1, <2>2, <2>3, <2>4, <2>5, Zenon DEF ResourcesTypeOK
<1>5. Cached
  BY <1>1, <1>2, <1>3 DEF Cached
<1>6. Working
  BY <1>1, Zenon DEF Working
<1>7. Complete /\ Shared
  BY <1>2, <1>3 DEF Complete, Shared
<1>8. Tied
  <2>1. \A r \in MCPRoutes, b \in Backends, p \in OfBackend : Obj(r, p, b) \in Object
    BY Objects DEF Of
  <2>2. \A r \in MCPRoutes, b \in Backends : made[Obj(r, "cred", b)] = "nil" /\ made[Obj(r, "filter", b)] = "nil"
    BY <1>3, <2>1 DEF OfBackend
  <2> QED
    BY <2>2, Zenon DEF Tied
<1>9. Cleared
  <2>1. \A r \in MCPRoutes : \A o \in Of(r) : made[o] = "nil"
    BY <1>3 DEF Of
  <2> QED
    BY <2>1, Zenon DEF Cleared, Removed
<1> QED
  BY <1>4, <1>5, <1>6, <1>7, <1>8, <1>9, Zenon DEF Inv

LEMMA InvStep ==
  ASSUME Names, Inv, [ResourcesNext]_resources
  PROVE  Inv'
<1>1. CASE ResourcesNext
  BY <1>1, UserKeeps, WatchRouteKeeps, StartKeeps, CollectKeeps, WatchKeeps, StepKeeps, FailKeeps, Zenon DEF ResourcesNext
<1>2. CASE UNCHANGED resources
  <2>1. /\ scenario' = scenario /\ spec' = spec /\ made' = made /\ seenSpec' = seenSpec /\ seenMade' = seenMade
        /\ lagSpec' = lagSpec /\ lag' = lag /\ queue' = queue /\ task' = task
        /\ changes' = changes /\ failures' = failures
    BY <1>2 DEF resources
  <2>2. ResourcesTypeOK' /\ Cached' /\ Working'
    BY <2>1, Zenon DEF Inv, ResourcesTypeOK, Cached, Working
  <2>3. Complete' /\ Shared'
    BY <2>1, Zenon DEF Inv, Complete, Shared, Provided, Coming, ListComing
  <2>4. Tied' /\ Cleared'
    BY <2>1, Zenon DEF Inv, Tied, Cleared, Calm, Made, Dropped, Present, Removed, Coming, ListComing
  <2> QED
    BY <2>2, <2>3, <2>4, Zenon DEF Inv
<1> QED
  BY <1>1, <1>2

(* When the controller rests, nothing is coming.                           *)
LEMMA RestFacts ==
  ASSUME Names, Inv, NothingToDo
  PROVE  /\ \A r \in MCPRoutes : seenSpec[r] = spec[r] /\ r \notin queue /\ task.route # r
         /\ \A o \in Object : \A r \in MCPRoutes : o.route = r => o \in Of(r)
<1>1. lagSpec = {} /\ queue = {} /\ task = NoTask
  BY DEF NothingToDo
<1>2. \A r \in MCPRoutes : seenSpec[r] = spec[r]
  BY <1>1, Zenon DEF Inv, Cached
<1>3. \A r \in MCPRoutes : r \notin queue /\ task.route # r
  BY <1>1, Idle
<1> QED
  BY <1>2, <1>3 DEF Of

LEMMA ThenNothingMissing ==
  ASSUME Names, Inv
  PROVE  NothingMissing
<1> SUFFICES ASSUME NothingToDo PROVE NothingMissing
  BY Zenon DEF NothingMissing
<1>1. /\ \A r \in MCPRoutes : seenSpec[r] = spec[r] /\ r \notin queue /\ task.route # r
      /\ \A o \in Object : \A r \in MCPRoutes : o.route = r => o \in Of(r)
  BY RestFacts, Zenon
<1>2. ASSUME NEW o \in Object, NEW r \in MCPRoutes, o.route = r, spec[r].is = "live",
             NEW w, w = Wanted(spec[r], o.part, o.of), w # "nil"
      PROVE  made[o] = w
  <2>1. o \in Of(r) /\ seenSpec[r].is = "live" /\ spec[r].is # "gone" /\ w = Asked(seenSpec[r], o)
    BY <1>1, <1>2 DEF Asked
  <2>2. Provided(r, o, w)
    BY <1>1, <1>2, <2>1, Zenon DEF Inv, Complete
  <2> QED
    BY <1>1, <2>2, Elsewhere, Zenon
<1>3. ASSUME scenario.prompt, NEW r \in MCPRoutes, spec[r].is = "live" PROVE made[Proxy] # "nil"
  BY <1>1, <1>3, Elsewhere, Zenon DEF Inv, Shared
<1>4. ASSUME NEW o \in Object, OfLive(o), Wanted(spec[o.route], o.part, o.of) # "nil"
      PROVE  made[o] = Wanted(spec[o.route], o.part, o.of)
  BY <1>2, <1>4, Zenon DEF OfLive
<1> QED
  BY <1>3, <1>4, Zenon DEF NothingMissing

LEMMA ThenTidy ==
  ASSUME Names, Inv
  PROVE  Tidy
<1> SUFFICES ASSUME scenario.prompt, failures = 0, NothingToDo, NEW o \in Object, OfLive(o),
                    Wanted(spec[o.route], o.part, o.of) = "nil"
             PROVE  made[o] = "nil"
  BY Zenon DEF Tidy, NothingLeft
<1>1. PICK r \in MCPRoutes : o.route = r /\ spec[r].is = "live"
  BY Zenon DEF OfLive
<1>2. seenSpec[r] = spec[r] /\ r \notin queue /\ task.route # r /\ o \in Of(r)
  BY <1>1, RestFacts, Zenon
<1>3. Present(r) = spec[r] /\ Asked(Present(r), o) = "nil"
  BY <1>1, <1>2, Zenon DEF Present, Asked
<1>4. Removed(r, o)
  BY <1>1, <1>2, <1>3, Zenon DEF Inv, Cleared, Calm
<1> QED
  BY <1>2, <1>4, Elsewhere, Zenon

-----------------------------------------------------------------------------
(* The variables keep their types, and the calls of a reconcile keep to    *)
(* the plan: each sets or removes an object of the route that is           *)
(* reconciled, as the route asks.                                          *)
THEOREM TypeCorrect == ResourcesSpec => []ResourcesTypeOK
<1>1. ResourcesInit => Inv
  BY InvInit, ResourcesAssumption
<1>2. Inv /\ [ResourcesNext]_resources => Inv'
  BY InvStep, ResourcesAssumption
<1>3. Inv => ResourcesTypeOK
  BY DEF Inv
<1> QED
  BY <1>1, <1>2, <1>3, PTL DEF ResourcesSpec

(* When the MCPRoute controller rests, every object that a live route      *)
(* calls for is there and holds what the route says now, however many      *)
(* calls failed or met a cache that was behind, and so is the proxy        *)
(* Backend when the cache is prompt (syncMCPRoute).  While no call fails   *)
(* and the cache is prompt, nothing is left of the backends and policies   *)
(* that were taken out of a route: the HTTPRoute of a backend stays until  *)
(* its filter and credential are about to be deleted, so that a reconcile  *)
(* finds them by it (deleteOrphanedPerBackendResources).                   *)
THEOREM AsAsked == ResourcesSpec => []ResourcesAsAsked
<1>1. ResourcesInit => Inv
  BY InvInit, ResourcesAssumption
<1>2. Inv /\ [ResourcesNext]_resources => Inv'
  BY InvStep, ResourcesAssumption
<1>3. Inv => ResourcesAsAsked
  BY ThenNothingMissing, ThenTidy, ResourcesAssumption DEF ResourcesAsAsked
<1> QED
  BY <1>1, <1>2, <1>3, PTL DEF ResourcesSpec
=============================================================================
