------------------------- MODULE MCPResources_calls -------------------------
(***************************************************************************)
(* Facts about the calls that a reconcile of MCPResources makes, and the   *)
(* inductive invariant, for any routes and backends, any choice of the     *)
(* user and any number of changes and failures.                            *)
(***************************************************************************)
EXTENDS MCPResources, TLAPS

-----------------------------------------------------------------------------
(* The calls of a reconcile.                                               *)

Of(r) == {o \in Object : o.route = r}

Asked(s, o) == Wanted(s, o.part, o.of)

Calls ==
  [verb : {"ensure", "list", "put", "unlink", "drop", "cleanup", "release", "finalize"},
   obj : Object \cup [route : MCPRoutes, part : {"http"}, of : {"route"}], val : Content]

(* c is a call for route r with this spec: it sets an object to what the   *)
(* route asks for, or removes one the route does not ask for.              *)
Fits(c, r, s) ==
  \/ /\ s.is = "live"
     /\ \/ c = ensureMCPProxyBackend
        \/ c = listExistingPerBackendHTTPRoutes(r)
        \/ c.verb = "ensure" /\ c.obj \in Of(r) /\ c.obj.part # "cred" /\ c.val = Asked(s, c.obj) /\ c.val # "nil"
        \/ c.verb = "put" /\ c.obj \in Of(r) /\ c.obj.part = "cred" /\ c.val = "set" /\ s.refs[c.obj.of] = "key"
        \/ c.verb = "unlink" /\ c.obj \in Of(r) /\ c.obj.part = "filter" /\ s.refs[c.obj.of] = "plain"
        \/ c.verb = "drop" /\ c.obj \in Of(r) /\ c.obj.part \in OfBackend /\ c.val = "nil" /\ s.refs[c.obj.of] = "absent"
        \/ c.verb = "cleanup" /\ c.obj \in Of(r) /\ c.obj.part \in OfRoute /\ c.val = "nil" /\ Asked(s, c.obj) = "nil"
  \/ s.is = "deleting" /\ c.verb \in {"release", "finalize"} /\ c.obj = Proxy

(* The object a call writes, and those it must find as they are in the API *)
(* server; the list decides on everything that follows it.                 *)
Beside(o, p) == Obj(o.route, p, o.of)

Target(c) == IF c.verb = "unlink" THEN Beside(c.obj, "cred") ELSE c.obj

Reads(c) ==
  IF c.verb = "list" THEN {o \in Object : o.part \notin {"proxy", "main"}}
  ELSE IF c.verb = "unlink" THEN {c.obj, Target(c)}
  ELSE IF c.verb \in {"release", "finalize"} THEN {} ELSE {c.obj}

(* No call reads what an earlier one writes.                               *)
Apart(todo) == \A i, j \in 1..Len(todo) : i < j => Target(todo[i]) \notin Reads(todo[j])

(* The calls for a backend follow each other.                              *)
Then(todo, i, c) == i < Len(todo) /\ todo[i + 1] = c

Follows(todo) ==
  \A i \in 1..Len(todo) :
    LET c == todo[i]
    IN  /\ c.verb = "list" => i = Len(todo)
        /\ c.verb = "put" => Then(todo, i, Call("ensure", Beside(c.obj, "filter"), "key"))
        /\ c.verb = "ensure" /\ c.obj.part = "filter" => Then(todo, i, Call("ensure", Beside(c.obj, "http"), "set"))
        /\ c.verb = "drop" /\ c.obj.part = "http" => Then(todo, i, Call("drop", Beside(c.obj, "filter"), "nil"))
        /\ c.verb = "drop" /\ c.obj.part = "filter" => Then(todo, i, Call("drop", Beside(c.obj, "cred"), "nil"))

Has(todo, c) == \E i \in 1..Len(todo) : todo[i] = c

Planned(todo, r, s) ==
  /\ todo \in Seq(Calls)
  /\ \A i \in 1..Len(todo) : Fits(todo[i], r, s)
  /\ Apart(todo) /\ Follows(todo)

-----------------------------------------------------------------------------
(* The inductive invariant.                                                *)

(* The cache, where it is not behind, and the way of a route.              *)
Cached ==
  /\ \A o \in Object \ lag : seenMade[o] = made[o]
  /\ \A r \in MCPRoutes : /\ r \notin lagSpec => seenSpec[r] = spec[r]
                          /\ seenSpec[r].is \in {"deleting", "gone"} => spec[r].is \in {"deleting", "gone"}

(* The reconcile works with the route as the cache has it, or the route is *)
(* queued again; with a prompt cache it reads what is there.               *)
Working ==
  task # NoTask =>
    /\ task \in [route : MCPRoutes, spec : Spec1, todo : Seq(Calls)] /\ task.todo # <<>>
    /\ Planned(task.todo, task.route, task.spec)
    /\ task.route \notin queue => task.spec = seenSpec[task.route]
    /\ task.spec.is = "deleting" => seenSpec[task.route].is \in {"deleting", "gone"}
    /\ scenario.prompt => \A i \in 1..Len(task.todo) : Reads(task.todo[i]) \cap lag = {}

Coming(r, c) == task.route = r /\ Has(task.todo, c)

ListComing(r) == Coming(r, listExistingPerBackendHTTPRoutes(r))

(* What a route asks for is there, or will be set.                         *)
Provided(r, o, w) ==
  \/ made[o] = w
  \/ Coming(r, Call("ensure", o, w)) \/ Coming(r, Call("put", o, w))
  \/ o.part # "main" /\ ListComing(r)

Complete ==
  \A r \in MCPRoutes :
    seenSpec[r].is = "live" /\ spec[r].is # "gone" /\ r \notin queue =>
      \A o \in Of(r) : Asked(seenSpec[r], o) # "nil" => Provided(r, o, Asked(seenSpec[r], o))

Shared ==
  scenario.prompt =>
    \A r \in MCPRoutes : seenSpec[r].is = "live" /\ r \notin queue =>
                        made[Proxy] # "nil" \/ Coming(r, ensureMCPProxyBackend)

(* With a prompt cache and no faults: the HTTPRoute of a backend is the    *)
(* sign that it has a filter and a credential, and the filter that it has  *)
(* a credential, except while they are made or removed.                    *)
Calm == scenario.prompt /\ failures = 0

Made(r, b, p, w) == made[Obj(r, p, b)] = w \/ Coming(r, Call("ensure", Obj(r, p, b), w))

Dropped(r, b, p) == Coming(r, Call("drop", Obj(r, p, b), "nil"))

Tied ==
  Calm => \A r \in MCPRoutes, b \in Backends :
    /\ made[Obj(r, "cred", b)] # "nil" =>
         (Made(r, b, "filter", "key") /\ Made(r, b, "http", "set")) \/ Dropped(r, b, "cred")
    /\ made[Obj(r, "filter", b)] # "nil" => Made(r, b, "http", "set") \/ Dropped(r, b, "filter")

(* What a route does not ask for is not there, or will be removed.         *)
Removed(r, o) ==
  \/ made[o] = "nil"
  \/ Coming(r, Call("drop", o, "nil")) \/ Coming(r, Call("cleanup", o, "nil"))
  \/ o.part = "cred" /\ Coming(r, Call("unlink", Beside(o, "filter"), "plain"))
  \/ ListComing(r)

Present(r) == IF task.route = r THEN task.spec ELSE seenSpec[r]

Cleared ==
  Calm => \A r \in MCPRoutes :
    Present(r).is = "live" /\ (task.route = r \/ r \notin queue) =>
      \A o \in Of(r) : Asked(Present(r), o) = "nil" => Removed(r, o)

Inv == ResourcesTypeOK /\ Cached /\ Working /\ Complete /\ Shared /\ Tied /\ Cleared
-----------------------------------------------------------------------------
(* The objects of a route and their names.                                 *)

LEMMA Objects ==
  ASSUME NEW r \in MCPRoutes
  PROVE  /\ \A p \in OfBackend, b \in Backends : Obj(r, p, b) \in Of(r)
         /\ \A p \in OfRoute : Obj(r, p, "route") \in Of(r)
         /\ \A o \in Of(r) : \/ o.part \in OfBackend /\ o.of \in Backends
                             \/ "shared" \in MCPRoutes
                             \/ o.part \in OfRoute /\ o.of = "route"
         /\ \A o \in Of(r) : o = Obj(r, o.part, o.of) /\ o \in Object /\ o.route = r
  BY DEF Of, Obj, Object

LEMMA ProxyFacts == Proxy \in Object /\ Proxy.route = "shared" /\ Proxy.part = "proxy"
  BY DEF Proxy, Obj, Object

LEMMA CallFacts ==
  ASSUME NEW v, NEW o, NEW x
  PROVE  Call(v, o, x).verb = v /\ Call(v, o, x).obj = o /\ Call(v, o, x).val = x
  BY DEF Call

LEMMA ObjFacts ==
  ASSUME NEW r, NEW p, NEW b
  PROVE  Obj(r, p, b).route = r /\ Obj(r, p, b).part = p /\ Obj(r, p, b).of = b
  BY DEF Obj

LEMMA Empty == Len(<<>>) = 0
  OBVIOUS

LEMMA SameElements ==
  ASSUME NEW U, NEW s \in Seq(U), NEW t \in Seq(U), Len(s) = Len(t),
         \A i \in 1..Len(s) : s[i] = t[i]
  PROVE  s = t
  OBVIOUS

LEMMA Tuples ==
  /\ \A a, b, c : Append(<<a, b>>, c) = <<a, b, c>>
  /\ \A a, b, c, d : <<a>> \o <<b, c, d>> = <<a, b, c, d>>
<1>1. ASSUME NEW a, NEW b, NEW c PROVE Append(<<a, b>>, c) = <<a, b, c>>
  <2> DEFINE U == {a, b, c}
  <2>1. <<a, b>> \in Seq(U) /\ <<a, b, c>> \in Seq(U) /\ c \in U
    OBVIOUS
  <2>2. Append(<<a, b>>, c) \in Seq(U) /\ Len(Append(<<a, b>>, c)) = 3
    BY <2>1
  <2>3. \A i \in 1..3 : Append(<<a, b>>, c)[i] = <<a, b, c>>[i]
    BY <2>1
  <2> QED
    BY <2>1, <2>2, <2>3, SameElements, Zenon
<1>2. ASSUME NEW a, NEW b, NEW c, NEW d PROVE <<a>> \o <<b, c, d>> = <<a, b, c, d>>
  <2> DEFINE U == {a, b, c, d}
  <2>1. <<a>> \in Seq(U) /\ <<b, c, d>> \in Seq(U) /\ <<a, b, c, d>> \in Seq(U)
    OBVIOUS
  <2>2. Len(<<a>> \o <<b, c, d>>) = 4
    BY <2>1
  <2>3. \A i \in 1..4 : (<<a>> \o <<b, c, d>>)[i] = <<a, b, c, d>>[i]
    BY <2>1
  <2>4. <<a>> \o <<b, c, d>> \in Seq(U)
    BY <2>1
  <2> QED
    BY <2>1, <2>2, <2>3, <2>4, SameElements, Zenon
<1> QED
  BY <1>1, <1>2

-----------------------------------------------------------------------------
(* Sequences: the order of a set, and the calls for each of its elements.  *)

LEMMA InOrder ==
  ASSUME NEW S, Ordered(S)
  PROVE  /\ Cardinality(S) \in Nat
         /\ Order(S) \in [1..Cardinality(S) -> S]
         /\ \A i, j \in 1..Cardinality(S) : Order(S)[i] = Order(S)[j] => i = j
         /\ \A x \in S : \E i \in 1..Cardinality(S) : Order(S)[i] = x
<1>1. Cardinality(S) \in Nat /\ \E f \in Orders(S) : TRUE
  BY DEF Ordered
<1>2. Order(S) \in Orders(S)
  BY <1>1, Zenon DEF Order
<1> DEFINE o == Order(S)
           n == Cardinality(S)
<1>3. /\ o \in [1..n -> S] /\ DOMAIN o = 1..n
      /\ \A x \in S : \E i \in 1..n : \A j \in 1..n : o[j] = x <=> j = i
  BY <1>2 DEF Orders
<1> HIDE DEF o, n
<1>4. \A i, j \in 1..n : o[i] = o[j] => i = j
  BY <1>3
<1>5. \A x \in S : \E i \in 1..n : o[i] = x
  BY <1>3, Zenon
<1> QED
  BY <1>1, <1>3, <1>4, <1>5, Zenon DEF o, n

InTurn(seq, calls, D, U) ==
  /\ seq \in Seq(U) /\ Len(seq) = 3 * Cardinality(D)
  /\ \A k \in 1..Cardinality(D), m \in 1..3 :
       3 * k - 3 + m \in 1..Len(seq) /\ seq[3 * k - 3 + m] = calls[Order(D)[k]][m]

LEMMA EachCall ==
  ASSUME NEW U, NEW D, Ordered(D), NEW calls, DOMAIN calls = D,
         \A b \in D : \A m \in 1..3 : calls[b][m] \in U
  PROVE  InTurn(Each(calls), calls, D, U)
<1> DEFINE n == Cardinality(D)
           order == Order(D)
           E == [i \in 1..(3 * n) |-> calls[order[(i + 2) \div 3]][((i + 2) % 3) + 1]]
<1>1. Each(calls) = E
  BY DEF Each
<1>2. n \in Nat /\ order \in [1..n -> D]
  BY InOrder
<1> HIDE DEF n, order
<1>3. \A i \in 1..(3 * n) : /\ (i + 2) \div 3 \in 1..n /\ ((i + 2) % 3) + 1 \in 1..3
                            /\ i = 3 * ((i + 2) \div 3) - 3 + (((i + 2) % 3) + 1)
  BY <1>2
<1>4. \A i \in 1..(3 * n) : E[i] \in U
  BY <1>2, <1>3
<1>5. E \in Seq(U) /\ Len(E) = 3 * n
  BY <1>2, <1>4
<1>6. \A k \in 1..n, m \in 1..3 : /\ 3 * k - 3 + m \in 1..(3 * n)
                                  /\ (3 * k - 3 + m + 2) \div 3 = k
                                  /\ ((3 * k - 3 + m + 2) % 3) + 1 = m
  BY <1>2
<1>7. \A k \in 1..n, m \in 1..3 : E[3 * k - 3 + m] = calls[order[k]][m]
  BY <1>6, Zenon
<1> HIDE DEF E
<1>8. /\ Each(calls) \in Seq(U) /\ Len(Each(calls)) = 3 * n
      /\ \A k \in 1..n, m \in 1..3 : /\ 3 * k - 3 + m \in 1..(3 * n)
                                     /\ Each(calls)[3 * k - 3 + m] = calls[order[k]][m]
  BY <1>1, <1>5, <1>6, <1>7, Zenon
<1> QED
  BY <1>8, Zenon DEF n, order, InTurn

(* What is left of the calls after the first one.                          *)
LEMMA Rest ==
  ASSUME NEW r, NEW s, NEW todo, todo # <<>>, Planned(todo, r, s)
  PROVE  /\ Head(todo) \in Calls /\ Fits(Head(todo), r, s)
         /\ Planned(Tail(todo), r, s)
         /\ \A c : Has(todo, c) <=> c = Head(todo) \/ Has(Tail(todo), c)
         /\ \A i \in 1..Len(Tail(todo)) : Target(Head(todo)) \notin Reads(Tail(todo)[i])
         /\ \A c : Then(todo, 1, c) => Has(Tail(todo), c)
         /\ Head(todo) = todo[1] /\ 1 \in 1..Len(todo)
         /\ Head(todo).verb = "list" => Tail(todo) = <<>>
<1> DEFINE rest == Tail(todo)
<1>1. todo \in Seq(Calls) /\ Len(todo) \in Nat \ {0} /\ Head(todo) = todo[1] /\ Head(todo) \in Calls
  BY DEF Planned
<1>2. rest \in Seq(Calls) /\ Len(rest) = Len(todo) - 1 /\ \A i \in 1..Len(rest) : rest[i] = todo[i + 1]
  BY <1>1
<1> HIDE DEF rest
<1>3. \A i \in 1..Len(rest) : i + 1 \in 1..Len(todo)
  BY <1>1, <1>2
<1>4. \A i \in 1..Len(rest) : Fits(rest[i], r, s)
  BY <1>2, <1>3 DEF Planned
<1>5. Apart(rest)
  BY <1>1, <1>2, <1>3 DEF Planned, Apart
<1>6. \A i \in 1..Len(rest) : \A c : Then(todo, i + 1, c) => Then(rest, i, c)
  BY <1>1, <1>2 DEF Then
<1>7. \A i \in 1..Len(rest) : i + 1 = Len(todo) => i = Len(rest)
  BY <1>1, <1>2
<1>8. Follows(rest)
  BY <1>2, <1>3, <1>6, <1>7 DEF Planned, Follows
<1>9. \A c : Has(todo, c) <=> c = Head(todo) \/ Has(rest, c)
  <2> SUFFICES ASSUME NEW c PROVE Has(todo, c) <=> c = Head(todo) \/ Has(rest, c)
    OBVIOUS
  <2>1. ASSUME Has(todo, c) PROVE c = Head(todo) \/ Has(rest, c)
    <3>1. PICK i \in 1..Len(todo) : todo[i] = c
      BY <2>1 DEF Has
    <3>2. CASE i = 1
      BY <1>1, <3>1, <3>2
    <3>3. CASE i # 1
      <4>1. i - 1 \in 1..Len(rest) /\ rest[i - 1] = c
        BY <1>1, <1>2, <3>1, <3>3
      <4> QED
        BY <4>1 DEF Has
    <3> QED
      BY <3>2, <3>3
  <2>2. c = Head(todo) => Has(todo, c)
    BY <1>1 DEF Has
  <2>3. Has(rest, c) => Has(todo, c)
    BY <1>2, <1>3 DEF Has
  <2> QED
    BY <2>1, <2>2, <2>3
<1>10. \A i \in 1..Len(rest) : Target(Head(todo)) \notin Reads(rest[i])
  BY <1>1, <1>2, <1>3 DEF Planned, Apart
<1>11. \A c : Then(todo, 1, c) => Has(rest, c)
  BY <1>1, <1>2 DEF Then, Has
<1>12. Head(todo).verb = "list" => rest = <<>>
  <2>1. \A i \in 1..Len(todo) : todo[i].verb = "list" => i = Len(todo)
    BY Zenon DEF Planned, Follows
  <2>2. 1 \in 1..Len(todo)
    BY <1>1
  <2>3. Head(todo).verb = "list" => Len(rest) = 0
    BY <1>1, <1>2, <2>1, <2>2
  <2> QED
    BY <1>2, <2>3
<1>13. 1 \in 1..Len(todo) /\ Fits(Head(todo), r, s)
  BY <1>1 DEF Planned
<1> QED
  BY <1>1, <1>2, <1>4, <1>5, <1>8, <1>9, <1>10, <1>11, <1>12, <1>13 DEF Planned, rest

-----------------------------------------------------------------------------
(* The calls that follow the list: three for a backend that the route has, *)
(* three for one that has gone, and four for the security policy.          *)
Trio(c, r, s, b) ==
  /\ \A m \in 1..3 : /\ c[m] \in Calls /\ Fits(c[m], r, s)
                     /\ Target(c[m]).of = b /\ Target(c[m]).part \in OfBackend
                     /\ \A o \in Reads(c[m]) : o.of = b /\ o.part \in OfBackend /\ o \in Object
  /\ \A m, l \in 1..3 : m < l => \A o \in Reads(c[l]) : Target(c[m]).part # o.part

Makes(c, r, s, b) ==
  /\ c[1] = IF s.refs[b] = "key" THEN Call("put", Obj(r, "cred", b), "set")
            ELSE Call("unlink", Obj(r, "filter", b), "plain")
  /\ c[2] = Call("ensure", Obj(r, "filter", b), s.refs[b])
  /\ c[3] = Call("ensure", Obj(r, "http", b), "set")

Drops(c, r, b) ==
  /\ c[1] = Call("drop", Obj(r, "http", b), "nil")
  /\ c[2] = Call("drop", Obj(r, "filter", b), "nil")
  /\ c[3] = Call("drop", Obj(r, "cred", b), "nil")

LEMMA NewBackend ==
  ASSUME NEW r \in MCPRoutes, NEW s \in Spec1, s.is = "live", NEW b \in Backends, s.refs[b] # "absent"
  PROVE  Trio(newPerBackendRefHTTPRoute(r, s, b), r, s, b) /\ Makes(newPerBackendRefHTTPRoute(r, s, b), r, s, b)
<1> DEFINE first == IF s.refs[b] = "key" THEN Call("put", Obj(r, "cred", b), "set")
                    ELSE Call("unlink", Obj(r, "filter", b), "plain")
           second == Call("ensure", Obj(r, "filter", b), s.refs[b])
           third == Call("ensure", Obj(r, "http", b), "set")
           c == newPerBackendRefHTTPRoute(r, s, b)
<1>1. c = <<first, second, third>>
  <2>1. c = Append(<<first, second>>, third)
    BY Zenon DEF newPerBackendRefHTTPRoute, ensureMCPBackendRefHTTPFilter, ensureCredentialSecret
  <2> HIDE DEF c, first, second, third
  <2> QED
    BY <2>1, Tuples, Zenon
<1>2. c[1] = first /\ c[2] = second /\ c[3] = third
  BY <1>1
<1>3. s.refs[b] \in {"plain", "key"}
  BY DEF Spec1
<1>4. /\ Obj(r, "filter", b) \in Of(r) /\ Obj(r, "http", b) \in Of(r) /\ Obj(r, "cred", b) \in Of(r)
      /\ Of(r) \subseteq Object
  BY Objects DEF OfBackend, Of
<1>5. first \in Calls /\ second \in Calls /\ third \in Calls
  BY <1>3, <1>4 DEF Calls, Call, Content
<1>6. Fits(first, r, s)
  BY <1>3, <1>4 DEF Fits, Call, Obj
<1>7. Fits(second, r, s) /\ Fits(third, r, s)
  BY <1>3, <1>4 DEF Fits, Asked, Wanted, Call, Obj, OAuthParts
<1>8. /\ Target(first) = Obj(r, "cred", b) /\ first.verb \in {"put", "unlink"}
      /\ \A o \in Reads(first) : o \in {Obj(r, "filter", b), Obj(r, "cred", b)}
  BY ObjFacts, CallFacts DEF Target, Reads, Beside
<1>9. /\ Target(second) = Obj(r, "filter", b) /\ Reads(second) = {Obj(r, "filter", b)} /\ second.verb = "ensure"
      /\ Target(third) = Obj(r, "http", b) /\ Reads(third) = {Obj(r, "http", b)} /\ third.verb = "ensure"
  BY CallFacts DEF Target, Reads
<1> HIDE DEF first, second, third, c
<1>10. \A m \in 1..3 : m = 1 \/ m = 2 \/ m = 3
  OBVIOUS
<1>11. \A m \in 1..3 : c[m] \in Calls /\ Fits(c[m], r, s)
  BY <1>2, <1>5, <1>6, <1>7, <1>10, Zenon
<1>12. \A m \in 1..3 : /\ Target(c[m]).of = b /\ Target(c[m]).part \in OfBackend
                       /\ \A o \in Reads(c[m]) : o.of = b /\ o.part \in OfBackend /\ o \in Object
  BY <1>2, <1>4, <1>8, <1>9, <1>10, ObjFacts DEF OfBackend
<1>13. \A m, l \in 1..3 : m < l => (m = 1 /\ l \in {2, 3}) \/ (m = 2 /\ l = 3)
  OBVIOUS
<1>14. \A m, l \in 1..3 : m < l => \A o \in Reads(c[l]) : Target(c[m]).part # o.part
  BY <1>2, <1>8, <1>9, <1>13, ObjFacts
<1> QED
  <2>1. Trio(c, r, s, b)
    BY <1>11, <1>12, <1>14, Zenon DEF Trio
  <2>2. Makes(c, r, s, b)
    BY <1>2, Zenon DEF Makes, first, second, third
  <2> QED
    BY <2>1, <2>2 DEF c

LEMMA OldBackend ==
  ASSUME NEW r \in MCPRoutes, NEW s \in Spec1, s.is = "live", NEW b \in Backends, s.refs[b] = "absent"
  PROVE  /\ Trio(deleteOrphanedPerBackendResources(r, b), r, s, b)
         /\ Drops(deleteOrphanedPerBackendResources(r, b), r, b)
<1> DEFINE c == deleteOrphanedPerBackendResources(r, b)
           at == <<Obj(r, "http", b), Obj(r, "filter", b), Obj(r, "cred", b)>>
<1>1. c[1] = Call("drop", at[1], "nil") /\ c[2] = Call("drop", at[2], "nil") /\ c[3] = Call("drop", at[3], "nil")
  BY DEF deleteOrphanedPerBackendResources
<1>2. at[1] = Obj(r, "http", b) /\ at[2] = Obj(r, "filter", b) /\ at[3] = Obj(r, "cred", b)
  OBVIOUS
<1> HIDE DEF c, at
<1>3. \A m \in 1..3 : m = 1 \/ m = 2 \/ m = 3
  OBVIOUS
<1>4. \A m \in 1..3 : c[m] = Call("drop", at[m], "nil") /\ at[m] \in {Obj(r, "http", b), Obj(r, "filter", b), Obj(r, "cred", b)}
  BY <1>1, <1>2, <1>3, Zenon
<1>5. \A m \in 1..3 : at[m] \in Of(r) /\ at[m].of = b /\ at[m].part \in OfBackend
  <2>1. \A o \in {Obj(r, "http", b), Obj(r, "filter", b), Obj(r, "cred", b)} :
          o \in Of(r) /\ o.of = b /\ o.part \in OfBackend
    BY DEF OfBackend, Obj, Object, Of
  <2> QED
    BY <1>4, <2>1, Zenon
<1>6. \A m \in 1..3 : c[m].verb = "drop" /\ c[m].obj = at[m] /\ c[m].val = "nil"
  <2>1. \A o : LET x == Call("drop", o, "nil") IN x.verb = "drop" /\ x.obj = o /\ x.val = "nil"
    BY DEF Call
  <2> QED
    BY <1>4, <2>1
<1>7. \A m \in 1..3 : c[m] \in Calls
  <2>1. \A o \in Object : Call("drop", o, "nil") \in Calls
    BY DEF Calls, Call, Content
  <2> QED
    BY <1>4, <1>5, <2>1, Zenon DEF Of
<1>8. \A m \in 1..3 : Fits(c[m], r, s)
  BY <1>5, <1>6 DEF Fits
<1>9. \A m \in 1..3 : Target(c[m]) = at[m] /\ Reads(c[m]) = {at[m]}
  BY <1>6 DEF Target, Reads
<1>10. \A m, l \in 1..3 : m < l => at[m].part # at[l].part
  <2>1. at[1].part = "http" /\ at[2].part = "filter" /\ at[3].part = "cred"
    BY <1>2, ObjFacts
  <2>2. \A m, l \in 1..3 : m < l => (m = 1 /\ l \in {2, 3}) \/ (m = 2 /\ l = 3)
    OBVIOUS
  <2> QED
    BY <2>1, <2>2
<1>11. \A m \in 1..3 : /\ Target(c[m]).of = b /\ Target(c[m]).part \in OfBackend
                       /\ \A o \in Reads(c[m]) : o.of = b /\ o.part \in OfBackend /\ o \in Object
  <2> SUFFICES ASSUME NEW m \in 1..3
               PROVE  /\ Target(c[m]).of = b /\ Target(c[m]).part \in OfBackend
                      /\ \A o \in Reads(c[m]) : o.of = b /\ o.part \in OfBackend /\ o \in Object
    BY Zenon
  <2>1. at[m] \in Of(r) /\ at[m].of = b /\ at[m].part \in OfBackend /\ Target(c[m]) = at[m] /\ Reads(c[m]) = {at[m]}
    BY <1>5, <1>9, Zenon
  <2>2. at[m] \in Object
    BY <2>1 DEF Of
  <2> QED
    BY <1>6, <2>1, <2>2
<1>12. \A m, l \in 1..3 : m < l => \A o \in Reads(c[l]) : Target(c[m]).part # o.part
  BY <1>9, <1>10
<1> QED
  <2>1. Trio(c, r, s, b)
    BY <1>7, <1>8, <1>11, <1>12, Zenon DEF Trio
  <2>2. Drops(c, r, b)
    BY <1>1, <1>2, Zenon DEF Drops
  <2> QED
    BY <2>1, <2>2 DEF c

PolicyParts == <<"policy", "btp", "metadata", "authServer">>

Sets(c, r, s, o) ==
  /\ c = IF Asked(s, o) = "nil" THEN Call("cleanup", o, "nil") ELSE Call("ensure", o, Asked(s, o))
  /\ o \in Of(r) /\ Fits(c, r, s) /\ Target(c) = o /\ Reads(c) = {o}

LEMMA PolicyCalls ==
  ASSUME NEW r \in MCPRoutes, NEW s \in Spec1, s.is = "live"
  PROVE  /\ syncMCPRouteSecurityPolicy(r, s) \in Seq(Calls) /\ Len(syncMCPRouteSecurityPolicy(r, s)) = 4
         /\ \A m \in 1..4 : Sets(syncMCPRouteSecurityPolicy(r, s)[m], r, s, Obj(r, PolicyParts[m], "route"))
         /\ \A m \in 1..4 : PolicyParts[m] \in OfRoute \ {"main"}
         /\ \A m, l \in 1..4 : m < l => PolicyParts[m] # PolicyParts[l]
         /\ \A p \in OfRoute \ {"main"} : \E m \in 1..4 : p = PolicyParts[m]
<1> DEFINE c == syncMCPRouteSecurityPolicy(r, s)
           o(m) == Obj(r, PolicyParts[m], "route")
           call(m) == IF Asked(s, o(m)) = "nil" THEN Call("cleanup", o(m), "nil") ELSE Call("ensure", o(m), Asked(s, o(m)))
<1>1. PolicyParts[1] = "policy" /\ PolicyParts[2] = "btp" /\ PolicyParts[3] = "metadata" /\ PolicyParts[4] = "authServer"
  BY DEF PolicyParts
<1>2. s.auth \in {"none", "apiKey", "oauth"}
  BY DEF Spec1
<1>3. /\ Asked(s, Obj(r, "policy", "route")) = (IF s.auth = "none" THEN "nil" ELSE s.auth)
      /\ \A p \in OAuthParts : Asked(s, Obj(r, p, "route")) = (IF s.auth = "oauth" THEN "set" ELSE "nil")
  BY DEF Asked, Wanted, OAuthParts, Obj
<1>4. c = <<call(1), call(2), call(3), call(4)>>
  <2> DEFINE P == Obj(r, "policy", "route")
             B == Obj(r, "btp", "route")
             M == Obj(r, "metadata", "route")
             A == Obj(r, "authServer", "route")
  <2>1. o(1) = P /\ o(2) = B /\ o(3) = M /\ o(4) = A
    BY <1>1
  <2>5. "none" # "oauth" /\ "none" # "apiKey" /\ "apiKey" # "oauth"
    OBVIOUS
  <2>2. CASE s.auth = "oauth"
    <3>1. c = <<Call("ensure", P, s.auth), Call("ensure", B, "set"), Call("ensure", M, "set"), Call("ensure", A, "set")>>
      BY <2>2, Tuples, Zenon DEF syncMCPRouteSecurityPolicy, ensureSecurityPolicy, ensureOAuthResources,
            ensureOAuthProtectedResourceMetadataBTP, ensureOAuthProtectedResourceMetadataHRF, ensureOAuthAuthServerMetadataHRF
    <3> QED
      BY <1>3, <2>1, <2>2, <3>1 DEF OAuthParts
  <2>3. CASE s.auth = "apiKey"
    <3>1. c = <<Call("ensure", P, s.auth), Call("cleanup", B, "nil"), Call("cleanup", M, "nil"), Call("cleanup", A, "nil")>>
      BY <2>3, <2>5, Tuples, Zenon DEF syncMCPRouteSecurityPolicy, ensureSecurityPolicy, cleanupOAuthResources
    <3> QED
      BY <1>3, <2>1, <2>3, <3>1 DEF OAuthParts
  <2>4. CASE s.auth = "none"
    <3>1. c = <<Call("cleanup", P, "nil"), Call("cleanup", B, "nil"), Call("cleanup", M, "nil"), Call("cleanup", A, "nil")>>
      BY <2>4, <2>5, Tuples, Zenon DEF syncMCPRouteSecurityPolicy, cleanupSecurityPolicyResources, cleanupOAuthResources
    <3> QED
      BY <1>3, <2>1, <2>4, <3>1 DEF OAuthParts
  <2> QED
    BY <1>2, <2>2, <2>3, <2>4
<1>5. \A m \in 1..4 : m = 1 \/ m = 2 \/ m = 3 \/ m = 4
  OBVIOUS
<1> HIDE DEF call
<1>6. Len(c) = 4 /\ c[1] = call(1) /\ c[2] = call(2) /\ c[3] = call(3) /\ c[4] = call(4)
  BY <1>4
<1> USE DEF call
<1>7. \A m \in 1..4 : o(m) \in Of(r) /\ PolicyParts[m] \in OfRoute \ {"main"} /\ o(m) \in Object
  BY <1>1, <1>5, Objects DEF OfRoute, OAuthParts, Of
<1>8. \A m \in 1..4 : Asked(s, o(m)) \in Content
  BY <1>1, <1>2, <1>3, <1>5 DEF OAuthParts, Content
<1>9. \A m \in 1..4 : call(m) \in Calls
  BY <1>7, <1>8 DEF Calls, Call, Content
<1>10. \A m \in 1..4 : o(m).part \in OfRoute /\ o(m).part # "cred"
  <2>1. \A m \in 1..4 : o(m).part = PolicyParts[m]
    BY DEF Obj
  <2>2. \A x \in OfRoute : x # "cred"
    BY DEF OfRoute, OAuthParts
  <2> HIDE DEF o
  <2> QED
    BY <1>7, <2>1, <2>2, Zenon
<1>11. \A m \in 1..4 : Fits(call(m), r, s)
  <2> SUFFICES ASSUME NEW m \in 1..4 PROVE Fits(call(m), r, s)
    OBVIOUS
  <2>1. o(m) \in Of(r) /\ o(m).part \in OfRoute /\ o(m).part # "cred" /\ s.is = "live"
    BY <1>7, <1>10, Zenon
  <2> QED
    BY <2>1, Zenon DEF Fits, Call
<1>12. \A m \in 1..4 : Target(call(m)) = o(m) /\ Reads(call(m)) = {o(m)}
  BY DEF Target, Reads, Call
<1> HIDE DEF call
<1>13. c \in Seq(Calls)
  BY <1>4, <1>9
<1> USE DEF call
<1> HIDE DEF c
<1>14. \A m \in 1..4 : c[m] = call(m)
  BY <1>5, <1>6, Zenon
<1>15. \A m, l \in 1..4 : m < l => PolicyParts[m] # PolicyParts[l]
  <2>1. \A m, l \in 1..4 : m < l => (m = 1 /\ l \in {2, 3, 4}) \/ (m = 2 /\ l \in {3, 4}) \/ (m = 3 /\ l = 4)
    OBVIOUS
  <2> QED
    BY <1>1, <2>1
<1>16. \A p \in OfRoute \ {"main"} : \E m \in 1..4 : p = PolicyParts[m]
  BY <1>1 DEF OfRoute, OAuthParts
<1> QED
  <2>1. \A m \in 1..4 : Sets(c[m], r, s, o(m))
    BY <1>7, <1>11, <1>12, <1>14, Zenon DEF Sets
  <2>2. \A m \in 1..4 : PolicyParts[m] \in OfRoute \ {"main"}
    BY <1>7, Zenon
  <2> QED
    BY <1>6, <1>13, <1>15, <1>16, <2>1, <2>2, Zenon DEF c

Joined(t, A, B, C, U) ==
  /\ t \in Seq(U) /\ Len(t) = Len(A) + Len(B) + Len(C)
  /\ \A i \in 1..Len(A) : t[i] = A[i]
  /\ \A i \in 1..Len(B) : t[Len(A) + i] = B[i]
  /\ \A i \in 1..Len(C) : t[Len(A) + Len(B) + i] = C[i]

LEMMA Blocks ==
  ASSUME NEW U, NEW A \in Seq(U), NEW B \in Seq(U), NEW C \in Seq(U)
  PROVE  Joined((A \o B) \o C, A, B, C, U)
  BY DEF Joined

PerBackend(r, s, b) ==
  IF s.refs[b] = "absent" THEN deleteOrphanedPerBackendResources(r, b) ELSE newPerBackendRefHTTPRoute(r, s, b)

(* todo has three calls for each of N backends, in the order w, and then   *)
(* those for the policy.                                                   *)
Laid(todo, r, s, N, w) ==
  /\ todo \in Seq(Calls) /\ Len(todo) = 3 * N + 4
  /\ \A k \in 1..N, j \in 1..3 : todo[3 * k - 3 + j] = PerBackend(r, s, w[k])[j]
  /\ \A j \in 1..4 : todo[3 * N + j] = syncMCPRouteSecurityPolicy(r, s)[j]
  /\ \A k, l \in 1..N : w[k] = w[l] => k = l
  /\ \A b \in Backends : s.refs[b] # "absent" \/ seenMade[Obj(r, "http", b)] # "nil" => \E k \in 1..N : w[k] = b

LEMMA Layout ==
  ASSUME Names, NEW r \in MCPRoutes, NEW s \in Spec1, s.is = "live"
  PROVE  \E N \in Nat : \E w \in [1..N -> Backends] : Laid(AfterList(r, s), r, s, N, w)
<1> DEFINE refs == {b \in Backends : s.refs[b] # "absent"}
           orphans == {b \in Backends \ refs : seenMade[Obj(r, "http", b)] # "nil"}
           new == [b \in refs |-> newPerBackendRefHTTPRoute(r, s, b)]
           old == [b \in orphans |-> deleteOrphanedPerBackendResources(r, b)]
           A == Each(new)
           B == Each(old)
           C == syncMCPRouteSecurityPolicy(r, s)
           n == Cardinality(refs)
           m == Cardinality(orphans)
           oa == Order(refs)
           ob == Order(orphans)
           todo == (A \o B) \o C
           N == n + m
           w == [k \in 1..N |-> IF k <= n THEN oa[k] ELSE ob[k - n]]
<1>1. refs \subseteq Backends /\ orphans \subseteq Backends
  OBVIOUS
<1>2. AfterList(r, s) = todo
  BY Zenon DEF AfterList
<1>3. /\ \A b \in refs : s.refs[b] # "absent"
      /\ \A b \in orphans : s.refs[b] = "absent" /\ b \notin refs
      /\ \A b \in Backends : s.refs[b] # "absent" => b \in refs
      /\ \A b \in Backends : s.refs[b] = "absent" /\ seenMade[Obj(r, "http", b)] # "nil" => b \in orphans
  OBVIOUS
<1>4. /\ DOMAIN new = refs /\ DOMAIN old = orphans
      /\ \A b \in refs : new[b] = newPerBackendRefHTTPRoute(r, s, b)
      /\ \A b \in orphans : old[b] = deleteOrphanedPerBackendResources(r, b)
  OBVIOUS
<1> HIDE DEF refs, orphans, new, old
<1>5. Ordered(refs) /\ Ordered(orphans)
  BY <1>1, Zenon DEF Names
<1>6. \A b \in refs : new[b] = PerBackend(r, s, b) /\ Trio(new[b], r, s, b)
  <2> SUFFICES ASSUME NEW b \in refs PROVE new[b] = PerBackend(r, s, b) /\ Trio(new[b], r, s, b)
    OBVIOUS
  <2>1. b \in Backends /\ s.refs[b] # "absent"
    BY <1>1, <1>3
  <2>2. Trio(newPerBackendRefHTTPRoute(r, s, b), r, s, b)
    BY <2>1, NewBackend, Zenon
  <2> QED
    BY <1>4, <2>1, <2>2, Zenon DEF PerBackend
<1>7. \A b \in orphans : old[b] = PerBackend(r, s, b) /\ Trio(old[b], r, s, b)
  <2> SUFFICES ASSUME NEW b \in orphans PROVE old[b] = PerBackend(r, s, b) /\ Trio(old[b], r, s, b)
    OBVIOUS
  <2>1. b \in Backends /\ s.refs[b] = "absent"
    BY <1>1, <1>3
  <2>2. Trio(deleteOrphanedPerBackendResources(r, b), r, s, b)
    BY <2>1, OldBackend, Zenon
  <2> QED
    BY <1>4, <2>1, <2>2, Zenon DEF PerBackend
<1>8. InTurn(A, new, refs, Calls)
  <2>1. \A b \in refs : \A j \in 1..3 : new[b][j] \in Calls
    BY <1>6, Zenon DEF Trio
  <2> QED
    BY <1>4, <1>5, <2>1, EachCall, Zenon
<1>9. InTurn(B, old, orphans, Calls)
  <2>1. \A b \in orphans : \A j \in 1..3 : old[b][j] \in Calls
    BY <1>7, Zenon DEF Trio
  <2> QED
    BY <1>4, <1>5, <2>1, EachCall, Zenon
<1>10. /\ n \in Nat /\ oa \in [1..n -> refs] /\ \A i, j \in 1..n : oa[i] = oa[j] => i = j
       /\ \A b \in refs : \E k \in 1..n : oa[k] = b
  BY <1>5, InOrder, Zenon
<1>11. /\ m \in Nat /\ ob \in [1..m -> orphans] /\ \A i, j \in 1..m : ob[i] = ob[j] => i = j
       /\ \A b \in orphans : \E k \in 1..m : ob[k] = b
  BY <1>5, InOrder, Zenon
<1>12. C \in Seq(Calls) /\ Len(C) = 4
  BY PolicyCalls, Zenon
<1>13. /\ A \in Seq(Calls) /\ Len(A) = 3 * n
       /\ \A k \in 1..n, j \in 1..3 : 3 * k - 3 + j \in 1..Len(A) /\ A[3 * k - 3 + j] = new[oa[k]][j]
  BY <1>8, Zenon DEF InTurn
<1>14. /\ B \in Seq(Calls) /\ Len(B) = 3 * m
       /\ \A k \in 1..m, j \in 1..3 : 3 * k - 3 + j \in 1..Len(B) /\ B[3 * k - 3 + j] = old[ob[k]][j]
  BY <1>9, Zenon DEF InTurn
<1> HIDE DEF A, B, C, n, m, oa, ob
<1>15. /\ todo \in Seq(Calls) /\ Len(todo) = Len(A) + Len(B) + Len(C)
       /\ \A i \in 1..Len(A) : todo[i] = A[i]
       /\ \A i \in 1..Len(B) : todo[Len(A) + i] = B[i]
       /\ \A i \in 1..Len(C) : todo[Len(A) + Len(B) + i] = C[i]
  <2>1. Joined(todo, A, B, C, Calls)
    BY <1>12, <1>13, <1>14, Blocks, Zenon
  <2> QED
    BY <2>1, Zenon DEF Joined
<1> HIDE DEF todo
<1>16. N \in Nat /\ Len(todo) = 3 * N + 4
  BY <1>10, <1>11, <1>12, <1>13, <1>14, <1>15
<1>17. ASSUME NEW k \in 1..N, k <= n PROVE k \in 1..n /\ w[k] = oa[k] /\ oa[k] \in refs
  BY <1>10, <1>17
<1>18. ASSUME NEW k \in 1..N, ~(k <= n) PROVE k - n \in 1..m /\ w[k] = ob[k - n] /\ ob[k - n] \in orphans
  <2>1. k - n \in 1..m
    BY <1>10, <1>11, <1>18
  <2> QED
    BY <1>11, <1>18, <2>1
<1>19. w \in [1..N -> Backends]
  <2>1. \A k \in 1..N : w[k] \in Backends
    BY <1>1, <1>17, <1>18
  <2> QED
    BY <2>1
<1>20. ASSUME NEW k \in 1..N, NEW j \in 1..3 PROVE todo[3 * k - 3 + j] = PerBackend(r, s, w[k])[j]
  <2>1. CASE k <= n
    <3>1. k \in 1..n /\ w[k] = oa[k] /\ oa[k] \in refs
      BY <1>17, <2>1
    <3>2. new[oa[k]] = PerBackend(r, s, w[k])
      BY <1>6, <3>1, Zenon
    <3>3. 3 * k - 3 + j \in 1..Len(A) /\ A[3 * k - 3 + j] = new[oa[k]][j]
      BY <1>13, <3>1, Zenon
    <3> QED
      BY <1>15, <3>2, <3>3, Zenon
  <2>2. CASE ~(k <= n)
    <3>1. k - n \in 1..m /\ w[k] = ob[k - n] /\ ob[k - n] \in orphans
      BY <1>18, <2>2
    <3>2. old[ob[k - n]] = PerBackend(r, s, w[k])
      BY <1>7, <3>1, Zenon
    <3>3. 3 * (k - n) - 3 + j \in 1..Len(B) /\ B[3 * (k - n) - 3 + j] = old[ob[k - n]][j]
      BY <1>14, <3>1, Zenon
    <3>4. Len(A) + (3 * (k - n) - 3 + j) = 3 * k - 3 + j
      BY <1>10, <1>13
    <3>5. todo[Len(A) + (3 * (k - n) - 3 + j)] = B[3 * (k - n) - 3 + j]
      BY <1>15, <3>3, Zenon
    <3> QED
      BY <3>2, <3>3, <3>4, <3>5, Zenon
  <2> QED
    BY <2>1, <2>2
<1>21. ASSUME NEW j \in 1..4 PROVE todo[3 * N + j] = C[j]
  <2>1. Len(A) + Len(B) + j = 3 * N + j
    BY <1>10, <1>11, <1>13, <1>14
  <2>2. todo[Len(A) + Len(B) + j] = C[j]
    BY <1>12, <1>15, Zenon
  <2> QED
    BY <2>1, <2>2, Zenon
<1>22. ASSUME NEW k \in 1..N, NEW l \in 1..N, w[k] = w[l] PROVE k = l
  <2>1. CASE k <= n /\ l <= n
    BY <1>10, <1>17, <1>22, <2>1, Zenon
  <2>2. CASE k <= n /\ ~(l <= n)
    BY <1>3, <1>17, <1>18, <1>22, <2>2, Zenon
  <2>3. CASE ~(k <= n) /\ l <= n
    BY <1>3, <1>17, <1>18, <1>22, <2>3, Zenon
  <2>4. CASE ~(k <= n) /\ ~(l <= n)
    <3>1. k - n = l - n
      BY <1>11, <1>18, <1>22, <2>4, Zenon
    <3> QED
      BY <1>10, <3>1
  <2> QED
    BY <2>1, <2>2, <2>3, <2>4, Zenon
<1>23. ASSUME NEW b \in Backends, s.refs[b] # "absent" \/ seenMade[Obj(r, "http", b)] # "nil"
       PROVE  \E k \in 1..N : w[k] = b
  <2>1. CASE s.refs[b] # "absent"
    <3>1. PICK k \in 1..n : oa[k] = b
      BY <1>3, <1>10, <2>1, Zenon
    <3>2. k \in 1..N /\ k <= n
      BY <1>10, <1>11
    <3> QED
      BY <1>17, <3>1, <3>2, Zenon
  <2>2. CASE s.refs[b] = "absent"
    <3>1. PICK k \in 1..m : ob[k] = b
      BY <1>3, <1>11, <1>23, <2>2, Zenon
    <3>2. n + k \in 1..N /\ ~(n + k <= n) /\ (n + k) - n = k
      BY <1>10, <1>11
    <3>3. w[n + k] = ob[(n + k) - n]
      BY <1>18, <3>2, Zenon
    <3> QED
      BY <3>1, <3>2, <3>3, Zenon
  <2> QED
    BY <2>1, <2>2
<1> HIDE DEF w, N
<1>24. Laid(todo, r, s, N, w)
  BY <1>15, <1>16, <1>20, <1>21, <1>22, <1>23, Zenon DEF Laid, C
<1> QED
  BY <1>2, <1>16, <1>19, <1>24, Zenon

(* The calls that AfterList makes up are for the route, none reads what an *)
(* earlier one wrote, and together they set or remove every object of the  *)
(* route but the main HTTPRoute and the backends that have no HTTPRoute.   *)
Settles(todo, s, o) ==
  IF Asked(s, o) # "nil"
  THEN Has(todo, Call("ensure", o, Asked(s, o))) \/ Has(todo, Call("put", o, Asked(s, o)))
  ELSE \/ Has(todo, Call("drop", o, "nil")) \/ Has(todo, Call("cleanup", o, "nil"))
       \/ (o.part = "cred" /\ Has(todo, Call("unlink", Beside(o, "filter"), "plain")))
       \/ (o.part \in OfBackend /\ o.of \in Backends /\ s.refs[o.of] = "absent" /\ seenMade[Beside(o, "http")] = "nil")

LEMMA Decided ==
  ASSUME Names, NEW r \in MCPRoutes, NEW s \in Spec1, s.is = "live"
  PROVE  /\ AfterList(r, s) # <<>> /\ Planned(AfterList(r, s), r, s)
         /\ \A o \in Of(r) : o.part # "main" => Settles(AfterList(r, s), s, o)
         /\ \A i \in 1..Len(AfterList(r, s)) :
              Reads(AfterList(r, s)[i]) \subseteq Reads(listExistingPerBackendHTTPRoutes(r))
<1> DEFINE todo == AfterList(r, s)
           c(b) == PerBackend(r, s, b)
           P == syncMCPRouteSecurityPolicy(r, s)
           q(j) == Obj(r, PolicyParts[j], "route")
<1>1. PICK N \in Nat : \E w \in [1..N -> Backends] : Laid(todo, r, s, N, w)
  BY Layout, Zenon
<1>2. PICK w \in [1..N -> Backends] : Laid(todo, r, s, N, w)
  BY <1>1
<1>3. /\ todo \in Seq(Calls) /\ Len(todo) = 3 * N + 4
      /\ \A k \in 1..N, j \in 1..3 : todo[3 * k - 3 + j] = c(w[k])[j]
      /\ \A j \in 1..4 : todo[3 * N + j] = P[j]
      /\ \A k, l \in 1..N : w[k] = w[l] => k = l
      /\ \A b \in Backends : s.refs[b] # "absent" \/ seenMade[Obj(r, "http", b)] # "nil" => \E k \in 1..N : w[k] = b
  BY <1>2, Zenon DEF Laid
<1> HIDE DEF todo, c, P
<1>len. Len(todo) = 3 * N + 4
  BY <1>3
<1>4. \A b \in Backends : Trio(c(b), r, s, b)
  BY NewBackend, OldBackend, Zenon DEF c, PerBackend
<1>5. \A b \in Backends : /\ s.refs[b] = "absent" => Drops(c(b), r, b)
                          /\ s.refs[b] # "absent" => Makes(c(b), r, s, b)
  BY NewBackend, OldBackend, Zenon DEF c, PerBackend
<1>6. \A j \in 1..4 : Sets(P[j], r, s, q(j))
  BY PolicyCalls, Zenon DEF P
<1>7. \A j \in 1..4 : q(j).part = PolicyParts[j] /\ PolicyParts[j] \in OfRoute \ {"main"}
  <2>1. \A j \in 1..4 : PolicyParts[j] \in OfRoute \ {"main"}
    BY PolicyCalls, Zenon
  <2> QED
    BY <2>1 DEF Obj
<1>8. ASSUME NEW k \in 1..N, NEW j \in 1..3
      PROVE  3 * k - 3 + j \in 1..Len(todo) /\ w[k] \in Backends /\ Trio(c(w[k]), r, s, w[k])
  <2>1. 3 * k - 3 + j \in 1..Len(todo)
    BY <1>len
  <2>2. w[k] \in Backends
    BY <1>2
  <2> QED
    BY <1>4, <2>1, <2>2, Zenon
<1>at. ASSUME NEW i, NEW k \in 1..N, NEW j \in 1..3, i = 3 * k - 3 + j
       PROVE  todo[i] = c(w[k])[j] /\ Trio(c(w[k]), r, s, w[k]) /\ w[k] \in Backends
  <2>1. todo[3 * k - 3 + j] = c(w[k])[j]
    BY <1>3, Zenon
  <2>2. Trio(c(w[k]), r, s, w[k]) /\ w[k] \in Backends
    BY <1>8, Zenon
  <2>3. todo[i] = todo[3 * k - 3 + j]
    BY <1>at
  <2> QED
    BY <2>1, <2>2, <2>3, Zenon
<1>9. \A j \in 1..4 : 3 * N + j \in 1..Len(todo)
  BY <1>len
<1>10. ASSUME NEW i \in 1..Len(todo)
       PROVE  (\E k \in 1..N, j \in 1..3 : i = 3 * k - 3 + j) \/ (\E j \in 1..4 : i = 3 * N + j)
  <2>1. CASE i \in 1..(3 * N)
    <3> DEFINE k == (i + 2) \div 3
               j == i - 3 * k + 3
    <3>1. k \in 1..N /\ j \in 1..3 /\ i = 3 * k - 3 + j
      BY <2>1
    <3> HIDE DEF k, j
    <3> QED
      BY <3>1
  <2>2. CASE i \notin 1..(3 * N)
    <3> DEFINE j == i - 3 * N
    <3>1. j \in 1..4 /\ i = 3 * N + j
      BY <1>len, <2>2
    <3> HIDE DEF j
    <3> QED
      BY <3>1
  <2> QED
    BY <2>1, <2>2
<1>11. \A i \in 1..Len(todo) : Fits(todo[i], r, s)
  <2> SUFFICES ASSUME NEW i \in 1..Len(todo) PROVE Fits(todo[i], r, s)
    OBVIOUS
  <2>1. ASSUME NEW k \in 1..N, NEW j \in 1..3, i = 3 * k - 3 + j PROVE Fits(todo[i], r, s)
    <3>1. todo[i] = c(w[k])[j] /\ Trio(c(w[k]), r, s, w[k])
      BY <1>at, <2>1, Zenon
    <3> QED
      BY <3>1, Zenon DEF Trio
  <2>2. ASSUME NEW j \in 1..4, i = 3 * N + j PROVE Fits(todo[i], r, s)
    <3>1. todo[i] = P[j] /\ Sets(P[j], r, s, q(j))
      BY <1>3, <1>6, <2>2, Zenon
    <3> QED
      BY <3>1, Zenon DEF Sets
  <2> QED
    BY <1>10, <2>1, <2>2, Zenon
<1>12. \A i \in 1..Len(todo) : Reads(todo[i]) \subseteq Reads(listExistingPerBackendHTTPRoutes(r))
  <2> DEFINE L == {o \in Object : o.part \notin {"proxy", "main"}}
  <2>1. Reads(listExistingPerBackendHTTPRoutes(r)) = L
    BY DEF Reads, listExistingPerBackendHTTPRoutes, Call
  <2>2. \A o \in Object : o.part \in OfBackend \/ o.part \in OfRoute \ {"main"} => o \in L
    BY DEF OfBackend, OfRoute, OAuthParts
  <2> HIDE DEF L
  <2> SUFFICES ASSUME NEW i \in 1..Len(todo), NEW o \in Reads(todo[i]) PROVE o \in L
    BY <2>1
  <2>3. ASSUME NEW k \in 1..N, NEW j \in 1..3, i = 3 * k - 3 + j PROVE o \in L
    <3>1. todo[i] = c(w[k])[j] /\ Trio(c(w[k]), r, s, w[k])
      BY <1>at, <2>3, Zenon
    <3>2. o \in Object /\ o.part \in OfBackend
      BY <3>1, Zenon DEF Trio
    <3> QED
      BY <2>2, <3>2, Zenon
  <2>4. ASSUME NEW j \in 1..4, i = 3 * N + j PROVE o \in L
    <3>1. todo[i] = P[j] /\ Sets(P[j], r, s, q(j))
      BY <1>3, <1>6, <2>4, Zenon
    <3>2. Reads(todo[i]) = {q(j)} /\ q(j) \in Of(r)
      BY <3>1, Zenon DEF Sets
    <3>3. o \in Object /\ o.part = PolicyParts[j]
      <4>1. o = q(j)
        BY <3>2, Zenon
      <4>2. q(j) \in Object /\ q(j).part = PolicyParts[j]
        BY <1>7, <3>2, Zenon DEF Of
      <4> QED
        BY <4>1, <4>2, Zenon
    <3> QED
      BY <1>7, <2>2, <3>3, Zenon
  <2> QED
    BY <1>10, <2>3, <2>4, Zenon
<1>13. Apart(todo)
  <2> SUFFICES ASSUME NEW x \in 1..Len(todo), NEW y \in 1..Len(todo), x < y
               PROVE  Target(todo[x]) \notin Reads(todo[y])
    BY DEF Apart
  <2>1. ASSUME NEW k \in 1..N, NEW j \in 1..3, x = 3 * k - 3 + j PROVE Target(todo[x]) \notin Reads(todo[y])
    <3>1. todo[x] = c(w[k])[j] /\ Trio(c(w[k]), r, s, w[k])
      BY <1>at, <2>1, Zenon
    <3>2. Target(todo[x]).of = w[k] /\ Target(todo[x]).part \in OfBackend
      BY <3>1, Zenon DEF Trio
    <3>3. ASSUME NEW k2 \in 1..N, NEW j2 \in 1..3, y = 3 * k2 - 3 + j2 PROVE Target(todo[x]) \notin Reads(todo[y])
      <4>1. todo[y] = c(w[k2])[j2] /\ Trio(c(w[k2]), r, s, w[k2])
        <5>1. todo[3 * k2 - 3 + j2] = c(w[k2])[j2]
          BY <1>3, Zenon
        <5>2. Trio(c(w[k2]), r, s, w[k2])
          BY <1>8, Zenon
        <5> QED
          BY <3>3, <5>1, <5>2, Zenon
      <4>2. \A o \in Reads(todo[y]) : o.of = w[k2]
        BY <4>1, Zenon DEF Trio
      <4>3. CASE k = k2
        <5>1. j < j2
          BY <2>1, <3>3, <4>3
        <5>2. \A o \in Reads(todo[y]) : Target(todo[x]).part # o.part
          BY <3>1, <4>1, <4>3, <5>1, Zenon DEF Trio
        <5> QED
          BY <5>2, Zenon
      <4>4. CASE k # k2
        <5>1. w[k] # w[k2]
          BY <1>3, <4>4, Zenon
        <5> QED
          BY <3>2, <4>2, <5>1, Zenon
      <4> QED
        BY <4>3, <4>4
    <3>4. ASSUME NEW j2 \in 1..4, y = 3 * N + j2 PROVE Target(todo[x]) \notin Reads(todo[y])
      <4>1. todo[y] = P[j2] /\ Sets(P[j2], r, s, q(j2))
        BY <1>3, <1>6, <3>4, Zenon
      <4>2. \A o \in Reads(todo[y]) : o.part \in OfRoute
        BY <1>7, <4>1 DEF Sets
      <4> QED
        BY <3>2, <4>2 DEF OfBackend, OfRoute, OAuthParts
    <3> QED
      BY <1>10, <3>3, <3>4, Zenon
  <2>2. ASSUME NEW j \in 1..4, x = 3 * N + j PROVE Target(todo[x]) \notin Reads(todo[y])
    <3>1. ASSUME NEW k2 \in 1..N, NEW j2 \in 1..3, y = 3 * k2 - 3 + j2 PROVE FALSE
      BY <2>2, <3>1
    <3>2. ASSUME NEW j2 \in 1..4, y = 3 * N + j2 PROVE Target(todo[x]) \notin Reads(todo[y])
      <4>1. j < j2
        BY <2>2, <3>2
      <4>2. PolicyParts[j] # PolicyParts[j2]
        BY <4>1, PolicyCalls, Zenon
      <4>3. todo[x] = P[j] /\ Sets(P[j], r, s, q(j)) /\ todo[y] = P[j2] /\ Sets(P[j2], r, s, q(j2))
        BY <1>3, <1>6, <2>2, <3>2, Zenon
      <4>4. Target(todo[x]) = q(j) /\ Reads(todo[y]) = {q(j2)}
        BY <4>3, Zenon DEF Sets
      <4>5. q(j) # q(j2)
        BY <1>7, <4>2
      <4> QED
        BY <4>4, <4>5
    <3> QED
      BY <1>10, <3>1, <3>2, Zenon
  <2> QED
    BY <1>10, <2>1, <2>2, Zenon
<1>14. Follows(todo)
  <2> DEFINE Next1(i) ==
        LET x == todo[i]
        IN  /\ x.verb = "list" => i = Len(todo)
            /\ x.verb = "put" => Then(todo, i, Call("ensure", Beside(x.obj, "filter"), "key"))
            /\ x.verb = "ensure" /\ x.obj.part = "filter" => Then(todo, i, Call("ensure", Beside(x.obj, "http"), "set"))
            /\ x.verb = "drop" /\ x.obj.part = "http" => Then(todo, i, Call("drop", Beside(x.obj, "filter"), "nil"))
            /\ x.verb = "drop" /\ x.obj.part = "filter" => Then(todo, i, Call("drop", Beside(x.obj, "cred"), "nil"))
  <2> SUFFICES ASSUME NEW i \in 1..Len(todo) PROVE Next1(i)
    BY Zenon DEF Follows
  <2> HIDE DEF Next1
  <2>1. ASSUME NEW k \in 1..N, NEW j \in 1..3, i = 3 * k - 3 + j PROVE Next1(i)
    <3> DEFINE b == w[k]
    <3>1. b \in Backends /\ todo[i] = c(b)[j]
      BY <1>at, <2>1, Zenon
    <3>2. j \in {1, 2} => i < Len(todo) /\ i + 1 = 3 * k - 3 + (j + 1) /\ j + 1 \in 1..3
      BY <1>len, <2>1
    <3>3. ASSUME j \in {1, 2} PROVE Then(todo, i, c(b)[j + 1])
      <4>1. PICK i1, j1 : i1 = i + 1 /\ j1 = j + 1
        OBVIOUS
      <4>2. j1 \in 1..3 /\ i1 = 3 * k - 3 + j1 /\ i < Len(todo)
        BY <3>2, <3>3, <4>1
      <4>3. todo[i1] = c(w[k])[j1]
        BY <1>at, <4>2, Zenon
      <4> QED
        BY <4>1, <4>2, <4>3, Zenon DEF Then
    <3> HIDE DEF b
    <3>4. CASE s.refs[b] = "absent"
      <4>1. c(b)[1] = Call("drop", Obj(r, "http", b), "nil") /\ c(b)[2] = Call("drop", Obj(r, "filter", b), "nil")
            /\ c(b)[3] = Call("drop", Obj(r, "cred", b), "nil")
        BY <1>5, <3>1, <3>4, Zenon DEF Drops
      <4>2. CASE j = 1
        <5>0. todo[i] = Call("drop", Obj(r, "http", b), "nil")
          BY <3>1, <4>1, <4>2, Zenon
        <5>1. todo[i].verb = "drop" /\ todo[i].obj = Obj(r, "http", b) /\ todo[i].obj.part = "http"
          BY <5>0 DEF Call, Obj
        <5>2. Then(todo, i, Call("drop", Obj(r, "filter", b), "nil")) /\ Beside(todo[i].obj, "filter") = Obj(r, "filter", b)
          <6>1. 1 + 1 = 2
            OBVIOUS
          <6>2. Beside(todo[i].obj, "filter") = Obj(r, "filter", b)
            BY <5>1 DEF Beside, Obj
          <6> QED
            BY <3>3, <4>1, <4>2, <6>1, <6>2, Zenon
        <5> QED
          BY <5>1, <5>2 DEF Next1
      <4>3. CASE j = 2
        <5>0. todo[i] = Call("drop", Obj(r, "filter", b), "nil")
          BY <3>1, <4>1, <4>3, Zenon
        <5>1. todo[i].verb = "drop" /\ todo[i].obj = Obj(r, "filter", b) /\ todo[i].obj.part = "filter"
          BY <5>0 DEF Call, Obj
        <5>2. Then(todo, i, Call("drop", Obj(r, "cred", b), "nil")) /\ Beside(todo[i].obj, "cred") = Obj(r, "cred", b)
          <6>1. 2 + 1 = 3
            OBVIOUS
          <6>2. Beside(todo[i].obj, "cred") = Obj(r, "cred", b)
            BY <5>1 DEF Beside, Obj
          <6> QED
            BY <3>3, <4>1, <4>3, <6>1, <6>2, Zenon
        <5> QED
          BY <5>1, <5>2 DEF Next1
      <4>4. CASE j = 3
        <5>0. todo[i] = Call("drop", Obj(r, "cred", b), "nil")
          BY <3>1, <4>1, <4>4, Zenon
        <5>1. todo[i].verb = "drop" /\ todo[i].obj = Obj(r, "cred", b) /\ todo[i].obj.part = "cred"
          BY <5>0 DEF Call, Obj
        <5> QED
          BY <5>1 DEF Next1
      <4> QED
        BY <4>2, <4>3, <4>4
    <3>5. CASE s.refs[b] # "absent"
      <4>1. c(b)[1] = (IF s.refs[b] = "key" THEN Call("put", Obj(r, "cred", b), "set")
                       ELSE Call("unlink", Obj(r, "filter", b), "plain"))
            /\ c(b)[2] = Call("ensure", Obj(r, "filter", b), s.refs[b]) /\ c(b)[3] = Call("ensure", Obj(r, "http", b), "set")
        BY <1>5, <3>1, <3>5, Zenon DEF Makes
      <4>2. CASE j = 1
        <5>1. CASE s.refs[b] = "key"
          <6>0. todo[i] = Call("put", Obj(r, "cred", b), "set")
            BY <3>1, <4>1, <4>2, <5>1, Zenon
          <6>1. todo[i].verb = "put" /\ todo[i].obj = Obj(r, "cred", b)
            BY <6>0 DEF Call
          <6>2. Then(todo, i, Call("ensure", Obj(r, "filter", b), "key")) /\ Beside(todo[i].obj, "filter") = Obj(r, "filter", b)
            <7>1. 1 + 1 = 2
              OBVIOUS
            <7>2. Beside(todo[i].obj, "filter") = Obj(r, "filter", b)
              BY <6>1 DEF Beside, Obj
            <7> QED
              BY <3>3, <4>1, <4>2, <5>1, <7>1, <7>2, Zenon
          <6> QED
            BY <6>1, <6>2 DEF Next1
        <5>2. CASE s.refs[b] # "key"
          <6>0. todo[i] = Call("unlink", Obj(r, "filter", b), "plain")
            BY <3>1, <4>1, <4>2, <5>2, Zenon
          <6>1. todo[i].verb = "unlink"
            BY <6>0 DEF Call
          <6> QED
            BY <6>1 DEF Next1
        <5> QED
          BY <5>1, <5>2
      <4>3. CASE j = 2
        <5>0. todo[i] = Call("ensure", Obj(r, "filter", b), s.refs[b])
          BY <3>1, <4>1, <4>3, Zenon
        <5>1. todo[i].verb = "ensure" /\ todo[i].obj = Obj(r, "filter", b) /\ todo[i].obj.part = "filter"
          BY <5>0 DEF Call, Obj
        <5>2. Then(todo, i, Call("ensure", Obj(r, "http", b), "set")) /\ Beside(todo[i].obj, "http") = Obj(r, "http", b)
          <6>1. 2 + 1 = 3
            OBVIOUS
          <6>2. Beside(todo[i].obj, "http") = Obj(r, "http", b)
            BY <5>1 DEF Beside, Obj
          <6> QED
            BY <3>3, <4>1, <4>3, <6>1, <6>2, Zenon
        <5> QED
          BY <5>1, <5>2 DEF Next1
      <4>4. CASE j = 3
        <5>0. todo[i] = Call("ensure", Obj(r, "http", b), "set")
          BY <3>1, <4>1, <4>4, Zenon
        <5>1. todo[i].verb = "ensure" /\ todo[i].obj = Obj(r, "http", b) /\ todo[i].obj.part = "http"
          BY <5>0 DEF Call, Obj
        <5> QED
          BY <5>1 DEF Next1
      <4> QED
        BY <4>2, <4>3, <4>4
    <3> QED
      BY <3>4, <3>5
  <2>2. ASSUME NEW j \in 1..4, i = 3 * N + j PROVE Next1(i)
    <3> DEFINE o == q(j)
    <3>1. todo[i] = P[j] /\ Sets(P[j], r, s, o)
      BY <1>3, <1>6, <2>2, Zenon
    <3>2. todo[i] = IF Asked(s, o) = "nil" THEN Call("cleanup", o, "nil") ELSE Call("ensure", o, Asked(s, o))
      BY <3>1, Zenon DEF Sets
    <3>3. o.part # "filter"
      BY <1>7 DEF OfRoute, OAuthParts
    <3>4. todo[i].verb \in {"cleanup", "ensure"} /\ todo[i].obj = o
      <4> HIDE DEF o
      <4> QED
        BY <3>2 DEF Call
    <3> HIDE DEF o
    <3> QED
      BY <3>3, <3>4 DEF Next1
  <2> QED
    BY <1>10, <2>1, <2>2, Zenon
<1>15. ASSUME NEW o \in Of(r), o.part # "main" PROVE Settles(todo, s, o)
  <2> DEFINE b == o.of
  <2>1. /\ o = Obj(r, o.part, b)
        /\ (o.part \in OfBackend /\ b \in Backends) \/ (o.part \in OfRoute /\ b = "route")
    BY Objects DEF Names
  <2>2. ASSUME o.part \in OfBackend, b \in Backends, s.refs[b] # "absent" \/ seenMade[Obj(r, "http", b)] # "nil"
        PROVE  \A j \in 1..3 : Has(todo, c(b)[j])
    <3>1. PICK k \in 1..N : w[k] = b
      BY <1>3, <2>2, Zenon
    <3>2. \A j \in 1..3 : 3 * k - 3 + j \in 1..Len(todo) /\ todo[3 * k - 3 + j] = c(b)[j]
      <4> SUFFICES ASSUME NEW j \in 1..3
                   PROVE  3 * k - 3 + j \in 1..Len(todo) /\ todo[3 * k - 3 + j] = c(b)[j]
        BY Zenon
      <4>1. 3 * k - 3 + j \in 1..Len(todo)
        BY <1>8, Zenon
      <4>2. todo[3 * k - 3 + j] = c(w[k])[j]
        BY <1>3, Zenon
      <4> QED
        BY <3>1, <4>1, <4>2, Zenon
    <3> QED
      BY <3>2, Zenon DEF Has
  <2>3. 1 \in 1..3 /\ 2 \in 1..3 /\ 3 \in 1..3
    OBVIOUS
  <2>4. CASE o.part \in OfBackend /\ b \in Backends /\ s.refs[b] # "absent"
    <3>1. /\ Has(todo, IF s.refs[b] = "key" THEN Call("put", Obj(r, "cred", b), "set")
                       ELSE Call("unlink", Obj(r, "filter", b), "plain"))
          /\ Has(todo, Call("ensure", Obj(r, "filter", b), s.refs[b]))
          /\ Has(todo, Call("ensure", Obj(r, "http", b), "set"))
      BY <1>5, <2>2, <2>3, <2>4, Zenon DEF Makes
    <3>2. s.refs[b] \in {"plain", "key"}
      BY <2>4 DEF Spec1
    <3>3. CASE o.part = "http"
      <4>1. Asked(s, o) = "set" /\ o = Obj(r, "http", b)
        BY <2>1, <2>4, <3>3 DEF Asked, Wanted, OAuthParts
      <4> QED
        BY <3>1, <4>1 DEF Settles
    <3>4. CASE o.part = "filter"
      <4>1. Asked(s, o) = s.refs[b] /\ o = Obj(r, "filter", b)
        BY <2>1, <2>4, <3>4 DEF Asked, Wanted, OAuthParts
      <4> QED
        BY <3>1, <3>2, <4>1 DEF Settles
    <3>5. CASE o.part = "cred"
      <4>1. Asked(s, o) = (IF s.refs[b] = "key" THEN "set" ELSE "nil") /\ o = Obj(r, "cred", b)
        BY <2>1, <2>4, <3>5 DEF Asked, Wanted, OAuthParts
      <4>2. Beside(o, "filter") = Obj(r, "filter", b)
        BY <2>1 DEF Beside, Obj
      <4> QED
        BY <3>1, <3>2, <3>5, <4>1, <4>2 DEF Settles
    <3> QED
      BY <2>4, <3>3, <3>4, <3>5 DEF OfBackend
  <2>5. CASE o.part \in OfBackend /\ b \in Backends /\ s.refs[b] = "absent"
    <3>1. Asked(s, o) = "nil"
      BY <2>5 DEF Asked, Wanted, OAuthParts, OfBackend
    <3>2. Beside(o, "http") = Obj(r, "http", b)
      BY <2>1 DEF Beside, Obj
    <3>3. CASE seenMade[Obj(r, "http", b)] = "nil"
      BY <2>5, <3>1, <3>2, <3>3 DEF Settles
    <3>4. CASE seenMade[Obj(r, "http", b)] # "nil"
      <4>1. /\ Has(todo, Call("drop", Obj(r, "http", b), "nil")) /\ Has(todo, Call("drop", Obj(r, "filter", b), "nil"))
            /\ Has(todo, Call("drop", Obj(r, "cred", b), "nil"))
        BY <1>5, <2>2, <2>3, <2>5, <3>4, Zenon DEF Drops
      <4>2. Has(todo, Call("drop", o, "nil"))
        BY <2>1, <2>5, <4>1 DEF OfBackend
      <4> QED
        BY <3>1, <4>2, Zenon DEF Settles
    <3> QED
      BY <3>3, <3>4
  <2>6. CASE o.part \in OfRoute /\ b = "route"
    <3>1. PICK j \in 1..4 : o.part = PolicyParts[j]
      BY <1>15, <2>6, PolicyCalls, Zenon
    <3>2. o = q(j)
      BY <2>1, <2>6, <3>1, Zenon
    <3>3. todo[3 * N + j] = P[j] /\ 3 * N + j \in 1..Len(todo) /\ Sets(P[j], r, s, o)
      BY <1>3, <1>6, <1>9, <3>2, Zenon
    <3>4. Has(todo, IF Asked(s, o) = "nil" THEN Call("cleanup", o, "nil") ELSE Call("ensure", o, Asked(s, o)))
      BY <3>3, Zenon DEF Has, Sets
    <3> QED
      BY <3>4, Zenon DEF Settles
  <2> QED
    BY <2>1, <2>4, <2>5, <2>6
<1>16. todo # <<>>
  BY <1>len
<1> QED
  BY <1>3, <1>11, <1>12, <1>13, <1>14, <1>15, <1>16, Zenon DEF Planned, todo

-----------------------------------------------------------------------------
(* The calls a reconcile starts with.                                      *)
LEMMA Starts ==
  ASSUME NEW r \in MCPRoutes, NEW s \in Spec1, s.is = "live"
  PROVE  /\ syncMCPRoute(r, s) # <<>> /\ Planned(syncMCPRoute(r, s), r, s)
         /\ Has(syncMCPRoute(r, s), ensureMCPProxyBackend)
         /\ Has(syncMCPRoute(r, s), Call("ensure", Obj(r, "main", "route"), s.auth))
         /\ Has(syncMCPRoute(r, s), listExistingPerBackendHTTPRoutes(r))
<1> DEFINE x == ensureMCPProxyBackend
           y == newMainHTTPRoute(r, s)
           z == listExistingPerBackendHTTPRoutes(r)
           t == <<x, y, z>>
           o == Obj(r, "main", "route")
<1>1. syncMCPRoute(r, s) = t
  BY DEF syncMCPRoute
<1>2. o \in Of(r) /\ o \in Object /\ o.part = "main" /\ Proxy \in Object /\ Proxy.part = "proxy"
  BY ProxyFacts DEF Obj, Object, Of, OfRoute
<1>3. s.auth \in Content /\ s.auth # "nil"
  BY DEF Spec1, Content
<1>4. x.verb = "ensure" /\ x.obj = Proxy /\ y.verb = "ensure" /\ y.obj = o /\ y.val = s.auth /\ z.verb = "list"
  BY DEF ensureMCPProxyBackend, newMainHTTPRoute, listExistingPerBackendHTTPRoutes, Call
<1>5. x \in Calls /\ y \in Calls /\ z \in Calls
  <2>1. Obj(r, "http", "route") \in [route : MCPRoutes, part : {"http"}, of : {"route"}]
    BY DEF Obj
  <2> QED
    BY <1>2, <1>3, <2>1 DEF ensureMCPProxyBackend, newMainHTTPRoute, listExistingPerBackendHTTPRoutes, Call, Calls, Content
<1>6. Fits(x, r, s) /\ Fits(z, r, s)
  BY DEF Fits
<1>7. Fits(y, r, s)
  <2>1. Asked(s, o) = s.auth
    BY <1>2 DEF Asked, Wanted, OAuthParts
  <2> QED
    BY <1>2, <1>3, <1>4, <2>1 DEF Fits
<1>8. /\ Target(x) = Proxy /\ Target(y) = o /\ Reads(y) = {o}
      /\ \A p \in Reads(z) : p.part \notin {"proxy", "main"}
  BY <1>4 DEF Target, Reads
<1> HIDE DEF x, y, z, o
<1>9. /\ t \in Seq(Calls) /\ Len(t) = 3 /\ t[1] = x /\ t[2] = y /\ t[3] = z
  BY <1>5
<1> HIDE DEF t
<1>10. \A i \in 1..Len(t) : i = 1 \/ i = 2 \/ i = 3
  BY <1>9
<1>11. \A i \in 1..Len(t) : Fits(t[i], r, s)
  BY <1>6, <1>7, <1>9, <1>10, Zenon
<1>12. Apart(t)
  <2>1. \A i, j \in 1..Len(t) : i < j => (i = 1 /\ j \in {2, 3}) \/ (i = 2 /\ j = 3)
    BY <1>9
  <2>2. Target(x) \notin Reads(y) /\ Target(x) \notin Reads(z) /\ Target(y) \notin Reads(z)
    BY <1>2, <1>8
  <2> QED
    BY <1>9, <2>1, <2>2 DEF Apart
<1>13. Follows(t)
  <2>1. x.obj.part = "proxy" /\ y.obj.part = "main"
    BY <1>2, <1>4
  <2> QED
    BY <1>4, <1>9, <1>10, <2>1 DEF Follows
<1>14. Has(t, x) /\ Has(t, y) /\ Has(t, z)
  <2>1. 1 \in 1..Len(t) /\ 2 \in 1..Len(t) /\ 3 \in 1..Len(t)
    BY <1>9
  <2> QED
    BY <1>9, <2>1, Zenon DEF Has
<1>15. t # <<>>
  <2>1. Len(t) # 0
    BY <1>9
  <2> QED
    BY <2>1, Empty
<1> QED
  BY <1>1, <1>9, <1>11, <1>12, <1>13, <1>14, <1>15 DEF Planned, x, y, z, o, newMainHTTPRoute

LEMMA Ends ==
  ASSUME NEW r \in MCPRoutes, NEW s \in Spec1, s.is = "deleting"
  PROVE  syncMCPRoute(r, s) # <<>> /\ Planned(syncMCPRoute(r, s), r, s)
<1> DEFINE x == Call("release", Proxy, "nil")
           y == Call("finalize", Proxy, "nil")
           t == <<x, y>>
<1>1. syncMCPRoute(r, s) = t
  BY DEF syncMCPRoute, onMCPRouteDeleted
<1>2. x \in Calls /\ y \in Calls
  BY ProxyFacts DEF Call, Calls, Content
<1>3. Fits(x, r, s) /\ Fits(y, r, s)
  BY DEF Fits, Call
<1>4. x.verb = "release" /\ y.verb = "finalize" /\ Reads(x) = {} /\ Reads(y) = {}
  BY DEF Call, Reads
<1> HIDE DEF x, y
<1>5. t \in Seq(Calls) /\ Len(t) = 2 /\ t[1] = x /\ t[2] = y
  BY <1>2
<1> HIDE DEF t
<1>6. \A i \in 1..Len(t) : i = 1 \/ i = 2
  BY <1>5
<1>7. \A i \in 1..Len(t) : Fits(t[i], r, s) /\ Reads(t[i]) = {} /\ t[i].verb \in {"release", "finalize"}
  BY <1>3, <1>4, <1>5, <1>6
<1>8. Apart(t)
  BY <1>7 DEF Apart
<1>9. Follows(t)
  BY <1>7 DEF Follows
<1>10. t # <<>>
  <2>1. Len(t) # 0
    BY <1>5
  <2> QED
    BY <2>1, Empty
<1> QED
  BY <1>1, <1>5, <1>7, <1>8, <1>9, <1>10, Zenon DEF Planned
=============================================================================
