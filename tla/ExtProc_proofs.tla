--------------------------- MODULE ExtProc_proofs ---------------------------
(***************************************************************************)
(* Proofs about ExtProc, for any requests, attempts and configurations.    *)
(***************************************************************************)
EXTENDS ExtProc, TLAPS

-----------------------------------------------------------------------------
(* What the updates of the records do to their types.                      *)

LEMMA RouterTypes ==
  ASSUME rp \in [Req -> RouterProcessor], NEW q \in Req
  PROVE  /\ \A c \in DOMAIN Config : [rp EXCEPT ![q].config = c] \in [Req -> RouterProcessor]
         /\ \A s, f, u \in BOOLEAN :
              [rp EXCEPT ![q].streaming = s, ![q].force = f, ![q].usage = u] \in [Req -> RouterProcessor]
         /\ [rp EXCEPT ![q].count = @ + 1] \in [Req -> RouterProcessor]
         /\ \A f \in Req \X Attempt :
              [rp EXCEPT ![q].count = @ + 1, ![q].filter = f] \in [Req -> RouterProcessor]
         /\ [rp EXCEPT ![q].localReply = TRUE] \in [Req -> RouterProcessor]
<1>1. rp[q] \in RouterProcessor /\ rp[q].count + 1 \in Nat
  BY DEF RouterProcessor
<1>2. \A v \in RouterProcessor : [rp EXCEPT ![q] = v] \in [Req -> RouterProcessor]
  OBVIOUS
<1>3. \A c \in DOMAIN Config : [rp[q] EXCEPT !.config = c] \in RouterProcessor
  BY <1>1, Zenon DEF RouterProcessor
<1>4. \A s, f, u \in BOOLEAN : [rp[q] EXCEPT !.streaming = s, !.force = f, !.usage = u] \in RouterProcessor
  BY <1>1, Zenon DEF RouterProcessor
<1>5. \A n \in Nat : [rp[q] EXCEPT !.count = n] \in RouterProcessor
  BY <1>1, Zenon DEF RouterProcessor
<1>6. \A n \in Nat, f \in Req \X Attempt : [rp[q] EXCEPT !.count = n, !.filter = f] \in RouterProcessor
  BY <1>1, Zenon DEF RouterProcessor
<1>7. [rp[q] EXCEPT !.localReply = TRUE] \in RouterProcessor
  BY <1>1, Zenon DEF RouterProcessor
<1>8. /\ \A c \in DOMAIN Config : [rp EXCEPT ![q].config = c] \in [Req -> RouterProcessor]
      /\ [rp EXCEPT ![q].localReply = TRUE] \in [Req -> RouterProcessor]
  BY <1>2, <1>3, <1>7, Zenon
<1>9. \A s, f, u \in BOOLEAN :
        [rp EXCEPT ![q].streaming = s, ![q].force = f, ![q].usage = u] \in [Req -> RouterProcessor]
  BY <1>2, <1>4, ZenonT(30)
<1>10. [rp EXCEPT ![q].count = @ + 1] \in [Req -> RouterProcessor]
  BY <1>1, <1>2, <1>5, Zenon
<1>11. \A f \in Req \X Attempt :
        [rp EXCEPT ![q].count = @ + 1, ![q].filter = f] \in [Req -> RouterProcessor]
  BY <1>1, <1>2, <1>6, Zenon
<1>12. QED
  BY <1>8, <1>9, <1>10, <1>11, Zenon

LEMMA UpTypes ==
  ASSUME up \in [Req -> [Attempt -> UpstreamProcessor]], NEW r \in Req, NEW a \in Attempt
  PROVE  /\ \A v \in UpstreamProcessor :
              [up EXCEPT ![r][a] = v] \in [Req -> [Attempt -> UpstreamProcessor]]
         /\ \A b \in Backend : [up[r][a] EXCEPT !.pc = "headers", !.backend = b] \in UpstreamProcessor
         /\ [up[r][a] EXCEPT !.pc = "ended"] \in UpstreamProcessor
         /\ \A q \in Req : [up[r][a] EXCEPT !.pc = "bound", !.parent = q] \in UpstreamProcessor
         /\ \A s, b \in BOOLEAN :
              [up[r][a] EXCEPT !.pc = "answered", !.sent = s, !.replaced = b] \in UpstreamProcessor
<1>1. up[r][a] \in UpstreamProcessor
  OBVIOUS
<1>2. \A v \in UpstreamProcessor : [up EXCEPT ![r][a] = v] \in [Req -> [Attempt -> UpstreamProcessor]]
  OBVIOUS
<1>3. QED
  BY <1>1, <1>2, Zenon DEF UpstreamProcessor

LEMMA EnvoyTypes ==
  ASSUME envoy \in [Req -> EnvoyRequest], NEW r \in Req
  PROVE  /\ \A p \in EnvoyPc : [envoy EXCEPT ![r].pc = p] \in [Req -> EnvoyRequest]
         /\ LocalReply(r) \in [Req -> EnvoyRequest]
         /\ \A a \in Attempt :
              [envoy EXCEPT ![r].pc = "upstream", ![r].attempt = a] \in [Req -> EnvoyRequest]
         /\ \A s \in {"200", "2xx", "bad"} :
              [envoy EXCEPT ![r].pc = "respond", ![r].from = envoy[r].attempt, ![r].status = s]
                \in [Req -> EnvoyRequest]
         /\ \A p \in EnvoyPc, c \in BOOLEAN :
              [envoy EXCEPT ![r].pc = p, ![r].chunked = c] \in [Req -> EnvoyRequest]
<1>1. envoy[r] \in EnvoyRequest /\ envoy[r].attempt \in Attempt \cup {0}
  BY DEF EnvoyRequest
<1>2. \A v \in EnvoyRequest : [envoy EXCEPT ![r] = v] \in [Req -> EnvoyRequest]
  OBVIOUS
<1>3. \A p \in EnvoyPc : [envoy[r] EXCEPT !.pc = p] \in EnvoyRequest
  BY <1>1, Zenon DEF EnvoyRequest
<1>4. \A n \in Attempt \cup {0}, s \in {"200", "2xx", "bad"} :
        [envoy[r] EXCEPT !.pc = "respond", !.from = n, !.status = s] \in EnvoyRequest
  BY <1>1, Zenon DEF EnvoyRequest, EnvoyPc
<1>5. \A a \in Attempt : [envoy[r] EXCEPT !.pc = "upstream", !.attempt = a] \in EnvoyRequest
  BY <1>1, Zenon DEF EnvoyRequest, EnvoyPc
<1>6. \A p \in EnvoyPc, c \in BOOLEAN : [envoy[r] EXCEPT !.pc = p, !.chunked = c] \in EnvoyRequest
  BY <1>1, Zenon DEF EnvoyRequest
<1>7. \A p \in EnvoyPc : [envoy EXCEPT ![r].pc = p] \in [Req -> EnvoyRequest]
  BY <1>2, <1>3, Zenon
<1>8. \A n \in Attempt \cup {0}, s \in {"200", "2xx", "bad"} :
        [envoy EXCEPT ![r].pc = "respond", ![r].from = n, ![r].status = s] \in [Req -> EnvoyRequest]
  BY <1>2, <1>4, Zenon
<1>9. LocalReply(r) \in [Req -> EnvoyRequest]
  BY <1>8, Zenon DEF LocalReply
<1>10. \A a \in Attempt :
        [envoy EXCEPT ![r].pc = "upstream", ![r].attempt = a] \in [Req -> EnvoyRequest]
  BY <1>2, <1>5, Zenon
<1>11. \A p \in EnvoyPc, c \in BOOLEAN :
        [envoy EXCEPT ![r].pc = p, ![r].chunked = c] \in [Req -> EnvoyRequest]
  BY <1>2, <1>6, Zenon
<1>12. QED
  BY <1>1, <1>7, <1>8, <1>9, <1>10, <1>11, Zenon

LEMMA AccountTypes ==
  ASSUME acct \in [Req -> Account], NEW q \in Req
  PROVE  /\ \A v \in Account : [acct EXCEPT ![q] = v] \in [Req -> Account]
         /\ [acct EXCEPT ![q].spans = @ + 1] \in [Req -> Account]
         /\ [acct EXCEPT ![q].fail = @ + 1] \in [Req -> Account]
         /\ [acct EXCEPT ![q].fail = @ + 1, ![q].ends = @ + 1] \in [Req -> Account]
         /\ [acct EXCEPT ![q].fail = @ + 1, ![q].usage = @ + 1] \in [Req -> Account]
         /\ \A x \in Account, b \in BOOLEAN : [x EXCEPT !.served = b] \in Account
         /\ [acct EXCEPT ![q].first = TRUE] \in [Req -> Account]
         /\ [acct EXCEPT ![q].usage = @ + 1] \in [Req -> Account]
         /\ RecordFailure(q) \in Account
         /\ \A s, c \in BOOLEAN :
              [acct[q] EXCEPT !.ok = @ + 1, !.usage = @ + 1, !.ends = @ + 1,
                              !.first = s, !.charged = c] \in Account
<1>1. /\ acct[q] \in Account
      /\ acct[q].ok + 1 \in Nat /\ acct[q].fail + 1 \in Nat /\ acct[q].usage + 1 \in Nat
      /\ acct[q].spans + 1 \in Nat /\ acct[q].ends + 1 \in Nat
  BY DEF Account
<1>2. \A v \in Account : [acct EXCEPT ![q] = v] \in [Req -> Account]
  OBVIOUS
<1>3. \A x \in Account, b \in BOOLEAN : [x EXCEPT !.served = b] \in Account
  BY Zenon DEF Account
<1>4. /\ [acct[q] EXCEPT !.first = TRUE] \in Account
      /\ [acct[q] EXCEPT !.usage = @ + 1] \in Account
  BY <1>1, Zenon DEF Account
<1>5. /\ [acct[q] EXCEPT !.spans = @ + 1] \in Account
      /\ [acct[q] EXCEPT !.fail = @ + 1] \in Account
  BY <1>1, Zenon DEF Account
<1>6. /\ [acct[q] EXCEPT !.fail = @ + 1, !.ends = @ + 1] \in Account
      /\ [acct[q] EXCEPT !.fail = @ + 1, !.usage = @ + 1] \in Account
  BY <1>1, Zenon DEF Account
<1>7. \A s, c \in BOOLEAN :
        [acct[q] EXCEPT !.ok = @ + 1, !.usage = @ + 1, !.ends = @ + 1,
                        !.first = s, !.charged = c] \in Account
  BY <1>1, Zenon DEF Account
<1>8. QED
  BY <1>1, <1>2, <1>3, <1>4, <1>5, <1>6, <1>7, Zenon DEF RecordFailure

-----------------------------------------------------------------------------
(* The strengthening.  A request Envoy is working on has its stream.       *)
StreamInv ==
    \A r \in Req : envoy[r].pc \notin {"new", "end"} => stream[r] = "open"

(* Attempts are made one after the other; the upstream filters that found  *)
(* the router processor of the request have been counted.                  *)
AttemptInv ==
    \A r \in Req :
        /\ envoy[r].pc \in {"new", "body", "route"} => envoy[r].attempt = 0
        /\ envoy[r].pc = "retry" => envoy[r].attempt < MaxAttempts
        /\ \A a \in Attempt :
             /\ a > envoy[r].attempt => up[r][a].pc = "none"
             /\ up[r][a].pc \in {"none", "headers"} => up[r][a].parent = None
             /\ up[r][a].pc = "bound" => up[r][a].parent # None
             /\ up[r][a].sent => up[r][a].parent # None
             /\ up[r][a].parent # None => rp[r].count > 0
        /\ \A a, c \in Attempt :
             a # c /\ up[r][a].parent # None /\ up[r][c].parent # None => rp[r].count > 1

Settled(r, a) == up[r][a].pc \in {"none", "answered", "ended"}

(* The requests on whose attempts Envoy does not give up early.            *)
Patient == Req \ Timeouts

(* As long as Envoy waits for the upstream filter, only the attempt it     *)
(* waits for can touch the router processor.                               *)
TurnInv ==
    \A r \in Patient :
        /\ envoy[r].pc \in {"new", "body", "route", "retry", "upstream", "sent"} => ~rp[r].localReply
        /\ envoy[r].pc \notin {"upstream", "end"} => \A a \in Attempt : Settled(r, a)
        /\ envoy[r].pc = "upstream" =>
             \A a \in Attempt : 
                /\ a # envoy[r].attempt => Settled(r, a)
                /\ a = envoy[r].attempt /\ up[r][a].pc = "bound" => rp[r].filter = <<r, a>>
        /\ envoy[r].pc = "sent" => rp[r].filter = <<r, envoy[r].attempt>>

Inv ==
    /\ TypeOK
    /\ RegistryMatchesStreams
    /\ RequestsDoNotMix
    /\ StreamInv
    /\ AttemptInv

LEMMA SeqElement ==
  ASSUME NEW S, NEW s \in Seq(S), NEW c \in DOMAIN s
  PROVE  c # 0 /\ s[c] \in S
  OBVIOUS

LEMMA ConfigTypes ==
  ASSUME NEW c \in DOMAIN Config
  PROVE  c # 0 /\ Config[c].costs \in BOOLEAN
<1>1. Config \in Seq([backends : SUBSET Backend, costs : BOOLEAN])
  BY ExtProcAssumption
<1>2. c # 0 /\ Config[c] \in [backends : SUBSET Backend, costs : BOOLEAN]
  BY <1>1, SeqElement, Zenon
<1>3. QED
  BY <1>2, Zenon

LEMMA CloseStreamTypes ==
  ASSUME TypeOK, NEW r \in Req, CloseStream(r)
  PROVE  /\ stream' \in [Req -> {"none", "open", "closed"}]
         /\ routerProcessors' \in [{InternalReqID(s) : s \in Req} -> Req \cup {None}]
         /\ envoy' \in [Req -> EnvoyRequest]
         /\ \A s \in Req : stream'[s] = "open" => stream[s] = "open"
<1>1. routerProcessors' \in [{InternalReqID(s) : s \in Req} -> Req \cup {None}]
  BY DEF TypeOK, CloseStream
<1>2. /\ stream' \in [Req -> {"none", "open", "closed"}]
      /\ \A s \in Req : stream'[s] = "open" => stream[s] = "open"
  BY DEF TypeOK, CloseStream
<1>3. envoy' \in [Req -> EnvoyRequest]
  BY EnvoyTypes, Zenon DEF TypeOK, CloseStream, EnvoyPc
<1>4. QED
  BY <1>1, <1>2, <1>3

(* There is room for the attempt Envoy makes next.                         *)
LEMMA NextAttempt ==
  ASSUME TypeOK, AttemptInv, NEW r \in Req, envoy[r].pc \in {"route", "retry"}
  PROVE  /\ envoy[r].attempt \in Nat
         /\ envoy[r].attempt + 1 \in Attempt
         /\ envoy[r].attempt + 1 > envoy[r].attempt
<1>1. envoy[r].attempt \in Attempt \cup {0}
  BY DEF TypeOK, EnvoyRequest
<1>2. envoy[r].attempt = 0 \/ envoy[r].attempt < MaxAttempts
  BY DEF AttemptInv
<1>3. MaxAttempts \in Nat /\ MaxAttempts > 0
  BY ExtProcAssumption
<1>4. QED
  BY <1>1, <1>2, <1>3 DEF Attempt

LEMMA InvStep ==
  ASSUME Inv, [Next]_vars
  PROVE  Inv'
<1>0. /\ RegistryMatchesStreams /\ RequestsDoNotMix /\ StreamInv /\ AttemptInv
      /\ [Next]_vars
  BY DEF Inv
<1>type. TypeOK
  BY DEF Inv
<1>reg. /\ routerProcessors \in [{InternalReqID(r) : r \in Req} -> Req \cup {None}]
        /\ stream \in [Req -> {"none", "open", "closed"}]
  BY <1>type DEF TypeOK
<1>rp. rp \in [Req -> RouterProcessor]
  BY <1>type DEF TypeOK
<1>up. up \in [Req -> [Attempt -> UpstreamProcessor]]
  BY <1>type DEF TypeOK
<1>envoy. envoy \in [Req -> EnvoyRequest]
  BY <1>type DEF TypeOK
<1>acct. acct \in [Req -> Account]
  BY <1>type DEF TypeOK
<1>1. ASSUME LoadConfig
       PROVE  Inv'
  <2>1. TypeOK'
    BY <1>type, <1>1 DEF TypeOK, LoadConfig
  <2>2. RegistryMatchesStreams'
    BY <1>0, <1>1, <1>reg DEF RegistryMatchesStreams, LoadConfig
  <2>3. RequestsDoNotMix'
    BY <1>0, <1>1 DEF RequestsDoNotMix, LoadConfig
  <2>4. StreamInv'
    BY <1>0, <1>1, <1>reg DEF StreamInv, LoadConfig
  <2>5. AttemptInv'
    BY <1>0, <1>1 DEF AttemptInv, LoadConfig
  <2>6. QED
    BY <2>1, <2>2, <2>3, <2>4, <2>5 DEF Inv
<1>2. ASSUME NEW r \in Req, RouterHeaders(r)
       PROVE  Inv'
  <2>1. TypeOK'
    <3>1. config \in DOMAIN Config
      BY <1>type DEF TypeOK
    <3>2. rp' \in [Req -> RouterProcessor]
      BY <1>rp, <1>2, <3>1, RouterTypes, Zenon DEF RouterHeaders
    <3>3. envoy' \in [Req -> EnvoyRequest]
      BY <1>envoy, <1>2, <3>1, EnvoyTypes, Zenon DEF RouterHeaders, EnvoyPc
    <3>4. routerProcessors' \in [{InternalReqID(s) : s \in Req} -> Req \cup {None}] /\ stream' \in [Req -> {"none", "open", "closed"}]
      BY <1>reg, <1>2 DEF RouterHeaders
    <3>5. \A s \in Req : stream'[s] = "open" => rp'[s].config # 0
      BY <1>type, <1>rp, <1>reg, <1>2, <3>1, ConfigTypes DEF TypeOK, RouterHeaders, RouterProcessor
    <3>6. QED
      BY <1>type, <1>2, <3>2, <3>3, <3>4, <3>5 DEF TypeOK, RouterHeaders
  <2>2. RegistryMatchesStreams'
    BY <1>0, <1>2, <1>reg DEF RegistryMatchesStreams, RouterHeaders, InternalReqID
  <2>3. RequestsDoNotMix'
    BY <1>0, <1>2, <1>rp DEF RequestsDoNotMix, RouterHeaders, RouterProcessor
  <2>4. StreamInv'
    BY <1>0, <1>2, <1>envoy, <1>reg DEF StreamInv, RouterHeaders, EnvoyRequest
  <2>5. AttemptInv'
    BY <1>0, <1>2, <1>envoy, <1>rp DEF AttemptInv, RouterHeaders, EnvoyRequest, RouterProcessor
  <2>6. QED
    BY <2>1, <2>2, <2>3, <2>4, <2>5 DEF Inv
<1>3. ASSUME NEW r \in Req, UnsupportedPath(r)
       PROVE  Inv'
  <2>1. TypeOK'
    <3>1. /\ stream' \in [Req -> {"none", "open", "closed"}]
          /\ routerProcessors' \in [{InternalReqID(s) : s \in Req} -> Req \cup {None}]
          /\ envoy' \in [Req -> EnvoyRequest]
          /\ \A s \in Req : stream'[s] = "open" => stream[s] = "open"
      BY <1>type, <1>3, CloseStreamTypes, Zenon DEF UnsupportedPath
    <3>2. QED
      BY <1>type, <1>3, <3>1 DEF TypeOK, UnsupportedPath
  <2>2. RegistryMatchesStreams'
    BY <1>0, <1>3, <1>reg DEF RegistryMatchesStreams, UnsupportedPath, CloseStream, InternalReqID
  <2>3. RequestsDoNotMix'
    BY <1>0, <1>3 DEF RequestsDoNotMix, UnsupportedPath
  <2>4. StreamInv'
    BY <1>0, <1>3, <1>envoy, <1>reg DEF StreamInv, UnsupportedPath, CloseStream, EnvoyRequest
  <2>5. AttemptInv'
    BY <1>0, <1>3, <1>envoy DEF AttemptInv, UnsupportedPath, CloseStream, EnvoyRequest
  <2>6. QED
    BY <2>1, <2>2, <2>3, <2>4, <2>5 DEF Inv
<1>4. ASSUME NEW r \in Req, NEW streaming \in BOOLEAN, NEW asked \in BOOLEAN, RouterBody(r, streaming, asked)
       PROVE  Inv'
  <2>1. TypeOK'
    <3>1. rp[r].config \in DOMAIN Config
      <4>1. stream[r] = "open"
        BY <1>0, <1>4 DEF StreamInv, RouterBody
      <4>2. rp[r].config # 0 /\ rp[r] \in RouterProcessor
        BY <1>type, <4>1 DEF TypeOK
      <4>3. QED
        BY <4>2 DEF RouterProcessor
    <3>2. Config[rp[r].config].costs \in BOOLEAN
      BY <3>1, ConfigTypes
    <3>3. PICK f, u \in BOOLEAN : rp' = [rp EXCEPT ![r].streaming = streaming, ![r].force = f, ![r].usage = u]
      BY <1>4, <3>2, Zenon DEF RouterBody
    <3>4. rp' \in [Req -> RouterProcessor]
      BY <1>rp, <3>3, RouterTypes, Zenon
    <3>5. envoy' \in [Req -> EnvoyRequest]
      BY <1>envoy, <1>4, EnvoyTypes, Zenon DEF RouterBody, EnvoyPc
    <3>6. acct' \in [Req -> Account]
      BY <1>acct, <1>4, AccountTypes, Zenon DEF RouterBody
    <3>7. \A s \in Req : rp'[s].config = rp[s].config
      BY <1>rp, <1>4 DEF RouterBody, RouterProcessor
    <3>8. QED
      BY <1>type, <1>4, <3>4, <3>5, <3>6, <3>7 DEF TypeOK, RouterBody
  <2>2. RegistryMatchesStreams'
    BY <1>0, <1>4, <1>reg DEF RegistryMatchesStreams, RouterBody
  <2>3. RequestsDoNotMix'
    BY <1>0, <1>4, <1>rp DEF RequestsDoNotMix, RouterBody, RouterProcessor
  <2>4. StreamInv'
    BY <1>0, <1>4, <1>envoy, <1>reg DEF StreamInv, RouterBody, EnvoyRequest
  <2>5. AttemptInv'
    BY <1>0, <1>4, <1>envoy, <1>rp DEF AttemptInv, RouterBody, EnvoyRequest, RouterProcessor
  <2>6. QED
    BY <2>1, <2>2, <2>3, <2>4, <2>5 DEF Inv
<1>5. ASSUME NEW r \in Req, RouterBodyRejected(r)
       PROVE  Inv'
  <2>1. TypeOK'
    <3>1. envoy' \in [Req -> EnvoyRequest]
      BY <1>envoy, <1>5, EnvoyTypes, Zenon DEF RouterBodyRejected, EnvoyPc
    <3>2. QED
      BY <1>type, <1>5, <3>1 DEF TypeOK, RouterBodyRejected
  <2>2. RegistryMatchesStreams'
    BY <1>0, <1>5, <1>reg DEF RegistryMatchesStreams, RouterBodyRejected
  <2>3. RequestsDoNotMix'
    BY <1>0, <1>5 DEF RequestsDoNotMix, RouterBodyRejected
  <2>4. StreamInv'
    BY <1>0, <1>5, <1>envoy, <1>reg DEF StreamInv, RouterBodyRejected, EnvoyRequest
  <2>5. AttemptInv'
    BY <1>0, <1>5, <1>envoy DEF AttemptInv, RouterBodyRejected, EnvoyRequest
  <2>6. QED
    BY <2>1, <2>2, <2>3, <2>4, <2>5 DEF Inv
<1>6. ASSUME NEW r \in Req, RouterBodyFails(r)
       PROVE  Inv'
  <2>1. TypeOK'
    <3>1. /\ stream' \in [Req -> {"none", "open", "closed"}]
          /\ routerProcessors' \in [{InternalReqID(s) : s \in Req} -> Req \cup {None}]
          /\ envoy' \in [Req -> EnvoyRequest]
          /\ \A s \in Req : stream'[s] = "open" => stream[s] = "open"
      BY <1>type, <1>6, CloseStreamTypes, Zenon DEF RouterBodyFails
    <3>2. QED
      BY <1>type, <1>6, <3>1 DEF TypeOK, RouterBodyFails
  <2>2. RegistryMatchesStreams'
    BY <1>0, <1>6, <1>reg DEF RegistryMatchesStreams, RouterBodyFails, CloseStream, InternalReqID
  <2>3. RequestsDoNotMix'
    BY <1>0, <1>6 DEF RequestsDoNotMix, RouterBodyFails
  <2>4. StreamInv'
    BY <1>0, <1>6, <1>envoy, <1>reg DEF StreamInv, RouterBodyFails, CloseStream, EnvoyRequest
  <2>5. AttemptInv'
    BY <1>0, <1>6, <1>envoy DEF AttemptInv, RouterBodyFails, CloseStream, EnvoyRequest
  <2>6. QED
    BY <2>1, <2>2, <2>3, <2>4, <2>5 DEF Inv
<1>7. ASSUME NEW r \in Req, StreamEnds(r)
       PROVE  Inv'
  <2>1. TypeOK'
    <3>1. /\ stream' \in [Req -> {"none", "open", "closed"}]
          /\ routerProcessors' \in [{InternalReqID(s) : s \in Req} -> Req \cup {None}]
          /\ envoy' \in [Req -> EnvoyRequest]
          /\ \A s \in Req : stream'[s] = "open" => stream[s] = "open"
      BY <1>type, <1>7, CloseStreamTypes, Zenon DEF StreamEnds
    <3>2. QED
      BY <1>type, <1>7, <3>1 DEF TypeOK, StreamEnds
  <2>2. RegistryMatchesStreams'
    BY <1>0, <1>7, <1>reg DEF RegistryMatchesStreams, StreamEnds, CloseStream, InternalReqID
  <2>3. RequestsDoNotMix'
    BY <1>0, <1>7 DEF RequestsDoNotMix, StreamEnds
  <2>4. StreamInv'
    BY <1>0, <1>7, <1>envoy, <1>reg DEF StreamInv, StreamEnds, CloseStream, EnvoyRequest
  <2>5. AttemptInv'
    BY <1>0, <1>7, <1>envoy DEF AttemptInv, StreamEnds, CloseStream, EnvoyRequest
  <2>6. QED
    BY <2>1, <2>2, <2>3, <2>4, <2>5 DEF Inv
<1>8. ASSUME NEW r \in Req, NoRoute(r)
       PROVE  Inv'
  <2>1. TypeOK'
    <3>1. envoy' \in [Req -> EnvoyRequest]
      BY <1>envoy, <1>8, EnvoyTypes, Zenon DEF NoRoute, EnvoyPc
    <3>2. QED
      BY <1>type, <1>8, <3>1 DEF TypeOK, NoRoute
  <2>2. RegistryMatchesStreams'
    BY <1>0, <1>8, <1>reg DEF RegistryMatchesStreams, NoRoute
  <2>3. RequestsDoNotMix'
    BY <1>0, <1>8 DEF RequestsDoNotMix, NoRoute
  <2>4. StreamInv'
    BY <1>0, <1>8, <1>envoy, <1>reg DEF StreamInv, NoRoute, LocalReply, EnvoyRequest
  <2>5. AttemptInv'
    BY <1>0, <1>8, <1>envoy DEF AttemptInv, NoRoute, LocalReply, EnvoyRequest
  <2>6. QED
    BY <2>1, <2>2, <2>3, <2>4, <2>5 DEF Inv
<1>9. ASSUME NEW r \in Req, NEW b \in Backend, NewAttempt(r, b)
       PROVE  Inv'
  <2>1. TypeOK'
    <3>1. envoy[r].attempt + 1 \in Attempt
      BY <1>0, <1>type, <1>9, NextAttempt DEF NewAttempt
    <3>2. up' \in [Req -> [Attempt -> UpstreamProcessor]]
      BY <1>up, <1>9, <3>1, UpTypes, Zenon DEF NewAttempt
    <3>3. envoy' \in [Req -> EnvoyRequest]
      BY <1>envoy, <1>9, <3>1, EnvoyTypes, Zenon DEF NewAttempt, EnvoyPc
    <3>4. QED
      BY <1>type, <1>9, <3>2, <3>3 DEF TypeOK, NewAttempt
  <2>2. RegistryMatchesStreams'
    BY <1>0, <1>9, <1>reg DEF RegistryMatchesStreams, NewAttempt
  <2>3. RequestsDoNotMix'
    BY <1>0, <1>9, <1>up DEF RequestsDoNotMix, NewAttempt, UpstreamProcessor
  <2>4. StreamInv'
    BY <1>0, <1>9, <1>envoy, <1>reg DEF StreamInv, NewAttempt, EnvoyRequest
  <2>5. AttemptInv'
    <3> DEFINE n == envoy[r].attempt + 1
    <3>1. n \in Attempt /\ envoy[r].attempt \in Nat /\ n > envoy[r].attempt
      BY <1>0, <1>type, <1>9, NextAttempt DEF NewAttempt
    <3>2. up[r][n].parent = None /\ ~up[r][n].sent
      BY <1>0, <3>1 DEF AttemptInv
    <3>3. /\ \A s \in Req, c \in Attempt :
               up'[s][c].parent = up[s][c].parent /\ (up'[s][c].sent <=> up[s][c].sent)
          /\ \A s \in Req, c \in Attempt : s # r \/ c # n => up'[s][c].pc = up[s][c].pc
          /\ up'[r][n].pc = "headers"
      BY <1>up, <1>9, <3>1 DEF NewAttempt, UpstreamProcessor
    <3>4. /\ envoy'[r].pc = "upstream" /\ envoy'[r].attempt = n
          /\ \A s \in Req : s # r => envoy'[s] = envoy[s]
      BY <1>envoy, <1>9 DEF NewAttempt, EnvoyRequest
    <3>5. \A c \in Attempt : c \in Nat
      BY DEF Attempt
    <3> HIDE DEF n
    <3>6. rp' = rp
      BY <1>9 DEF NewAttempt
    <3>7. ASSUME NEW s \in Req, NEW c \in Attempt
          PROVE  /\ c > envoy'[s].attempt => up'[s][c].pc = "none"
                 /\ up'[s][c].pc \in {"none", "headers"} => up'[s][c].parent = None
                 /\ up'[s][c].pc = "bound" => up'[s][c].parent # None
                 /\ up'[s][c].sent => up'[s][c].parent # None
                 /\ up'[s][c].parent # None => rp'[s].count > 0
      BY <1>0, <3>1, <3>2, <3>3, <3>4, <3>5, <3>6 DEF AttemptInv
    <3>8. \A s \in Req : \A c, d \in Attempt :
            c # d /\ up'[s][c].parent # None /\ up'[s][d].parent # None => rp'[s].count > 1
      BY <1>0, <3>3, <3>6 DEF AttemptInv
    <3>9. \A s \in Req :
            /\ envoy'[s].pc \in {"new", "body", "route"} => envoy'[s].attempt = 0
            /\ envoy'[s].pc = "retry" => envoy'[s].attempt < MaxAttempts
      BY <1>0, <3>4 DEF AttemptInv
    <3>10. QED
      BY <3>7, <3>8, <3>9 DEF AttemptInv
  <2>6. QED
    BY <2>1, <2>2, <2>3, <2>4, <2>5 DEF Inv
<1>10. ASSUME NEW r \in Req, BackendFails(r)
       PROVE  Inv'
  <2>1. TypeOK'
    <3>1. envoy' \in [Req -> EnvoyRequest]
      BY <1>envoy, <1>10, EnvoyTypes, Zenon DEF BackendFails, EnvoyPc
    <3>2. QED
      BY <1>type, <1>10, <3>1 DEF TypeOK, BackendFails
  <2>2. RegistryMatchesStreams'
    BY <1>0, <1>10, <1>reg DEF RegistryMatchesStreams, BackendFails
  <2>3. RequestsDoNotMix'
    BY <1>0, <1>10 DEF RequestsDoNotMix, BackendFails
  <2>4. StreamInv'
    BY <1>0, <1>10, <1>envoy, <1>reg DEF StreamInv, BackendFails, LocalReply, EnvoyRequest
  <2>5. AttemptInv'
    BY <1>0, <1>10, <1>envoy DEF AttemptInv, BackendFails, LocalReply, EnvoyRequest
  <2>6. QED
    BY <2>1, <2>2, <2>3, <2>4, <2>5 DEF Inv
<1>11. ASSUME NEW r \in Req, NEW status \in {"200", "2xx", "bad"}, BackendResponds(r, status)
       PROVE  Inv'
  <2>1. TypeOK'
    <3>1. envoy' \in [Req -> EnvoyRequest]
      BY <1>envoy, <1>11, EnvoyTypes, Zenon DEF BackendResponds, EnvoyPc
    <3>2. QED
      BY <1>type, <1>11, <3>1 DEF TypeOK, BackendResponds
  <2>2. RegistryMatchesStreams'
    BY <1>0, <1>11, <1>reg DEF RegistryMatchesStreams, BackendResponds
  <2>3. RequestsDoNotMix'
    BY <1>0, <1>11 DEF RequestsDoNotMix, BackendResponds
  <2>4. StreamInv'
    BY <1>0, <1>11, <1>envoy, <1>reg DEF StreamInv, BackendResponds, EnvoyRequest
  <2>5. AttemptInv'
    BY <1>0, <1>11, <1>envoy DEF AttemptInv, BackendResponds, EnvoyRequest
  <2>6. QED
    BY <2>1, <2>2, <2>3, <2>4, <2>5 DEF Inv
<1>12. ASSUME NEW r \in Req, PerTryTimeout(r)
       PROVE  Inv'
  <2>1. TypeOK'
    <3>1. envoy' \in [Req -> EnvoyRequest]
      BY <1>envoy, <1>12, EnvoyTypes, Zenon DEF PerTryTimeout, EnvoyPc
    <3>2. QED
      BY <1>type, <1>12, <3>1 DEF TypeOK, PerTryTimeout
  <2>2. RegistryMatchesStreams'
    BY <1>0, <1>12, <1>reg DEF RegistryMatchesStreams, PerTryTimeout
  <2>3. RequestsDoNotMix'
    BY <1>0, <1>12 DEF RequestsDoNotMix, PerTryTimeout
  <2>4. StreamInv'
    BY <1>0, <1>12, <1>envoy, <1>reg DEF StreamInv, PerTryTimeout, EnvoyRequest
  <2>5. AttemptInv'
    BY <1>0, <1>12, <1>envoy DEF AttemptInv, PerTryTimeout, EnvoyRequest
  <2>6. QED
    BY <2>1, <2>2, <2>3, <2>4, <2>5 DEF Inv
<1>13. ASSUME NEW r \in Req, MessageTimeout(r)
       PROVE  Inv'
  <2>1. TypeOK'
    <3>1. envoy' \in [Req -> EnvoyRequest]
      BY <1>envoy, <1>13, EnvoyTypes, Zenon DEF MessageTimeout, EnvoyPc
    <3>2. QED
      BY <1>type, <1>13, <3>1 DEF TypeOK, MessageTimeout
  <2>2. RegistryMatchesStreams'
    BY <1>0, <1>13, <1>reg DEF RegistryMatchesStreams, MessageTimeout
  <2>3. RequestsDoNotMix'
    BY <1>0, <1>13 DEF RequestsDoNotMix, MessageTimeout
  <2>4. StreamInv'
    BY <1>0, <1>13, <1>envoy, <1>reg DEF StreamInv, MessageTimeout, LocalReply, EnvoyRequest
  <2>5. AttemptInv'
    BY <1>0, <1>13, <1>envoy DEF AttemptInv, MessageTimeout, LocalReply, EnvoyRequest
  <2>6. QED
    BY <2>1, <2>2, <2>3, <2>4, <2>5 DEF Inv
<1>14. ASSUME NEW r \in Req, NEW a \in Attempt, SetBackendFindsNothing(r, a)
       PROVE  Inv'
  <2>1. TypeOK'
    <3>1. up' \in [Req -> [Attempt -> UpstreamProcessor]]
      BY <1>up, <1>14, UpTypes, Zenon DEF SetBackendFindsNothing, AttemptFails
    <3>2. envoy' \in [Req -> EnvoyRequest]
      BY <1>envoy, <1>14, EnvoyTypes, Zenon DEF SetBackendFindsNothing, AttemptFails, EnvoyPc
    <3>3. QED
      BY <1>type, <1>14, <3>1, <3>2 DEF TypeOK, SetBackendFindsNothing
  <2>2. RegistryMatchesStreams'
    BY <1>0, <1>14, <1>reg DEF RegistryMatchesStreams, SetBackendFindsNothing
  <2>3. RequestsDoNotMix'
    BY <1>0, <1>14, <1>up DEF RequestsDoNotMix, SetBackendFindsNothing, AttemptFails, UpstreamProcessor
  <2>4. StreamInv'
    BY <1>0, <1>14, <1>envoy, <1>reg DEF StreamInv, SetBackendFindsNothing, AttemptFails, LocalReply, Awaited, EnvoyRequest
  <2>5. AttemptInv'
    BY <1>0, <1>14, <1>envoy, <1>up DEF AttemptInv, SetBackendFindsNothing, AttemptFails, LocalReply, EnvoyRequest, UpstreamProcessor
  <2>6. QED
    BY <2>1, <2>2, <2>3, <2>4, <2>5 DEF Inv
<1>15. ASSUME NEW r \in Req, NEW a \in Attempt, SetBackendFails(r, a)
       PROVE  Inv'
  <2>1. TypeOK'
    <3>1. routerProcessors[InternalReqID(r)] \in Req
      BY <1>0, <1>15 DEF RegistryMatchesStreams, SetBackendFails
    <3>2. rp' \in [Req -> RouterProcessor]
      BY <1>rp, <1>15, <3>1, RouterTypes, Zenon DEF SetBackendFails
    <3>3. up' \in [Req -> [Attempt -> UpstreamProcessor]]
      BY <1>up, <1>15, <3>1, UpTypes, Zenon DEF SetBackendFails, AttemptFails
    <3>4. envoy' \in [Req -> EnvoyRequest]
      BY <1>envoy, <1>15, <3>1, EnvoyTypes, Zenon DEF SetBackendFails, AttemptFails, EnvoyPc
    <3>5. acct' \in [Req -> Account]
      BY <1>acct, <1>15, <3>1, AccountTypes, Zenon DEF SetBackendFails
    <3>6. \A s \in Req : rp'[s].config = rp[s].config
      BY <1>rp, <1>15, <3>1 DEF SetBackendFails, RouterProcessor
    <3>7. QED
      BY <1>type, <1>15, <3>2, <3>3, <3>4, <3>5, <3>6 DEF TypeOK, SetBackendFails
  <2>2. RegistryMatchesStreams'
    BY <1>0, <1>15, <1>reg DEF RegistryMatchesStreams, SetBackendFails
  <2>3. RequestsDoNotMix'
    BY <1>0, <1>15, <1>rp, <1>up DEF RequestsDoNotMix, SetBackendFails, AttemptFails, RouterProcessor, UpstreamProcessor
  <2>4. StreamInv'
    BY <1>0, <1>15, <1>envoy, <1>reg DEF StreamInv, SetBackendFails, AttemptFails, LocalReply, Awaited, EnvoyRequest
  <2>5. AttemptInv'
    <3>1. PICK q \in Req : rp' = [rp EXCEPT ![q].count = @ + 1]
      BY <1>0, <1>15 DEF RegistryMatchesStreams, SetBackendFails
    <3>2. \A s \in Req : rp[s].count \in Nat /\ rp'[s].count \in Nat /\ rp'[s].count >= rp[s].count
      BY <1>rp, <3>1 DEF RouterProcessor
    <3>3. AttemptFails(r, a) /\ up[r][a].pc = "headers"
      BY <1>15 DEF SetBackendFails
    <3>4. /\ \A s \in Req, c \in Attempt :
               up'[s][c].parent = up[s][c].parent /\ (up'[s][c].sent <=> up[s][c].sent)
          /\ \A s \in Req, c \in Attempt : s # r \/ c # a => up'[s][c].pc = up[s][c].pc
          /\ up'[r][a].pc = "ended"
      BY <1>up, <3>3 DEF AttemptFails, UpstreamProcessor
    <3>5. \A s \in Req : envoy'[s].attempt = envoy[s].attempt /\ envoy'[s].pc \in {envoy[s].pc, "respond"}
      BY <1>envoy, <3>3 DEF AttemptFails, LocalReply, EnvoyRequest
    <3>6. QED
      BY <1>0, <3>2, <3>3, <3>4, <3>5 DEF AttemptInv
  <2>6. QED
    BY <2>1, <2>2, <2>3, <2>4, <2>5 DEF Inv
<1>16. ASSUME NEW r \in Req, NEW a \in Attempt, SetBackend(r, a)
       PROVE  Inv'
  <2>1. TypeOK'
    <3>1. routerProcessors[InternalReqID(r)] \in Req /\ <<r, a>> \in Req \X Attempt
      BY <1>0, <1>16 DEF RegistryMatchesStreams, SetBackend
    <3>2. rp' \in [Req -> RouterProcessor]
      BY <1>rp, <1>16, <3>1, RouterTypes, Zenon DEF SetBackend
    <3>3. up' \in [Req -> [Attempt -> UpstreamProcessor]]
      BY <1>up, <1>16, <3>1, UpTypes, Zenon DEF SetBackend
    <3>4. \A s \in Req : rp'[s].config = rp[s].config
      BY <1>rp, <1>16, <3>1 DEF SetBackend, RouterProcessor
    <3>5. QED
      BY <1>type, <1>16, <3>2, <3>3, <3>4 DEF TypeOK, SetBackend
  <2>2. RegistryMatchesStreams'
    BY <1>0, <1>16, <1>reg DEF RegistryMatchesStreams, SetBackend
  <2>3. RequestsDoNotMix'
    <3>1. routerProcessors[InternalReqID(r)] = r
      BY <1>0, <1>16 DEF RegistryMatchesStreams, SetBackend
    <3>2. \A s \in Req, c \in Attempt : up'[s][c].parent \in {s, None}
      BY <1>0, <1>up, <1>16, <3>1 DEF RequestsDoNotMix, SetBackend, UpstreamProcessor
    <3>3. \A s \in Req : rp'[s].filter # None => rp'[s].filter[1] = s
      BY <1>0, <1>rp, <1>16, <3>1 DEF RequestsDoNotMix, SetBackend, RouterProcessor
    <3>4. QED
      BY <3>2, <3>3 DEF RequestsDoNotMix
  <2>4. StreamInv'
    BY <1>0, <1>16, <1>reg DEF StreamInv, SetBackend
  <2>5. AttemptInv'
    <3>1. routerProcessors[InternalReqID(r)] = r
      BY <1>0, <1>16 DEF RegistryMatchesStreams, SetBackend
    <3>2. /\ rp'[r].count = rp[r].count + 1 /\ rp[r].count \in Nat
          /\ \A s \in Req : s # r => rp'[s].count = rp[s].count
      BY <1>rp, <1>16, <3>1 DEF SetBackend, RouterProcessor
    <3>3. up[r][a].pc = "headers" /\ envoy' = envoy
      BY <1>16 DEF SetBackend
    <3>4. up' = [up EXCEPT ![r][a] = [@ EXCEPT !.pc = "bound", !.parent = r]]
      BY <1>16, <3>1 DEF SetBackend
    <3>5. QED
      BY <1>0, <1>up, <3>2, <3>3, <3>4, ExtProcAssumption DEF AttemptInv, UpstreamProcessor
  <2>6. QED
    BY <2>1, <2>2, <2>3, <2>4, <2>5 DEF Inv
<1>17. ASSUME NEW r \in Req, NEW a \in Attempt, NEW newBody \in BOOLEAN, UpstreamHeaders(r, a, newBody)
       PROVE  Inv'
  <2>1. TypeOK'
    <3>1. PICK s, b \in BOOLEAN :
            up' = [up EXCEPT ![r][a] = [@ EXCEPT !.pc = "answered", !.sent = s, !.replaced = b]]
      BY <1>17, Zenon DEF UpstreamHeaders, Awaited, onRetry
    <3>2. up' \in [Req -> [Attempt -> UpstreamProcessor]]
      BY <1>up, <3>1, UpTypes, Zenon
    <3>3. envoy' \in [Req -> EnvoyRequest]
      BY <1>envoy, <1>17, EnvoyTypes, Zenon DEF UpstreamHeaders, EnvoyPc
    <3>4. QED
      BY <1>type, <1>17, <3>2, <3>3 DEF TypeOK, UpstreamHeaders
  <2>2. RegistryMatchesStreams'
    BY <1>0, <1>17, <1>reg DEF RegistryMatchesStreams, UpstreamHeaders
  <2>3. RequestsDoNotMix'
    BY <1>0, <1>17, <1>up DEF RequestsDoNotMix, UpstreamHeaders, UpstreamProcessor
  <2>4. StreamInv'
    BY <1>0, <1>17, <1>envoy, <1>reg DEF StreamInv, UpstreamHeaders, Awaited, EnvoyRequest
  <2>5. AttemptInv'
    <3>1. rp' = rp /\ up[r][a].pc = "bound"
      BY <1>17 DEF UpstreamHeaders
    <3>2. /\ \A s \in Req, c \in Attempt : up'[s][c].parent = up[s][c].parent
          /\ \A s \in Req, c \in Attempt :
               s # r \/ c # a => up'[s][c].pc = up[s][c].pc /\ (up'[s][c].sent <=> up[s][c].sent)
          /\ up'[r][a].pc = "answered"
      BY <1>up, <1>17 DEF UpstreamHeaders, UpstreamProcessor
    <3>3. \A s \in Req : envoy'[s].attempt = envoy[s].attempt /\ envoy'[s].pc \in {envoy[s].pc, "sent"}
      BY <1>envoy, <1>17 DEF UpstreamHeaders, EnvoyRequest
    <3>4. QED
      BY <1>0, <3>1, <3>2, <3>3 DEF AttemptInv
  <2>6. QED
    BY <2>1, <2>2, <2>3, <2>4, <2>5 DEF Inv
<1>18. ASSUME NEW r \in Req, NEW a \in Attempt, UpstreamRejects(r, a)
       PROVE  Inv'
  <2>1. TypeOK'
    <3>1. up[r][a].parent \in Req
      <4>1. up[r][a] \in UpstreamProcessor /\ up[r][a].parent # None
        BY <1>0, <1>up, <1>18 DEF AttemptInv, UpstreamRejects
      <4>2. QED
        BY <4>1 DEF UpstreamProcessor
    <3>2. rp' \in [Req -> RouterProcessor]
      BY <1>rp, <1>18, <3>1, RouterTypes, Zenon DEF UpstreamRejects
    <3>3. up' \in [Req -> [Attempt -> UpstreamProcessor]]
      BY <1>up, <1>18, <3>1, UpTypes, Zenon DEF UpstreamRejects, AttemptFails
    <3>4. envoy' \in [Req -> EnvoyRequest]
      BY <1>envoy, <1>18, <3>1, EnvoyTypes, Zenon DEF UpstreamRejects, AttemptFails, EnvoyPc
    <3>5. acct' \in [Req -> Account]
      BY <1>acct, <1>18, <3>1, AccountTypes, Zenon DEF UpstreamRejects
    <3>6. \A s \in Req : rp'[s].config = rp[s].config
      BY <1>rp, <1>18, <3>1, ZenonT(30) DEF UpstreamRejects, RouterProcessor
    <3>7. QED
      BY <1>type, <1>18, <3>2, <3>3, <3>4, <3>5, <3>6, Zenon DEF TypeOK, UpstreamRejects
  <2>2. RegistryMatchesStreams'
    BY <1>0, <1>18, <1>reg DEF RegistryMatchesStreams, UpstreamRejects
  <2>3. RequestsDoNotMix'
    <3>1. \A s \in Req : rp'[s].filter = rp[s].filter
      BY <1>18, <1>rp DEF UpstreamRejects, RouterProcessor
    <3>2. \A s \in Req, c \in Attempt : up'[s][c].parent = up[s][c].parent
      <4>1. up' = [up EXCEPT ![r][a] = [@ EXCEPT !.pc = "ended"]]
        BY <1>18, Zenon DEF UpstreamRejects, AttemptFails
      <4>2. QED
        BY <1>up, <4>1 DEF UpstreamProcessor
    <3>3. QED
      BY <1>0, <3>1, <3>2, ZenonT(30) DEF RequestsDoNotMix
  <2>4. StreamInv'
    BY <1>0, <1>18, <1>envoy, <1>reg DEF StreamInv, UpstreamRejects, AttemptFails, LocalReply, Awaited, EnvoyRequest
  <2>5. AttemptInv'
    <3>1. \A s \in Req : rp'[s].count = rp[s].count
      BY <1>rp, <1>18 DEF UpstreamRejects, RouterProcessor
    <3>2. AttemptFails(r, a) /\ up[r][a].pc = "bound"
      BY <1>18 DEF UpstreamRejects
    <3>3. /\ \A s \in Req, c \in Attempt :
               up'[s][c].parent = up[s][c].parent /\ (up'[s][c].sent <=> up[s][c].sent)
          /\ \A s \in Req, c \in Attempt : s # r \/ c # a => up'[s][c].pc = up[s][c].pc
          /\ up'[r][a].pc = "ended"
      BY <1>up, <3>2 DEF AttemptFails, UpstreamProcessor
    <3>4. \A s \in Req : envoy'[s].attempt = envoy[s].attempt /\ envoy'[s].pc \in {envoy[s].pc, "respond"}
      BY <1>envoy, <3>2 DEF AttemptFails, LocalReply, EnvoyRequest
    <3>5. QED
      BY <1>0, <3>1, <3>2, <3>3, <3>4 DEF AttemptInv
  <2>6. QED
    BY <2>1, <2>2, <2>3, <2>4, <2>5 DEF Inv
<1>19. ASSUME NEW r \in Req, NEW a \in Attempt, UpstreamHeadersFail(r, a)
       PROVE  Inv'
  <2>1. TypeOK'
    <3>1. up[r][a].parent \in Req
      <4>1. up[r][a] \in UpstreamProcessor /\ up[r][a].parent # None
        BY <1>0, <1>up, <1>19 DEF AttemptInv, UpstreamHeadersFail
      <4>2. QED
        BY <4>1 DEF UpstreamProcessor
    <3>2. up' \in [Req -> [Attempt -> UpstreamProcessor]]
      BY <1>up, <1>19, <3>1, UpTypes, Zenon DEF UpstreamHeadersFail, AttemptFails
    <3>3. envoy' \in [Req -> EnvoyRequest]
      BY <1>envoy, <1>19, <3>1, EnvoyTypes, Zenon DEF UpstreamHeadersFail, AttemptFails, EnvoyPc
    <3>4. acct' \in [Req -> Account]
      BY <1>acct, <1>19, <3>1, AccountTypes, Zenon DEF UpstreamHeadersFail
    <3>5. QED
      BY <1>type, <1>19, <3>2, <3>3, <3>4 DEF TypeOK, UpstreamHeadersFail
  <2>2. RegistryMatchesStreams'
    BY <1>0, <1>19, <1>reg DEF RegistryMatchesStreams, UpstreamHeadersFail
  <2>3. RequestsDoNotMix'
    BY <1>0, <1>19, <1>up DEF RequestsDoNotMix, UpstreamHeadersFail, AttemptFails, UpstreamProcessor
  <2>4. StreamInv'
    BY <1>0, <1>19, <1>envoy, <1>reg DEF StreamInv, UpstreamHeadersFail, AttemptFails, LocalReply, Awaited, EnvoyRequest
  <2>5. AttemptInv'
    <3>1. UNCHANGED rp /\ AttemptFails(r, a) /\ up[r][a].pc = "bound"
      BY <1>19 DEF UpstreamHeadersFail
    <3>2. /\ \A s \in Req, c \in Attempt :
               up'[s][c].parent = up[s][c].parent /\ (up'[s][c].sent <=> up[s][c].sent)
          /\ \A s \in Req, c \in Attempt : s # r \/ c # a => up'[s][c].pc = up[s][c].pc
          /\ up'[r][a].pc = "ended"
      BY <1>up, <3>1 DEF AttemptFails, UpstreamProcessor
    <3>3. \A s \in Req : envoy'[s].attempt = envoy[s].attempt /\ envoy'[s].pc \in {envoy[s].pc, "respond"}
      BY <1>envoy, <3>1 DEF AttemptFails, LocalReply, EnvoyRequest
    <3>4. QED
      BY <1>0, <3>1, <3>2, <3>3 DEF AttemptInv
  <2>6. QED
    BY <2>1, <2>2, <2>3, <2>4, <2>5 DEF Inv
<1>20. ASSUME NEW r \in Req, NEW endOfStream \in BOOLEAN, ResponseHeaders(r, endOfStream)
       PROVE  Inv'
  <2>1. TypeOK'
    <3>1. envoy' \in [Req -> EnvoyRequest]
      BY <1>envoy, <1>20, EnvoyTypes, ZenonT(30) DEF ResponseHeaders, EnvoyPc
    <3>2. QED
      BY <1>type, <1>20, <3>1 DEF TypeOK, ResponseHeaders
  <2>2. RegistryMatchesStreams'
    BY <1>0, <1>20, <1>reg DEF RegistryMatchesStreams, ResponseHeaders
  <2>3. RequestsDoNotMix'
    BY <1>0, <1>20 DEF RequestsDoNotMix, ResponseHeaders
  <2>4. StreamInv'
    BY <1>0, <1>20, <1>envoy, <1>reg DEF StreamInv, ResponseHeaders, EnvoyRequest
  <2>5. AttemptInv'
    BY <1>0, <1>20, <1>envoy DEF AttemptInv, ResponseHeaders, EnvoyRequest
  <2>6. QED
    BY <2>1, <2>2, <2>3, <2>4, <2>5 DEF Inv
<1>21. ASSUME NEW r \in Req, ResponseFails(r)
       PROVE  Inv'
  <2>1. TypeOK'
    <3>1. /\ stream' \in [Req -> {"none", "open", "closed"}]
          /\ routerProcessors' \in [{InternalReqID(s) : s \in Req} -> Req \cup {None}]
          /\ envoy' \in [Req -> EnvoyRequest]
          /\ \A s \in Req : stream'[s] = "open" => stream[s] = "open"
      BY <1>type, <1>21, CloseStreamTypes, Zenon DEF ResponseFails
    <3>2. acct' \in [Req -> Account]
      BY <1>acct, <1>21, AccountTypes, Zenon DEF ResponseFails
    <3>3. QED
      BY <1>type, <1>21, <3>1, <3>2 DEF TypeOK, ResponseFails
  <2>2. RegistryMatchesStreams'
    BY <1>0, <1>21, <1>reg DEF RegistryMatchesStreams, ResponseFails, CloseStream, InternalReqID
  <2>3. RequestsDoNotMix'
    BY <1>0, <1>21 DEF RequestsDoNotMix, ResponseFails
  <2>4. StreamInv'
    BY <1>0, <1>21, <1>envoy, <1>reg DEF StreamInv, ResponseFails, CloseStream, EnvoyRequest
  <2>5. AttemptInv'
    BY <1>0, <1>21, <1>envoy DEF AttemptInv, ResponseFails, CloseStream, EnvoyRequest
  <2>6. QED
    BY <2>1, <2>2, <2>3, <2>4, <2>5 DEF Inv
<1>22. ASSUME NEW r \in Req, ResponseChunk(r)
       PROVE  Inv'
  <2>1. TypeOK'
    <3>1. acct' \in [Req -> Account]
      BY <1>acct, <1>22, AccountTypes, Zenon DEF ResponseChunk
    <3>2. QED
      BY <1>type, <1>22, <3>1 DEF TypeOK, ResponseChunk
  <2>2. RegistryMatchesStreams'
    BY <1>0, <1>22, <1>reg DEF RegistryMatchesStreams, ResponseChunk
  <2>3. RequestsDoNotMix'
    BY <1>0, <1>22 DEF RequestsDoNotMix, ResponseChunk
  <2>4. StreamInv'
    BY <1>0, <1>22, <1>reg DEF StreamInv, ResponseChunk
  <2>5. AttemptInv'
    BY <1>0, <1>22 DEF AttemptInv, ResponseChunk
  <2>6. QED
    BY <2>1, <2>2, <2>3, <2>4, <2>5 DEF Inv
<1>23. ASSUME NEW r \in Req, ResponseBody(r)
       PROVE  Inv'
  <2>1. TypeOK'
    <3>1. rp[r].config \in DOMAIN Config /\ rp[r] \in RouterProcessor
      <4>1. stream[r] = "open"
        BY <1>0, <1>23 DEF StreamInv, ResponseBody
      <4>2. rp[r].config # 0 /\ rp[r] \in RouterProcessor
        BY <1>type, <4>1 DEF TypeOK
      <4>3. QED
        BY <4>2 DEF RouterProcessor
    <3>2. RequestCosts(r) \in BOOLEAN /\ rp[r].streaming \in BOOLEAN
      <4>1. RequestCosts(r) \in BOOLEAN
        BY <3>1, ConfigTypes, Zenon DEF RequestCosts
      <4>2. rp[r].streaming \in BOOLEAN
        BY <3>1, Zenon DEF RouterProcessor
      <4>3. QED
        BY <4>1, <4>2
    <3>3. RecordSuccess(r, RequestCosts(r)) \in Account /\ RecordFailure(r) \in Account /\ acct[r] \in Account
      BY <1>acct, <3>2, AccountTypes, Zenon DEF RecordSuccess
    <3>4. envoy' \in [Req -> EnvoyRequest]
      BY <1>envoy, <1>23, <3>1, <3>2, <3>3, EnvoyTypes, Zenon DEF ResponseBody, EnvoyPc
    <3>5. acct' \in [Req -> Account]
      <4> DEFINE recorded == IF ~Handled(r) THEN acct[r]
                             ELSE IF envoy[r].status = "bad" THEN RecordFailure(r)
                             ELSE RecordSuccess(r, RequestCosts(r))
                 served == envoy[r].from # 0
      <4>1. recorded \in Account
        BY <3>3
      <4>2. acct' = [acct EXCEPT ![r] = [recorded EXCEPT !.served = served]] /\ served \in BOOLEAN
        BY <1>23, Zenon DEF ResponseBody
      <4> HIDE DEF recorded, served
      <4>3. QED
        BY <1>acct, <4>1, <4>2, AccountTypes, Zenon
    <3>6. QED
      BY <1>type, <1>23, <3>4, <3>5 DEF TypeOK, ResponseBody
  <2>2. RegistryMatchesStreams'
    BY <1>0, <1>23, <1>reg DEF RegistryMatchesStreams, ResponseBody
  <2>3. RequestsDoNotMix'
    BY <1>0, <1>23 DEF RequestsDoNotMix, ResponseBody
  <2>4. StreamInv'
    BY <1>0, <1>23, <1>envoy, <1>reg DEF StreamInv, ResponseBody, EnvoyRequest
  <2>5. AttemptInv'
    BY <1>0, <1>23, <1>envoy DEF AttemptInv, ResponseBody, EnvoyRequest
  <2>6. QED
    BY <2>1, <2>2, <2>3, <2>4, <2>5 DEF Inv
<1>24. ASSUME NEW r \in Req, CostsFail(r)
       PROVE  Inv'
  <2>1. TypeOK'
    <3>1. /\ stream' \in [Req -> {"none", "open", "closed"}]
          /\ routerProcessors' \in [{InternalReqID(s) : s \in Req} -> Req \cup {None}]
          /\ envoy' \in [Req -> EnvoyRequest]
          /\ \A s \in Req : stream'[s] = "open" => stream[s] = "open"
      BY <1>type, <1>24, CloseStreamTypes, Zenon DEF CostsFail
    <3>2. acct' \in [Req -> Account]
      BY <1>acct, <1>24, AccountTypes, Zenon DEF CostsFail
    <3>3. QED
      BY <1>type, <1>24, <3>1, <3>2 DEF TypeOK, CostsFail
  <2>2. RegistryMatchesStreams'
    BY <1>0, <1>24, <1>reg DEF RegistryMatchesStreams, CostsFail, CloseStream, InternalReqID
  <2>3. RequestsDoNotMix'
    BY <1>0, <1>24 DEF RequestsDoNotMix, CostsFail
  <2>4. StreamInv'
    BY <1>0, <1>24, <1>envoy, <1>reg DEF StreamInv, CostsFail, CloseStream, EnvoyRequest
  <2>5. AttemptInv'
    BY <1>0, <1>24, <1>envoy DEF AttemptInv, CostsFail, CloseStream, EnvoyRequest
  <2>6. QED
    BY <2>1, <2>2, <2>3, <2>4, <2>5 DEF Inv
<1>25. ASSUME UNCHANGED vars PROVE Inv'
  BY <1>0, <1>type, <1>25 DEF Inv, vars, TypeOK, RegistryMatchesStreams, RequestsDoNotMix, StreamInv, AttemptInv
<1>26. QED
  BY <1>0, <1>1, <1>2, <1>3, <1>4, <1>5, <1>6, <1>7, <1>8, <1>9, <1>10, <1>11, <1>12, <1>13, <1>14, <1>15, <1>16, <1>17, <1>18, <1>19, <1>20, <1>21, <1>22, <1>23, <1>24, <1>25
     DEF Next, RouterStep, EnvoyStep, AttemptStep, ResponseStep, Done

LEMMA InvInit == Init => Inv
<1> SUFFICES ASSUME Init PROVE Inv
  OBVIOUS
<1>1. NewRouterProcessor \in RouterProcessor
  BY Zenon DEF NewRouterProcessor, RouterProcessor
<1>2. NewUpstreamProcessor \in UpstreamProcessor
  BY Zenon DEF NewUpstreamProcessor, UpstreamProcessor
<1>3. \A r \in Req : envoy[r] \in EnvoyRequest /\ envoy[r].pc = "new" /\ envoy[r].attempt = 0
  BY Zenon DEF Init, EnvoyRequest, EnvoyPc
<1>4. \A r \in Req : acct[r] \in Account
  BY DEF Init, Account
<1>5. 1 \in DOMAIN Config
  BY ExtProcAssumption
<1>6. TypeOK
  <2>1. rp \in [Req -> RouterProcessor] /\ up \in [Req -> [Attempt -> UpstreamProcessor]]
    BY <1>1, <1>2, Zenon DEF Init
  <2>2. envoy \in [Req -> EnvoyRequest] /\ acct \in [Req -> Account]
    BY <1>3, <1>4, Zenon DEF Init
  <2>3. QED
    BY <1>5, <2>1, <2>2 DEF Init, TypeOK
<1>7. RegistryMatchesStreams
  BY DEF Init, RegistryMatchesStreams
<1>8. RequestsDoNotMix
  BY DEF Init, RequestsDoNotMix, NewRouterProcessor, NewUpstreamProcessor
<1>9. StreamInv
  BY <1>3 DEF StreamInv
<1>10. AttemptInv
  BY <1>3 DEF Init, AttemptInv, NewUpstreamProcessor
<1>11. QED
  BY <1>6, <1>7, <1>8, <1>9, <1>10 DEF Inv

(* The inductive invariant holds of every execution of the processor.      *)
THEOREM Invariance == Spec => []Inv
<1>1. QED
  BY InvInit, InvStep, PTL DEF Spec

(* The state of the external processor keeps its type, whatever streams,   *)
(* attempts and configuration changes come.                                *)
THEOREM TypeCorrect == Spec => []TypeOK
<1>1. Inv => TypeOK
  BY DEF Inv
<1>2. QED
  BY <1>1, Invariance, PTL

(* The map of router processors and the open streams agree: no entry is    *)
(* left behind and none is removed while its request is in flight.         *)
THEOREM RegistryCorrect == Spec => []RegistryMatchesStreams
<1>1. Inv => RegistryMatchesStreams
  BY DEF Inv
<1>2. QED
  BY <1>1, Invariance, PTL

(* Whatever the x-request-id headers are, an attempt is bound to the       *)
(* router processor of its own request.                                    *)
THEOREM RequestsKeptApart == Spec => []RequestsDoNotMix
<1>1. Inv => RequestsDoNotMix
  BY DEF Inv
<1>2. QED
  BY <1>1, Invariance, PTL

-----------------------------------------------------------------------------
LEMMA RetryStep ==
  ASSUME Inv, RetryReplacesBody, [Next]_vars
  PROVE  RetryReplacesBody'
<1>0. Inv /\ RetryReplacesBody /\ [Next]_vars
  OBVIOUS
<1> DEFINE Kept == \A s \in Req, c \in Attempt :
             (up'[s][c].sent <=> up[s][c].sent) /\ (up'[s][c].replaced <=> up[s][c].replaced)
<1>1. ASSUME Kept PROVE RetryReplacesBody'
  BY <1>0, <1>1 DEF RetryReplacesBody
<1>2. ASSUME NEW r \in Req, NEW b \in Backend, NewAttempt(r, b) PROVE Kept
  <2>1. envoy[r].attempt + 1 \in Attempt
    BY <1>0, <1>2, NextAttempt DEF Inv, NewAttempt
  <2>2. QED
    BY <1>0, <1>2, <2>1 DEF Inv, TypeOK, NewAttempt, UpstreamProcessor
<1>3. ASSUME NEW r \in Req, NEW a \in Attempt, AttemptFails(r, a) PROVE Kept
  BY <1>0, <1>3 DEF Inv, TypeOK, AttemptFails, UpstreamProcessor
<1>4. ASSUME NEW r \in Req, NEW a \in Attempt, SetBackend(r, a) PROVE Kept
  BY <1>0, <1>4 DEF Inv, TypeOK, SetBackend, UpstreamProcessor
<1>5. ASSUME NEW r \in Req, NEW a \in Attempt, NEW newBody \in BOOLEAN, UpstreamHeaders(r, a, newBody)
      PROVE  RetryReplacesBody'
  <2>1. up[r][a].parent = r
    BY <1>0, <1>5 DEF Inv, AttemptInv, RequestsDoNotMix, UpstreamHeaders
  <2> DEFINE S == Awaited(r, a)
             B == newBody \/ onRetry(r) \/ rp[r].force
  <2>2. /\ up'[r][a].sent <=> Awaited(r, a)
        /\ rp[r].count > 1 => up'[r][a].replaced
        /\ \A s \in Req, c \in Attempt : s # r \/ c # a => up'[s][c] = up[s][c]
    <3>1. up' = [up EXCEPT ![r][a] = [@ EXCEPT !.pc = "answered", !.sent = S, !.replaced = B]]
      BY <1>5, <2>1 DEF UpstreamHeaders
    <3>2. S \in BOOLEAN /\ B \in BOOLEAN /\ (rp[r].count > 1 => B)
      BY Zenon DEF Awaited, onRetry
    <3> HIDE DEF S, B
    <3>3. /\ up'[r][a].sent <=> S
          /\ up'[r][a].replaced <=> B
          /\ \A s \in Req, c \in Attempt : s # r \/ c # a => up'[s][c] = up[s][c]
      BY <1>0, <3>1, <3>2 DEF Inv, TypeOK, UpstreamProcessor
    <3>4. QED
      BY <3>2, <3>3 DEF S
  <2>3. ASSUME NEW c \in Attempt, c # a, up[r][c].sent PROVE rp[r].count > 1
    BY <1>0, <2>1, <2>3, ExtProcAssumption DEF Inv, AttemptInv
  <2>4. ASSUME NEW c \in Attempt, c > a, Awaited(r, a) PROVE ~up[r][c].sent
    BY <1>0, <2>4 DEF Inv, AttemptInv, Awaited
  <2>5. \A c \in Attempt : c \in Nat
    BY DEF Attempt
  <2>6. QED
    BY <1>0, <2>2, <2>3, <2>4, <2>5 DEF RetryReplacesBody
<1>6. ASSUME UNCHANGED up PROVE Kept
  BY <1>6
<1> HIDE DEF Kept
<1>7. QED
  <2>1. ASSUME NEW r \in Req, RouterStep(r) PROVE UNCHANGED up
    BY <2>1, Zenon DEF RouterStep, RouterHeaders, UnsupportedPath, RouterBody, RouterBodyRejected,
                RouterBodyFails, StreamEnds
  <2>2. ASSUME NEW r \in Req, ResponseStep(r) PROVE UNCHANGED up
    BY <2>2, Zenon DEF ResponseStep, ResponseHeaders, ResponseFails, ResponseChunk, ResponseBody, CostsFail
  <2>3. ASSUME NEW r \in Req, EnvoyStep(r) PROVE UNCHANGED up \/ \E b \in Backend : NewAttempt(r, b)
    BY <2>3 DEF EnvoyStep, NoRoute, BackendFails, BackendResponds, PerTryTimeout, MessageTimeout
  <2>4. ASSUME NEW r \in Req, NEW a \in Attempt, AttemptStep(r, a)
        PROVE  \/ AttemptFails(r, a) \/ SetBackend(r, a)
               \/ \E newBody \in BOOLEAN : UpstreamHeaders(r, a, newBody)
    BY <2>4, Zenon DEF AttemptStep, SetBackendFindsNothing, SetBackendFails, UpstreamRejects, UpstreamHeadersFail
  <2>5. LoadConfig \/ UNCHANGED vars => UNCHANGED up
    BY DEF LoadConfig, vars
  <2>6. QED
    BY <1>0, <1>1, <1>2, <1>3, <1>4, <1>5, <1>6, <2>1, <2>2, <2>3, <2>4, <2>5 DEF Next, Done

(* Once a backend was sent the request, no later one gets the body as it   *)
(* left it, however attempts are abandoned and overtake each other.        *)
THEOREM RetriesReplaceBody == Spec => []RetryReplacesBody
<1>1. Init => RetryReplacesBody
  BY DEF Init, RetryReplacesBody, NewUpstreamProcessor
<1>2. QED
  BY <1>1, RetryStep, Invariance, PTL DEF Spec

-----------------------------------------------------------------------------
LEMMA WhoseTurn ==
  ASSUME TurnInv, NEW r \in Patient, NEW a \in Attempt, ~Settled(r, a)
  PROVE  Awaited(r, a) \/ envoy[r].pc = "end"
  BY DEF TurnInv, Awaited

(* An attempt that fails leaves the request to a reply of Envoy's.         *)
LEMMA FailedTurn ==
  ASSUME TypeOK, TurnInv, ResponseMeetsItsAttempt,
         NEW r \in Req, NEW a \in Attempt, ~Settled(r, a), AttemptFails(r, a),
         \A s \in Req : rp'[s].filter = rp[s].filter,
         \A s \in Req : s # r => (rp'[s].localReply <=> rp[s].localReply)
  PROVE  TurnInv' /\ ResponseMeetsItsAttempt'
<1>1. r \in Patient => Awaited(r, a) \/ envoy[r].pc = "end"
  BY WhoseTurn
<1>2. /\ up'[r][a].pc = "ended"
      /\ \A s \in Req, c \in Attempt : s # r \/ c # a => up'[s][c] = up[s][c]
  BY DEF TypeOK, AttemptFails, UpstreamProcessor
<1>3. /\ Awaited(r, a) => envoy'[r].pc = "respond" /\ envoy'[r].from = 0
      /\ ~Awaited(r, a) => envoy'[r] = envoy[r]
      /\ \A s \in Req : s # r => envoy'[s] = envoy[s]
  BY DEF TypeOK, AttemptFails, LocalReply, EnvoyRequest
<1>4. QED
  BY <1>1, <1>2, <1>3 DEF TurnInv, ResponseMeetsItsAttempt, Settled, Awaited, Patient

LEMMA TurnStep ==
  ASSUME Inv, TurnInv, ResponseMeetsItsAttempt, [Next]_vars
  PROVE  TurnInv' /\ ResponseMeetsItsAttempt'
<1>0. TypeOK /\ RegistryMatchesStreams /\ AttemptInv /\ RequestsDoNotMix
      /\ StreamInv /\ TurnInv /\ ResponseMeetsItsAttempt /\ [Next]_vars
  BY DEF Inv
<1> DEFINE Goal == TurnInv' /\ ResponseMeetsItsAttempt'
<1>1. ASSUME LoadConfig PROVE Goal
  BY <1>0, <1>1 DEF TypeOK, Patient, TurnInv, ResponseMeetsItsAttempt, Settled, LoadConfig
<1>2. ASSUME NEW r \in Req, RouterHeaders(r) PROVE Goal
  BY <1>0, <1>2 DEF TypeOK, Patient, TurnInv, ResponseMeetsItsAttempt, Settled, RouterHeaders, EnvoyRequest, RouterProcessor
<1>3. ASSUME NEW r \in Req, UnsupportedPath(r) PROVE Goal
  BY <1>0, <1>3 DEF TypeOK, Patient, TurnInv, ResponseMeetsItsAttempt, Settled, UnsupportedPath, CloseStream, EnvoyRequest
<1>4. ASSUME NEW r \in Req, NEW streaming \in BOOLEAN, NEW asked \in BOOLEAN, RouterBody(r, streaming, asked) PROVE Goal
  <2>1. \A s \in Req : rp'[s].filter = rp[s].filter /\ (rp'[s].localReply <=> rp[s].localReply)
    BY <1>0, <1>4 DEF TypeOK, RouterBody, RouterProcessor
  <2>2. /\ envoy[r].pc = "body" /\ envoy'[r].pc = "route"
        /\ \A s \in Req : s # r => envoy'[s] = envoy[s]
        /\ up' = up
    BY <1>0, <1>4 DEF TypeOK, RouterBody, EnvoyRequest
  <2>3. QED
    BY <1>0, <2>1, <2>2 DEF Patient, TurnInv, ResponseMeetsItsAttempt, Settled
<1>5. ASSUME NEW r \in Req, RouterBodyRejected(r) PROVE Goal
  BY <1>0, <1>5 DEF TypeOK, Patient, TurnInv, ResponseMeetsItsAttempt, Settled, RouterBodyRejected, EnvoyRequest
<1>6. ASSUME NEW r \in Req, RouterBodyFails(r) PROVE Goal
  BY <1>0, <1>6 DEF TypeOK, Patient, TurnInv, ResponseMeetsItsAttempt, Settled, RouterBodyFails, CloseStream, EnvoyRequest
<1>7. ASSUME NEW r \in Req, StreamEnds(r) PROVE Goal
  BY <1>0, <1>7 DEF TypeOK, Patient, TurnInv, ResponseMeetsItsAttempt, Settled, StreamEnds, CloseStream, EnvoyRequest
<1>8. ASSUME NEW r \in Req, NoRoute(r) PROVE Goal
  <2>1. /\ envoy[r].pc = "route" /\ envoy'[r].pc = "respond" /\ envoy'[r].from = 0
        /\ \A s \in Req : s # r => envoy'[s] = envoy[s]
    BY <1>0, <1>8 DEF TypeOK, NoRoute, LocalReply, EnvoyRequest
  <2>2. UNCHANGED <<rp, up>>
    BY <1>8 DEF NoRoute
  <2>3. QED
    BY <1>0, <2>1, <2>2 DEF Patient, TurnInv, ResponseMeetsItsAttempt, Settled
<1>9. ASSUME NEW r \in Req, NEW b \in Backend, NewAttempt(r, b) PROVE Goal
  <2> DEFINE n == envoy[r].attempt + 1
  <2>1. n \in Attempt
    BY <1>0, <1>9, NextAttempt DEF NewAttempt
  <2>2. /\ envoy[r].pc \in {"route", "retry"} /\ envoy'[r].pc = "upstream" /\ envoy'[r].attempt = n
        /\ \A s \in Req : s # r => envoy'[s] = envoy[s]
    BY <1>0, <1>9 DEF TypeOK, NewAttempt, EnvoyRequest
  <2>3. /\ up'[r][n].pc = "headers"
        /\ \A s \in Req, c \in Attempt : s # r \/ c # n => up'[s][c] = up[s][c]
    BY <1>0, <1>9, <2>1 DEF TypeOK, NewAttempt, UpstreamProcessor
  <2>4. rp' = rp
    BY <1>9 DEF NewAttempt
  <2> HIDE DEF n
  <2>5. QED
    BY <1>0, <2>1, <2>2, <2>3, <2>4 DEF Patient, TurnInv, ResponseMeetsItsAttempt, Settled
<1>10. ASSUME NEW r \in Req, BackendFails(r) PROVE Goal
  <2>1. /\ envoy[r].pc = "sent" /\ (envoy'[r].pc = "retry" \/ (envoy'[r].pc = "respond" /\ envoy'[r].from = 0))
        /\ \A s \in Req : s # r => envoy'[s] = envoy[s]
    BY <1>0, <1>10 DEF TypeOK, BackendFails, LocalReply, EnvoyRequest
  <2>2. UNCHANGED <<rp, up>>
    BY <1>10 DEF BackendFails
  <2>3. ResponseMeetsItsAttempt'
    BY <1>0, <2>1, <2>2 DEF ResponseMeetsItsAttempt
  <2>4. TurnInv'
    BY <1>0, <2>1, <2>2 DEF Patient, TurnInv, Settled
  <2>5. QED
    BY <2>3, <2>4
<1>11. ASSUME NEW r \in Req, NEW status \in {"200", "2xx", "bad"}, BackendResponds(r, status) PROVE Goal
  <2>1. /\ envoy[r].pc = "sent" /\ envoy'[r].pc = "respond"
        /\ envoy'[r].from = envoy[r].attempt
        /\ \A s \in Req : s # r => envoy'[s] = envoy[s]
    BY <1>0, <1>11 DEF TypeOK, BackendResponds, EnvoyRequest
  <2>2. UNCHANGED <<rp, up>>
    BY <1>11 DEF BackendResponds
  <2>3. ResponseMeetsItsAttempt'
    BY <1>0, <2>1, <2>2 DEF Patient, TurnInv, ResponseMeetsItsAttempt
  <2>4. TurnInv'
    BY <1>0, <2>1, <2>2 DEF Patient, TurnInv, Settled
  <2>5. QED
    BY <2>3, <2>4
<1>12. ASSUME NEW r \in Req, PerTryTimeout(r) PROVE Goal
  BY <1>0, <1>12 DEF TypeOK, Patient, TurnInv, ResponseMeetsItsAttempt, Settled, PerTryTimeout, EnvoyRequest
<1>13. ASSUME NEW r \in Req, MessageTimeout(r) PROVE Goal
  BY <1>0, <1>13 DEF TypeOK, Patient, TurnInv, ResponseMeetsItsAttempt, Settled, MessageTimeout, LocalReply, EnvoyRequest
<1>14. ASSUME NEW r \in Req, NEW a \in Attempt, SetBackendFindsNothing(r, a) PROVE Goal
  <2>1. AttemptFails(r, a) /\ ~Settled(r, a) /\ rp' = rp
    BY <1>14 DEF SetBackendFindsNothing, Settled
  <2>2. QED
    BY <1>0, <2>1, FailedTurn
<1>15. ASSUME NEW r \in Req, NEW a \in Attempt, SetBackendFails(r, a) PROVE Goal
  <2>1. AttemptFails(r, a) /\ ~Settled(r, a)
    BY <1>15 DEF SetBackendFails, Settled
  <2>2. \A s \in Req : rp'[s].filter = rp[s].filter /\ (rp'[s].localReply <=> rp[s].localReply)
    BY <1>0, <1>15 DEF TypeOK, SetBackendFails, RouterProcessor
  <2>3. QED
    BY <1>0, <2>1, <2>2, FailedTurn
<1>16. ASSUME NEW r \in Req, NEW a \in Attempt, SetBackend(r, a) PROVE Goal
  <2>1. r \in Patient => Awaited(r, a) \/ envoy[r].pc = "end"
    BY <1>0, <1>16, WhoseTurn DEF SetBackend, Settled
  <2>2. routerProcessors[InternalReqID(r)] = r
    BY <1>0, <1>16 DEF RegistryMatchesStreams, SetBackend
  <2>3. /\ rp'[r].filter = <<r, a>>
        /\ \A s \in Req : rp'[s].localReply <=> rp[s].localReply
        /\ \A s \in Req : s # r => rp'[s].filter = rp[s].filter
    BY <1>0, <1>16, <2>2 DEF TypeOK, SetBackend, RouterProcessor
  <2>4. /\ up'[r][a].pc = "bound"
        /\ \A s \in Req, c \in Attempt : s # r \/ c # a => up'[s][c] = up[s][c]
    <3>1. up' = [up EXCEPT ![r][a] = [@ EXCEPT !.pc = "bound", !.parent = r]]
      BY <1>16, <2>2 DEF SetBackend
    <3>2. QED
      BY <1>0, <3>1 DEF TypeOK, UpstreamProcessor
  <2>5. envoy' = envoy
    BY <1>16, ZenonT(30) DEF SetBackend
  <2>6. QED
    BY <1>0, <2>1, <2>3, <2>4, <2>5 DEF Patient, TurnInv, ResponseMeetsItsAttempt, Settled, Awaited
<1>17. ASSUME NEW r \in Req, NEW a \in Attempt, NEW newBody \in BOOLEAN, UpstreamHeaders(r, a, newBody) PROVE Goal
  <2>1. up[r][a].pc = "bound" /\ (r \in Patient => Awaited(r, a) \/ envoy[r].pc = "end")
    BY <1>0, <1>17, WhoseTurn DEF UpstreamHeaders, Settled
  <2>2. /\ up'[r][a].pc = "answered"
        /\ \A s \in Req, c \in Attempt : s # r \/ c # a => up'[s][c] = up[s][c]
    BY <1>0, <1>17 DEF TypeOK, UpstreamHeaders, UpstreamProcessor
  <2>3. /\ Awaited(r, a) => envoy'[r].pc = "sent" /\ envoy'[r].attempt = a
        /\ ~Awaited(r, a) => envoy'[r] = envoy[r]
        /\ \A s \in Req : s # r => envoy'[s] = envoy[s]
    BY <1>0, <1>17 DEF TypeOK, UpstreamHeaders, EnvoyRequest, Awaited
  <2>4. rp' = rp
    BY <1>17 DEF UpstreamHeaders
  <2>5. ResponseMeetsItsAttempt'
    BY <1>0, <2>3, <2>4, ZenonT(60) DEF ResponseMeetsItsAttempt
  <2>6. TurnInv'
    <3>1. ASSUME NEW s \in Patient, s # r PROVE up'[s] = up[s] \/ \A c \in Attempt : up'[s][c] = up[s][c]
      BY <2>2, <3>1, ZenonT(60) DEF Patient
    <3>2. QED
      BY <1>0, <2>1, <2>2, <2>3, <2>4 DEF Patient, TurnInv, Settled, Awaited
  <2>7. QED
    BY <2>5, <2>6
<1>18. ASSUME NEW r \in Req, NEW a \in Attempt, UpstreamRejects(r, a) PROVE Goal
  <2>1. AttemptFails(r, a) /\ ~Settled(r, a)
    BY <1>18, ZenonT(30) DEF UpstreamRejects, Settled
  <2>2. up[r][a].parent = r
    BY <1>0, <1>18 DEF AttemptInv, RequestsDoNotMix, UpstreamRejects
  <2>3. /\ \A s \in Req : rp'[s].filter = rp[s].filter
        /\ \A s \in Req : s # r => (rp'[s].localReply <=> rp[s].localReply)
    BY <1>0, <1>18, <2>2 DEF TypeOK, UpstreamRejects, RouterProcessor
  <2>4. QED
    BY <1>0, <2>1, <2>3, FailedTurn
<1>19. ASSUME NEW r \in Req, NEW a \in Attempt, UpstreamHeadersFail(r, a) PROVE Goal
  <2>1. AttemptFails(r, a) /\ ~Settled(r, a) /\ rp' = rp
    BY <1>19 DEF UpstreamHeadersFail, Settled
  <2>2. QED
    BY <1>0, <2>1, FailedTurn
<1>20. ASSUME NEW r \in Req, NEW endOfStream \in BOOLEAN, ResponseHeaders(r, endOfStream) PROVE Goal
  BY <1>0, <1>20 DEF TypeOK, Patient, TurnInv, ResponseMeetsItsAttempt, Settled, ResponseHeaders, EnvoyRequest
<1>21. ASSUME NEW r \in Req, ResponseFails(r) PROVE Goal
  BY <1>0, <1>21 DEF TypeOK, Patient, TurnInv, ResponseMeetsItsAttempt, Settled, ResponseFails, CloseStream, EnvoyRequest
<1>22. ASSUME NEW r \in Req, ResponseChunk(r) PROVE Goal
  BY <1>0, <1>22 DEF TypeOK, Patient, TurnInv, ResponseMeetsItsAttempt, Settled, ResponseChunk
<1>23. ASSUME NEW r \in Req, ResponseBody(r) PROVE Goal
  BY <1>0, <1>23 DEF TypeOK, Patient, TurnInv, ResponseMeetsItsAttempt, Settled, ResponseBody, EnvoyRequest
<1>24. ASSUME NEW r \in Req, CostsFail(r) PROVE Goal
  BY <1>0, <1>24 DEF TypeOK, Patient, TurnInv, ResponseMeetsItsAttempt, Settled, CostsFail, CloseStream, EnvoyRequest
<1>25. ASSUME UNCHANGED vars PROVE Goal
  BY <1>0, <1>25 DEF vars, Patient, TurnInv, ResponseMeetsItsAttempt, Settled
<1> HIDE DEF Goal
<1>26. Goal
  BY <1>0, <1>1, <1>2, <1>3, <1>4, <1>5, <1>6, <1>7, <1>8, <1>9, <1>10, <1>11, <1>12, <1>13, <1>14, <1>15, <1>16, <1>17, <1>18, <1>19, <1>20, <1>21, <1>22, <1>23, <1>24, <1>25 DEF Next, RouterStep, EnvoyStep, AttemptStep, ResponseStep, Done
<1>27. QED
  BY <1>26 DEF Goal

(* Unless Envoy gives up on an attempt the upstream filter works on, the   *)
(* response to a request reaches the attempt it belongs to, whatever other *)
(* requests and configurations come meanwhile.                             *)
THEOREM ResponsesMeetTheirAttempt == Spec => []ResponseMeetsItsAttempt
<1>1. Init => TurnInv /\ ResponseMeetsItsAttempt
  BY DEF Init, Patient, TurnInv, ResponseMeetsItsAttempt, Settled, NewRouterProcessor, NewUpstreamProcessor
<1>2. Inv /\ (TurnInv /\ ResponseMeetsItsAttempt) /\ [Next]_vars => (TurnInv /\ ResponseMeetsItsAttempt)'
  BY TurnStep, ZenonT(30)
<1>3. QED
  BY <1>1, <1>2, Invariance, PTL DEF Spec

-----------------------------------------------------------------------------
(* Nothing has been recorded about the request but its span.               *)
Clean(r, spans) ==
    /\ acct[r].ok = 0 /\ acct[r].fail = 0 /\ acct[r].usage = 0 /\ acct[r].ends = 0
    /\ ~acct[r].first /\ ~acct[r].charged /\ ~acct[r].served
    /\ acct[r].spans = spans

(* What is recorded of a request that has ended.                           *)
AccountIsTrue(r) ==
    /\ LocalReplyRecordedOnce(r)
    /\ ServedIsAccounted(r)
    /\ acct[r].ok <= 1 /\ (acct[r].ok = 1 => acct[r].fail = 0)
    /\ acct[r].ends <= acct[r].spans
    /\ acct[r].charged => rp[r].usage

(* The accounts of a request on its way: nothing is recorded before the    *)
(* response, except by the attempt that makes Envoy or the gateway reply;  *)
(* and after the end only by the one attempt that may still be at work,    *)
(* of a request with nothing recorded.                                     *)
Account1(r) ==
    /\ envoy[r].pc \in {"new", "body"} => Clean(r, 0) /\ ~rp[r].localReply
    /\ envoy[r].pc \in {"route", "upstream", "sent", "retry"} => Clean(r, 1)
    /\ envoy[r].pc = "sent" => envoy[r].attempt # 0
    /\ envoy[r].pc \in {"respond", "replying"} =>
         /\ acct[r].ok = 0 /\ acct[r].usage = 0 /\ acct[r].spans = 1
         /\ ~acct[r].charged /\ ~acct[r].served
         /\ acct[r].first => rp[r].streaming /\ envoy[r].status = "200"
         /\ envoy[r].from # 0 => acct[r].fail = 0 /\ acct[r].ends = 0
         /\ envoy[r].from = 0 =>
              /\ envoy[r].status = "bad"
              /\ rp[r].localReply => acct[r].fail = 1 /\ acct[r].ends = 1
              /\ ~rp[r].localReply => acct[r].ends = 0
    /\ envoy[r].pc = "replying" /\ envoy[r].chunked => rp[r].streaming /\ envoy[r].status = "200"
    /\ envoy[r].pc \notin {"new", "body", "end"} => (RequestCosts(r) => rp[r].usage)
    /\ envoy[r].pc = "end" =>
         /\ AccountIsTrue(r)
         /\ (\E a \in Attempt : ~Settled(r, a)) => Clean(r, 1) /\ ~rp[r].localReply
    /\ \A a, c \in Attempt : ~Settled(r, a) /\ ~Settled(r, c) => a = c

AccountInv == \A r \in Patient : Account1(r)

(* A request of which no response was passed on to its end.                *)
Unserved(r) ==
    /\ acct[r].ok = 0 /\ acct[r].usage = 0 /\ ~acct[r].charged /\ ~acct[r].served
    /\ rp[r].localReply => acct[r].fail = 1 /\ acct[r].ends = 1
    /\ acct[r].spans \in {0, 1} /\ (acct[r].ends = 0 \/ (acct[r].ends = 1 /\ acct[r].spans = 1))

LEMMA UnservedIsTrue ==
  ASSUME NEW r \in Req
  PROVE  /\ Unserved(r) => AccountIsTrue(r)
         /\ Unserved(r)' => AccountIsTrue(r)'
<1>1. Unserved(r) => AccountIsTrue(r)
  BY DEF Unserved, AccountIsTrue, LocalReplyRecordedOnce, ServedIsAccounted
<1>2. Unserved(r)' => AccountIsTrue(r)'
  BY DEF Unserved, AccountIsTrue, LocalReplyRecordedOnce, ServedIsAccounted
<1>3. QED
  BY <1>1, <1>2

LEMMA OneMore == 0 + 1 = 1
  OBVIOUS

(* A step of one request leaves the others alone.                          *)
Untouched(s) == envoy'[s] = envoy[s] /\ acct'[s] = acct[s] /\ rp'[s] = rp[s] /\ up'[s] = up[s]

LEMMA UntouchedKeeps ==
  ASSUME NEW s \in Req, Untouched(s), Account1(s)
  PROVE  Account1(s)'
  BY ZenonT(60) DEF Untouched, Account1, Clean, AccountIsTrue, LocalReplyRecordedOnce, ServedIsAccounted,
         RequestCosts, Settled

LEMMA OthersUntouched ==
  ASSUME Inv, NEW r \in Req, NEW s \in Req, s # r,
         \/ RouterStep(r) \/ EnvoyStep(r) \/ ResponseStep(r)
         \/ \E a \in Attempt : AttemptStep(r, a)
  PROVE  Untouched(s)
<1>0. /\ rp \in [Req -> RouterProcessor] /\ up \in [Req -> [Attempt -> UpstreamProcessor]]
      /\ envoy \in [Req -> EnvoyRequest] /\ acct \in [Req -> Account]
  BY Zenon DEF Inv, TypeOK
<1>1. CASE RouterStep(r)
  BY <1>0, <1>1, ZenonT(30) DEF RouterStep, RouterHeaders, UnsupportedPath, RouterBody, RouterBodyRejected,
                    RouterBodyFails, StreamEnds, CloseStream, Untouched
<1>2. CASE EnvoyStep(r)
  BY <1>0, <1>2, Zenon DEF EnvoyStep, NoRoute, NewAttempt, BackendFails, BackendResponds, PerTryTimeout,
                    MessageTimeout, LocalReply, Untouched
<1>3. CASE ResponseStep(r)
  BY <1>0, <1>3, Zenon DEF ResponseStep, ResponseHeaders, ResponseFails, ResponseChunk, ResponseBody,
                    CostsFail, CloseStream, Untouched
<1>4. ASSUME NEW a \in Attempt, AttemptStep(r, a) PROVE Untouched(s)
  <2>1. routerProcessors[InternalReqID(r)] \in {r, None}
    BY DEF Inv, RegistryMatchesStreams
  <2>2. up[r][a].pc = "bound" => up[r][a].parent = r
    BY DEF Inv, AttemptInv, RequestsDoNotMix
  <2>3. AttemptFails(r, a) => envoy'[s] = envoy[s] /\ up'[s] = up[s]
    BY <1>0 DEF AttemptFails, LocalReply
  <2>4. CASE SetBackendFindsNothing(r, a)
    BY <2>3, <2>4 DEF SetBackendFindsNothing, Untouched
  <2>5. CASE SetBackendFails(r, a)
    BY <1>0, <2>1, <2>3, <2>5 DEF SetBackendFails, Untouched
  <2>6. CASE SetBackend(r, a)
    BY <1>0, <2>1, <2>6 DEF SetBackend, Untouched
  <2>7. CASE \E newBody \in BOOLEAN : UpstreamHeaders(r, a, newBody)
    BY <1>0, <2>7, ZenonT(30) DEF UpstreamHeaders, Untouched
  <2>8. CASE UpstreamRejects(r, a)
    BY <1>0, <2>2, <2>3, <2>8 DEF UpstreamRejects, Untouched
  <2>9. CASE UpstreamHeadersFail(r, a)
    BY <1>0, <2>2, <2>3, <2>9 DEF UpstreamHeadersFail, Untouched
  <2>10. QED
    BY <1>4, <2>4, <2>5, <2>6, <2>7, <2>8, <2>9 DEF AttemptStep
<1>5. QED
  BY <1>1, <1>2, <1>3, <1>4

(* What is true on the way is true of a request that ends there.           *)
LEMMA EndIsTrue ==
  ASSUME Inv, TurnInv, ResponseMeetsItsAttempt, NEW r \in Patient, Account1(r)
  PROVE  AccountIsTrue(r)
<1>1. rp[r] \in RouterProcessor /\ acct[r] \in Account /\ envoy[r] \in EnvoyRequest
  BY DEF Inv, TypeOK, Patient
<1>2. envoy[r].pc \in EnvoyPc
  BY <1>1, ZenonT(30) DEF EnvoyRequest
<1>3. CASE envoy[r].pc \in {"new", "body", "route", "upstream", "sent", "retry"}
  <2>1. (Clean(r, 0) \/ Clean(r, 1)) /\ ~rp[r].localReply
    BY <1>3 DEF Account1, TurnInv
  <2>2. Unserved(r)
    <3>1. PICK n \in {0, 1} : Clean(r, n)
      BY <2>1, ZenonT(30)
    <3>2. acct[r].spans = n /\ acct[r].ends = 0 /\ acct[r].ok = 0 /\ acct[r].usage = 0
      BY <3>1, ZenonT(30) DEF Clean
    <3>3. ~acct[r].charged /\ ~acct[r].served /\ ~rp[r].localReply
      BY <2>1, <3>1, ZenonT(30) DEF Clean
    <3>4. acct[r].spans \in {0, 1}
      BY <3>2, ZenonT(30)
    <3>5. QED
      BY <3>2, <3>3, <3>4, ZenonT(30) DEF Unserved
  <2>3. QED
    BY <2>2, UnservedIsTrue, Zenon DEF Patient
<1>4. CASE envoy[r].pc \in {"respond", "replying"}
  <2>1. envoy[r].from # 0 => ~rp[r].localReply
    BY <1>4, ZenonT(30) DEF ResponseMeetsItsAttempt, Patient
  <2>2. Unserved(r)
    BY <1>4, <2>1, ZenonT(30) DEF Account1, Unserved
  <2>3. QED
    BY <2>2, UnservedIsTrue, Zenon DEF Patient
<1>5. CASE envoy[r].pc = "end"
  BY <1>5, ZenonT(30) DEF Account1
<1>6. QED
  BY <1>2, <1>3, <1>4, <1>5 DEF EnvoyPc

(* A request that ends, without an attempt at work or with nothing         *)
(* recorded.                                                               *)
LEMMA Ending ==
  ASSUME Inv, TurnInv, ResponseMeetsItsAttempt, NEW r \in Patient, Account1(r),
         envoy'[r].pc = "end", UNCHANGED <<rp, up, acct>>,
         envoy[r].pc \in {"new", "body"} => \A a \in Attempt : Settled(r, a)
  PROVE  Account1(r)'
<1>1. AccountIsTrue(r)
  BY EndIsTrue
<1>2. AccountIsTrue(r)'
  BY <1>1, ZenonT(30) DEF AccountIsTrue, LocalReplyRecordedOnce, ServedIsAccounted
<1>3. ASSUME \E a \in Attempt : ~Settled(r, a)
      PROVE  Clean(r, 1) /\ ~rp[r].localReply
  <2>1. envoy[r].pc \in {"upstream", "end"}
    BY <1>3 DEF TurnInv
  <2>2. QED
    BY <1>3, <2>1, ZenonT(30) DEF TurnInv, Account1
<1>4. QED
  BY <1>2, <1>3 DEF Account1, Clean, Settled

(* An attempt that fails: Envoy replies if it still waits, and the request *)
(* has had nothing recorded before.                                        *)
LEMMA FailedAccount ==
  ASSUME Inv, TurnInv, NEW r \in Patient, Account1(r),
         NEW a \in Attempt, ~Settled(r, a), AttemptFails(r, a),
         acct'[r].ok = acct[r].ok, acct'[r].usage = acct[r].usage, acct'[r].spans = acct[r].spans,
         acct'[r].first <=> acct[r].first, acct'[r].charged <=> acct[r].charged,
         acct'[r].served <=> acct[r].served,
         rp'[r].config = rp[r].config, rp'[r].usage <=> rp[r].usage,
         \/ rp'[r].localReply /\ acct'[r].fail = acct[r].fail + 1 /\ acct'[r].ends = acct[r].ends + 1
         \/ /\ rp'[r].localReply <=> rp[r].localReply
            /\ acct'[r].ends = acct[r].ends
            /\ acct'[r].fail = acct[r].fail \/ acct'[r].fail = acct[r].fail + 1
  PROVE  Account1(r)'
<1>0. r \in Req /\ up \in [Req -> [Attempt -> UpstreamProcessor]] /\ envoy \in [Req -> EnvoyRequest]
  BY DEF Inv, TypeOK, Patient
<1>1. Awaited(r, a) \/ envoy[r].pc = "end"
  BY WhoseTurn, ZenonT(30)
<1>2. Clean(r, 1) /\ ~rp[r].localReply
  BY <1>1 DEF Account1, TurnInv, Awaited
<1>3. up'[r][a].pc = "ended" /\ \A c \in Attempt : c # a => up'[r][c] = up[r][c]
  BY <1>0 DEF AttemptFails, UpstreamProcessor
<1>4. \A c \in Attempt : Settled(r, c)'
  BY <1>3, ZenonT(30) DEF Account1, Settled
<1>5. CASE Awaited(r, a)
  <2>1. envoy'[r].pc = "respond" /\ envoy'[r].from = 0 /\ envoy'[r].status = "bad" /\ envoy[r].pc = "upstream"
    <3>1. envoy' = LocalReply(r)
      BY <1>5, Zenon DEF AttemptFails
    <3>2. envoy[r].pc = "upstream"
      BY <1>5, Zenon DEF Awaited
    <3>3. QED
      BY <1>0, <3>1, <3>2 DEF LocalReply, EnvoyRequest
  <2>2. /\ acct'[r].ok = 0 /\ acct'[r].usage = 0 /\ acct'[r].spans = 1
        /\ ~acct'[r].charged /\ ~acct'[r].served /\ ~acct'[r].first
        /\ rp'[r].localReply => acct'[r].fail = 1 /\ acct'[r].ends = 1
        /\ ~rp'[r].localReply => acct'[r].ends = 0
    BY <1>2, OneMore, ZenonT(30) DEF Clean
  <2>3. RequestCosts(r) => rp[r].usage
    BY <2>1, Zenon DEF Account1
  <2>4. RequestCosts(r)' => rp'[r].usage
    BY <2>3, Zenon DEF RequestCosts
  <2>5. QED
    BY <1>4, <2>1, <2>2, <2>4, ZenonT(30) DEF Account1
<1>6. CASE ~Awaited(r, a)
  <2>1. envoy'[r].pc = "end"
    BY <1>1, <1>6 DEF AttemptFails
  <2>2. Unserved(r)'
    BY <1>2, OneMore, ZenonT(30) DEF Clean, Unserved
  <2>3. AccountIsTrue(r)'
    BY <1>0, <2>2, UnservedIsTrue, Zenon
  <2>4. QED
    BY <1>4, <2>1, <2>3, Zenon DEF Account1
<1>7. QED
  BY <1>5, <1>6, ZenonT(30)

LEMMA AccountStep ==
  ASSUME Inv, TurnInv, ResponseMeetsItsAttempt, AccountInv, [Next]_vars
  PROVE  AccountInv'
<1>0. /\ TypeOK /\ RegistryMatchesStreams /\ AttemptInv /\ RequestsDoNotMix /\ StreamInv /\ Inv
      /\ TurnInv /\ ResponseMeetsItsAttempt /\ AccountInv /\ [Next]_vars
  BY DEF Inv
<1>rp. rp \in [Req -> RouterProcessor]
  BY <1>0 DEF TypeOK
<1>envoy. envoy \in [Req -> EnvoyRequest]
  BY <1>0 DEF TypeOK
<1>acct. acct \in [Req -> Account]
  BY <1>0 DEF TypeOK
<1>up. up \in [Req -> [Attempt -> UpstreamProcessor]]
  BY <1>0 DEF TypeOK
<1>p. \A r \in Patient : r \in Req /\ r \notin Timeouts /\ Account1(r)
  BY <1>0, ZenonT(30) DEF Patient, AccountInv
<1>a. ASSUME NEW r \in Patient, RouterHeaders(r) PROVE Account1(r)'
  <2>1. /\ envoy[r].pc = "new" /\ envoy'[r].pc = "body" /\ UNCHANGED <<up, acct>>
        /\ rp'[r].localReply <=> rp[r].localReply
    BY <1>a, <1>p, <1>rp, <1>envoy DEF RouterHeaders, RouterProcessor, EnvoyRequest
  <2>2. Account1(r)
    BY <1>p, Zenon
  <2>3. QED
    BY <2>1, <2>2 DEF Account1, Clean, Settled
<1>b. ASSUME NEW r \in Patient, NEW streaming \in BOOLEAN, NEW asked \in BOOLEAN,
             RouterBody(r, streaming, asked)
      PROVE  Account1(r)'
  <2>1. envoy[r].pc = "body" /\ envoy'[r].pc = "route" /\ UNCHANGED up
    BY <1>b, <1>p, <1>envoy, ZenonT(30) DEF RouterBody, EnvoyRequest
  <2>2. Account1(r) /\ Clean(r, 0)
    BY <1>p, <2>1, ZenonT(30) DEF Account1
  <2>3. Clean(r, 1)'
    BY <1>b, <1>p, <1>acct, <2>2 DEF RouterBody, Clean, Account
  <2>4. RequestCosts(r)' => rp'[r].usage
    <3> DEFINE C == Config[rp[r].config].costs
    <3>1. rp' = [rp EXCEPT ![r].streaming = streaming, ![r].force = C /\ streaming /\ ~asked,
                           ![r].usage = ~streaming \/ asked \/ (C /\ streaming /\ ~asked)]
      BY <1>b DEF RouterBody
    <3>2. rp'[r].config = rp[r].config
      BY <1>p, <1>rp, <3>1 DEF RouterProcessor
    <3>3. rp'[r].usage = (~streaming \/ asked \/ (C /\ streaming /\ ~asked))
      BY <1>p, <1>rp, <3>1, Zenon DEF RouterProcessor
    <3>4. RequestCosts(r)' = C
      BY <3>2 DEF RequestCosts
    <3> HIDE DEF C
    <3>5. QED
      BY <3>3, <3>4, Zenon
  <2>5. QED
    BY <2>1, <2>2, <2>3, <2>4, Zenon DEF Account1, Settled
<1>c. ASSUME NEW r \in Patient, UnsupportedPath(r) \/ RouterBodyRejected(r) \/ RouterBodyFails(r) \/ StreamEnds(r)
      PROVE  Account1(r)'
  <2>1. envoy'[r].pc = "end" /\ UNCHANGED <<rp, up, acct>>
    BY <1>c, <1>p, <1>envoy DEF UnsupportedPath, RouterBodyRejected, RouterBodyFails, StreamEnds, CloseStream, EnvoyRequest
  <2>2. envoy[r].pc \in {"new", "body"} => \A a \in Attempt : Settled(r, a)
    BY <1>0, Zenon DEF TurnInv
  <2>3. QED
    BY <1>0, <1>p, <2>1, <2>2, Ending
<1>d. ASSUME NEW r \in Patient, NoRoute(r) \/ BackendFails(r)
      PROVE  Account1(r)'
  <2>1. /\ envoy[r].pc \in {"route", "sent"}
        /\ \/ envoy'[r].pc = "retry"
           \/ envoy'[r].pc = "respond" /\ envoy'[r].from = 0 /\ envoy'[r].status = "bad"
        /\ UNCHANGED <<rp, up, acct>>
    BY <1>d, <1>p, <1>envoy DEF NoRoute, BackendFails, LocalReply, EnvoyRequest
  <2>2. Account1(r) /\ ~rp[r].localReply
    BY <1>0, <1>p, <2>1, Zenon DEF TurnInv
  <2>3. QED
    BY <2>1, <2>2, Zenon DEF Account1, Clean, RequestCosts, Settled
<1>e. ASSUME NEW r \in Patient, NEW b \in Backend, NewAttempt(r, b) PROVE Account1(r)'
  <2> DEFINE n == envoy[r].attempt + 1
  <2>1. n \in Attempt
    BY <1>0, <1>p, <1>e, NextAttempt DEF NewAttempt
  <2>2. envoy[r].pc \in {"route", "retry"} /\ envoy'[r].pc = "upstream" /\ UNCHANGED <<rp, acct>>
    BY <1>p, <1>e, <1>envoy DEF NewAttempt, EnvoyRequest
  <2>3. \A c \in Attempt : c # n => up'[r][c] = up[r][c]
    BY <1>p, <1>e, <1>up, <2>1 DEF NewAttempt
  <2>4. Account1(r) /\ \A c \in Attempt : Settled(r, c)
    BY <1>0, <1>p, <2>2, Zenon DEF TurnInv
  <2> HIDE DEF n
  <2>5. QED
    BY <2>2, <2>3, <2>4, ZenonT(30) DEF Account1, Clean, RequestCosts, Settled
<1>f. ASSUME NEW r \in Patient, NEW status \in {"200", "2xx", "bad"}, BackendResponds(r, status)
      PROVE  Account1(r)'
  <2>1. /\ envoy[r].pc = "sent" /\ envoy'[r].pc = "respond" /\ envoy'[r].from = envoy[r].attempt
        /\ UNCHANGED <<rp, up, acct>>
    BY <1>f, <1>p, <1>envoy DEF BackendResponds, EnvoyRequest
  <2>2. Account1(r)
    BY <1>p, Zenon
  <2>3. QED
    BY <2>1, <2>2, Zenon DEF Account1, Clean, RequestCosts, Settled
<1>g. ASSUME NEW r \in Patient, NEW a \in Attempt, SetBackendFindsNothing(r, a) PROVE Account1(r)'
  <2>1. AttemptFails(r, a) /\ ~Settled(r, a) /\ UNCHANGED <<rp, acct>>
    BY <1>g, Zenon DEF SetBackendFindsNothing, Settled
  <2>2. QED
    BY <1>0, <1>p, <2>1, FailedAccount, Zenon
<1>h. ASSUME NEW r \in Patient, NEW a \in Attempt, SetBackendFails(r, a) PROVE Account1(r)'
  <2>1. AttemptFails(r, a) /\ ~Settled(r, a)
    BY <1>h DEF SetBackendFails, Settled
  <2>2. routerProcessors[InternalReqID(r)] = r
    BY <1>0, <1>p, <1>h DEF RegistryMatchesStreams, SetBackendFails
  <2>3. /\ rp'[r].config = rp[r].config
        /\ rp'[r].usage <=> rp[r].usage
        /\ rp'[r].localReply <=> rp[r].localReply
    BY <1>h, <1>p, <1>rp, <2>2 DEF SetBackendFails, RouterProcessor
  <2>4. /\ acct'[r].ok = acct[r].ok /\ acct'[r].usage = acct[r].usage /\ acct'[r].spans = acct[r].spans
        /\ acct'[r].ends = acct[r].ends /\ acct'[r].fail = acct[r].fail + 1
        /\ acct'[r].first <=> acct[r].first
        /\ acct'[r].charged <=> acct[r].charged
        /\ acct'[r].served <=> acct[r].served
    BY <1>h, <1>p, <1>acct, <2>2, Zenon DEF SetBackendFails, Account
  <2>5. QED
    BY <1>0, <1>p, <2>1, <2>3, <2>4, FailedAccount, Zenon
<1>i. ASSUME NEW r \in Patient, NEW a \in Attempt, SetBackend(r, a) PROVE Account1(r)'
  <2>1. routerProcessors[InternalReqID(r)] = r
    BY <1>0, <1>p, <1>i DEF RegistryMatchesStreams, SetBackend
  <2>2. /\ rp'[r].config = rp[r].config
        /\ rp'[r].usage <=> rp[r].usage
        /\ rp'[r].streaming <=> rp[r].streaming
        /\ rp'[r].localReply <=> rp[r].localReply
    BY <1>i, <1>p, <1>rp, <2>1 DEF SetBackend, RouterProcessor
  <2>3. /\ ~Settled(r, a)
        /\ \A c \in Attempt : Settled(r, c)' <=> Settled(r, c)
    <3>1. up' = [up EXCEPT ![r][a] = [@ EXCEPT !.pc = "bound", !.parent = r]] /\ up[r][a].pc = "headers"
      BY <1>i, <2>1 DEF SetBackend
    <3>2. QED
      BY <1>p, <1>up, <3>1 DEF Settled, UpstreamProcessor
  <2>4. UNCHANGED <<envoy, acct>>
    BY <1>i DEF SetBackend
  <2>5. Account1(r)
    BY <1>p, Zenon
  <2>6. QED
    BY <2>2, <2>3, <2>4, <2>5, ZenonT(30) DEF Account1, Clean, AccountIsTrue, LocalReplyRecordedOnce, ServedIsAccounted, RequestCosts
<1>j. ASSUME NEW r \in Patient, NEW a \in Attempt, NEW newBody \in BOOLEAN, UpstreamHeaders(r, a, newBody)
      PROVE  Account1(r)'
  <2>1. Awaited(r, a) \/ envoy[r].pc = "end"
    BY <1>0, <1>j, WhoseTurn DEF UpstreamHeaders, Settled
  <2>2. up'[r][a].pc = "answered" /\ \A c \in Attempt : c # a => up'[r][c] = up[r][c]
    BY <1>j, <1>p, <1>up DEF UpstreamHeaders, UpstreamProcessor
  <2>3. \A c \in Attempt : Settled(r, c) => Settled(r, c)'
    BY <2>2 DEF Settled
  <2>4. /\ Awaited(r, a) => /\ envoy'[r].pc = "sent" /\ envoy[r].pc = "upstream"
                            /\ envoy'[r].attempt = a
        /\ ~Awaited(r, a) => envoy'[r] = envoy[r]
        /\ UNCHANGED <<rp, acct>>
    BY <1>j, <1>p, <1>envoy DEF UpstreamHeaders, EnvoyRequest, Awaited
  <2>5. Account1(r) /\ a # 0
    BY <1>p DEF Attempt
  <2>6. QED
    BY <2>1, <2>3, <2>4, <2>5, Zenon DEF Account1, Clean, AccountIsTrue, LocalReplyRecordedOnce, ServedIsAccounted, RequestCosts
<1>k. ASSUME NEW r \in Patient, NEW a \in Attempt, UpstreamRejects(r, a) PROVE Account1(r)'
  <2>1. AttemptFails(r, a) /\ ~Settled(r, a)
    BY <1>k, ZenonT(30) DEF UpstreamRejects, Settled
  <2>2. up[r][a].parent = r
    BY <1>0, <1>p, <1>k DEF AttemptInv, RequestsDoNotMix, UpstreamRejects
  <2>3. /\ rp'[r].config = rp[r].config
        /\ rp'[r].usage <=> rp[r].usage
        /\ rp'[r].localReply
    BY <1>k, <1>p, <1>rp, <2>2 DEF UpstreamRejects, RouterProcessor
  <2>4. /\ acct'[r].ok = acct[r].ok /\ acct'[r].usage = acct[r].usage /\ acct'[r].spans = acct[r].spans
        /\ acct'[r].ends = acct[r].ends + 1 /\ acct'[r].fail = acct[r].fail + 1
        /\ acct'[r].first <=> acct[r].first
        /\ acct'[r].charged <=> acct[r].charged
        /\ acct'[r].served <=> acct[r].served
    BY <1>k, <1>p, <1>acct, <2>2, ZenonT(30) DEF UpstreamRejects, Account
  <2>5. QED
    BY <1>0, <1>p, <2>1, <2>3, <2>4, FailedAccount, ZenonT(30)
<1>l. ASSUME NEW r \in Patient, NEW a \in Attempt, UpstreamHeadersFail(r, a) PROVE Account1(r)'
  <2>1. AttemptFails(r, a) /\ ~Settled(r, a) /\ UNCHANGED rp
    BY <1>l DEF UpstreamHeadersFail, Settled
  <2>2. up[r][a].parent = r
    BY <1>0, <1>p, <1>l DEF AttemptInv, RequestsDoNotMix, UpstreamHeadersFail
  <2>3. /\ acct'[r].ok = acct[r].ok /\ acct'[r].usage = acct[r].usage /\ acct'[r].spans = acct[r].spans
        /\ acct'[r].ends = acct[r].ends /\ acct'[r].fail = acct[r].fail + 1
        /\ acct'[r].first <=> acct[r].first
        /\ acct'[r].charged <=> acct[r].charged
        /\ acct'[r].served <=> acct[r].served
    BY <1>l, <1>p, <1>acct, <2>2 DEF UpstreamHeadersFail, Account
  <2>4. QED
    BY <1>0, <1>p, <2>1, <2>3, FailedAccount, Zenon
<1>m. ASSUME NEW r \in Patient, NEW endOfStream \in BOOLEAN, ResponseHeaders(r, endOfStream) PROVE Account1(r)'
  <2>1. /\ envoy[r].pc = "respond" /\ UNCHANGED <<rp, up, acct>>
        /\ envoy'[r].pc = IF endOfStream THEN "end" ELSE "replying"
        /\ envoy'[r].from = envoy[r].from /\ envoy'[r].status = envoy[r].status
    BY <1>m, <1>p, <1>envoy DEF ResponseHeaders, EnvoyRequest
  <2>2. envoy'[r].chunked => rp[r].streaming /\ envoy[r].status = "200"
    <3> DEFINE C == Handled(r) /\ rp[r].streaming /\ envoy[r].status = "200"
               P == IF endOfStream THEN "end" ELSE "replying"
    <3>1. envoy' = [envoy EXCEPT ![r].pc = P, ![r].chunked = C]
      BY <1>m DEF ResponseHeaders
    <3>2. C => rp[r].streaming /\ envoy[r].status = "200"
      OBVIOUS
    <3> HIDE DEF C, P
    <3>3. envoy'[r].chunked = C
      BY <1>p, <1>envoy, <3>1, Zenon DEF EnvoyRequest
    <3>4. QED
      BY <3>2, <3>3, Zenon
  <2>3. CASE endOfStream
    BY <1>0, <1>p, <2>1, <2>3, Ending, Zenon
  <2>4. CASE ~endOfStream
    <3>1. Account1(r) /\ envoy'[r].pc = "replying"
      BY <1>p, <2>1, <2>4, Zenon
    <3>2. QED
      BY <2>1, <2>2, <3>1, Zenon DEF Account1, RequestCosts, Settled
  <2>5. QED
    BY <2>3, <2>4
<1>n. ASSUME NEW r \in Patient, ResponseFails(r) \/ CostsFail(r) PROVE Account1(r)'
  <2>1. /\ envoy[r].pc \in {"respond", "replying"} /\ envoy'[r].pc = "end" /\ Handled(r) /\ UNCHANGED <<rp, up>>
    BY <1>n, <1>p, <1>envoy DEF ResponseFails, CostsFail, CloseStream, EnvoyRequest
  <2>2. /\ acct'[r].ok = acct[r].ok /\ acct'[r].spans = acct[r].spans /\ acct'[r].ends = acct[r].ends
        /\ acct'[r].charged <=> acct[r].charged
        /\ acct'[r].served <=> acct[r].served
    BY <1>n, <1>p, <1>acct DEF ResponseFails, CostsFail, Account
  <2>3. Account1(r) /\ ~rp[r].localReply
    BY <1>p, <2>1, ZenonT(30) DEF Handled
  <2>4. AccountIsTrue(r)'
    <3>1. /\ acct[r].ok = 0 /\ acct[r].spans = 1 /\ ~acct[r].charged /\ ~acct[r].served
          /\ envoy[r].from = 0 => acct[r].ends = 0
          /\ envoy[r].from # 0 => acct[r].ends = 0
      BY <2>1, <2>3, ZenonT(30) DEF Account1
    <3>2. QED
      BY <2>1, <2>2, <2>3, <3>1 DEF AccountIsTrue, LocalReplyRecordedOnce, ServedIsAccounted
  <2>5. \A a \in Attempt : Settled(r, a)'
    BY <1>0, <2>1, Zenon DEF TurnInv, Settled
  <2>6. QED
    BY <2>1, <2>4, <2>5, Zenon DEF Account1
<1>o. ASSUME NEW r \in Patient, ResponseChunk(r) PROVE Account1(r)'
  <2>1. envoy[r].pc = "replying" /\ envoy[r].chunked /\ UNCHANGED <<rp, up, envoy>>
    BY <1>o DEF ResponseChunk
  <2>2. Account1(r) /\ rp[r].streaming /\ envoy[r].status = "200"
    BY <1>p, <2>1, Zenon DEF Account1
  <2>3. acct' = acct \/ acct' = [acct EXCEPT ![r].first = TRUE]
    BY <1>o, <2>2 DEF ResponseChunk
  <2>4. /\ acct'[r].ok = acct[r].ok /\ acct'[r].usage = acct[r].usage /\ acct'[r].spans = acct[r].spans
        /\ acct'[r].ends = acct[r].ends /\ acct'[r].fail = acct[r].fail
        /\ acct'[r].charged <=> acct[r].charged
        /\ acct'[r].served <=> acct[r].served
    BY <1>p, <1>acct, <2>3 DEF Account
  <2>5. QED
    BY <2>1, <2>2, <2>4, Zenon DEF Account1, RequestCosts, Settled
<1>q. ASSUME NEW r \in Patient, ResponseBody(r) PROVE Account1(r)'
  <2>1. envoy[r].pc = "replying" /\ envoy'[r].pc = "end" /\ UNCHANGED <<rp, up>>
    BY <1>q, <1>p, <1>envoy DEF ResponseBody, EnvoyRequest
  <2>2. Account1(r) /\ acct[r] \in Account /\ rp[r].streaming \in BOOLEAN
    BY <1>p, <1>acct, <1>rp, ZenonT(30) DEF RouterProcessor
  <2>3. \A a \in Attempt : Settled(r, a)'
    BY <1>0, <2>1, ZenonT(30) DEF TurnInv, Settled
  <2>4. envoy[r].from # 0 => Handled(r)
    <3>1. ASSUME envoy[r].from # 0 PROVE rp[r].filter = <<r, envoy[r].from>> /\ ~rp[r].localReply
      BY <1>0, <1>p, <2>1, <3>1 DEF ResponseMeetsItsAttempt
    <3>2. ASSUME envoy[r].from # 0 PROVE rp[r].filter # None
      <4>1. <<r, envoy[r].from>> \in Req \X Attempt
        BY <1>p, <1>envoy, <3>2 DEF EnvoyRequest
      <4>2. QED
        BY <3>1, <3>2, <4>1, ExtProcAssumption, Zenon DEF Attempt
    <3>3. QED
      BY <3>1, <3>2, Zenon DEF Handled
  <2> DEFINE served == envoy[r].from # 0
  <2>5. CASE ~Handled(r)
    <3>1. acct' = [acct EXCEPT ![r] = [acct[r] EXCEPT !.served = served]]
      BY <1>q, <2>5 DEF ResponseBody
    <3>2. served \in BOOLEAN /\ ~served
      BY <2>4, <2>5
    <3> HIDE DEF served
    <3>3. /\ acct'[r].ok = acct[r].ok /\ acct'[r].usage = acct[r].usage /\ acct'[r].spans = acct[r].spans
          /\ acct'[r].ends = acct[r].ends /\ acct'[r].fail = acct[r].fail
          /\ acct'[r].charged <=> acct[r].charged
          /\ acct'[r].served <=> served
      BY <1>p, <1>acct, <3>1, <3>2 DEF Account
    <3>4. envoy[r].from = 0
      BY <3>2, ZenonT(30) DEF served
    <3>5. Unserved(r)'
      BY <2>1, <2>2, <3>2, <3>3, <3>4, ZenonT(30) DEF Account1, Unserved
    <3>6. AccountIsTrue(r)'
      BY <1>p, <3>5, UnservedIsTrue, Zenon
    <3>7. QED
      BY <2>1, <2>3, <3>6 DEF Account1
  <2>6. CASE Handled(r) /\ envoy[r].status = "bad"
    <3>1. acct' = [acct EXCEPT ![r] = [[acct[r] EXCEPT !.fail = @ + 1, !.ends = @ + 1] EXCEPT !.served = served]]
      BY <1>q, <2>6 DEF ResponseBody, RecordFailure
    <3>2. served \in BOOLEAN /\ ~rp[r].localReply
      BY <2>6 DEF Handled
    <3> HIDE DEF served
    <3>3. /\ acct'[r].ok = acct[r].ok /\ acct'[r].usage = acct[r].usage /\ acct'[r].spans = acct[r].spans
          /\ acct'[r].ends = acct[r].ends + 1 /\ acct'[r].fail = acct[r].fail + 1
          /\ acct'[r].first <=> acct[r].first
          /\ acct'[r].charged <=> acct[r].charged
          /\ acct'[r].served <=> served
      BY <1>p, <1>acct, <3>1, <3>2, ZenonT(30) DEF Account
    <3>4. /\ acct[r].ok = 0 /\ acct[r].usage = 0 /\ acct[r].spans = 1 /\ acct[r].ends = 0
          /\ ~acct[r].first /\ ~acct[r].charged
          /\ served => acct[r].fail = 0
      BY <2>1, <2>2, <2>6, <3>2, ZenonT(30) DEF Account1, served
    <3>5. AccountIsTrue(r)'
      BY <2>1, <3>2, <3>3, <3>4 DEF AccountIsTrue, LocalReplyRecordedOnce, ServedIsAccounted
    <3>6. QED
      BY <2>1, <2>3, <3>5 DEF Account1
  <2>7. CASE Handled(r) /\ envoy[r].status # "bad"
    <3> DEFINE c == RequestCosts(r)
    <3>1. acct' = [acct EXCEPT ![r] =
                     [[acct[r] EXCEPT !.ok = @ + 1, !.usage = @ + 1, !.ends = @ + 1,
                                      !.first = rp[r].streaming, !.charged = c] EXCEPT !.served = served]]
      BY <1>q, <2>7 DEF ResponseBody, RecordSuccess
    <3>2. c \in BOOLEAN
      <4>1. rp[r].config \in DOMAIN Config
        <5>1. stream[r] = "open"
          BY <1>0, <1>p, <2>1 DEF StreamInv
        <5>2. rp[r].config # 0 /\ rp[r] \in RouterProcessor
          BY <1>0, <1>p, <5>1, ZenonT(30) DEF TypeOK
        <5>3. QED
          BY <5>2, ZenonT(30) DEF RouterProcessor
      <4>2. QED
        BY <4>1, ConfigTypes, ZenonT(30) DEF RequestCosts
    <3>3. /\ acct[r].ok = 0 /\ acct[r].usage = 0 /\ acct[r].spans = 1 /\ acct[r].ends = 0 /\ acct[r].fail = 0
          /\ c => rp[r].usage
          /\ ~rp[r].localReply
      BY <2>1, <2>2, <2>7 DEF Account1, Handled
    <3>4. served \in BOOLEAN
      BY Zenon
    <3> HIDE DEF served, c
    <3>5. /\ acct'[r].ok = acct[r].ok + 1 /\ acct'[r].usage = acct[r].usage + 1 /\ acct'[r].spans = acct[r].spans
          /\ acct'[r].ends = acct[r].ends + 1 /\ acct'[r].fail = acct[r].fail
          /\ acct'[r].first <=> rp[r].streaming
          /\ acct'[r].charged <=> c
      BY <1>p, <1>acct, <2>2, <3>1, <3>2, <3>4 DEF Account
    <3>6. AccountIsTrue(r)'
      BY <2>1, <3>3, <3>5 DEF AccountIsTrue, LocalReplyRecordedOnce, ServedIsAccounted
    <3>7. QED
      BY <2>1, <2>3, <3>6 DEF Account1
  <2>8. QED
    BY <2>5, <2>6, <2>7
<1>t. ASSUME NEW r \in Req,
             RouterStep(r) \/ EnvoyStep(r) \/ ResponseStep(r) \/ \E a \in Attempt : AttemptStep(r, a)
      PROVE  AccountInv'
  <2>1. ASSUME NEW s \in Patient, s # r PROVE Account1(s)'
    BY <1>0, <1>p, <1>t, <2>1, OthersUntouched, UntouchedKeeps
  <2>2. ASSUME r \in Patient PROVE Account1(r)'
    <3>1. ASSUME RouterStep(r) PROVE Account1(r)'
      BY <2>2, <3>1, <1>a, <1>b, <1>c DEF RouterStep
    <3>2. ASSUME EnvoyStep(r) PROVE Account1(r)'
      BY <2>2, <3>2, <1>p, <1>d, <1>e, <1>f DEF EnvoyStep, PerTryTimeout, MessageTimeout
    <3>3. ASSUME ResponseStep(r) PROVE Account1(r)'
      BY <2>2, <3>3, <1>m, <1>n, <1>o, <1>q DEF ResponseStep
    <3>4. ASSUME NEW a \in Attempt, AttemptStep(r, a) PROVE Account1(r)'
      BY <2>2, <3>4, <1>g, <1>h, <1>i, <1>j, <1>k, <1>l DEF AttemptStep
    <3>5. QED
      BY <1>t, <3>1, <3>2, <3>3, <3>4
  <2>3. QED
    BY <2>1, <2>2 DEF AccountInv, Patient
<1>u. ASSUME LoadConfig \/ UNCHANGED vars PROVE AccountInv'
  <2>1. \A s \in Patient : Untouched(s)
    BY <1>u DEF LoadConfig, vars, Untouched
  <2>2. QED
    BY <1>p, <2>1, UntouchedKeeps DEF AccountInv, Patient
<1>z. QED
  BY <1>0, <1>t, <1>u DEF Next, Done

(* Whatever happens to a request, its attempts, its client and the         *)
(* configuration (but for attempts Envoy gives up on too early), what is   *)
(* recorded about it is true: one verdict, one end of its span, its usage  *)
(* once, and no charge for tokens the backend was not asked to count.      *)
THEOREM AccountsTrue == Spec => []AccountsAreTrue
<1> DEFINE I == TurnInv /\ ResponseMeetsItsAttempt /\ AccountInv
<1>1. Init => I
  <2> SUFFICES ASSUME Init PROVE I
    BY Zenon
  <2>1. TurnInv /\ ResponseMeetsItsAttempt
    BY Zenon DEF Init, Patient, TurnInv, ResponseMeetsItsAttempt, Settled, NewRouterProcessor, NewUpstreamProcessor
  <2>2. ASSUME NEW r \in Patient PROVE Account1(r)
    <3>1. envoy[r].pc = "new" /\ ~rp[r].localReply /\ \A a \in Attempt : Settled(r, a)
      BY DEF Init, Patient, Settled, NewRouterProcessor, NewUpstreamProcessor
    <3>2. Clean(r, 0)
      BY DEF Init, Patient, Clean
    <3>3. QED
      BY <3>1, <3>2, ZenonT(30) DEF Account1
  <2>3. QED
    BY <2>1, <2>2 DEF AccountInv
<1>2. Inv /\ I /\ [Next]_vars => I'
  BY TurnStep, AccountStep
<1>3. Inv /\ I => AccountsAreTrue
  BY EndIsTrue DEF AccountInv, AccountsAreTrue, AccountIsTrue, Patient
<1> HIDE DEF I
<1>4. QED
  BY <1>1, <1>2, <1>3, Invariance, PTL DEF Spec
=============================================================================
