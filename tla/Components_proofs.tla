-------------------------- MODULE Components_proofs --------------------------
(***************************************************************************)
(* Proofs about three components that stand by themselves: RetryHeaders,   *)
(* for every set of headers, backends and mutations and every number of    *)
(* attempts; MCPToolSignal, for any streams, configurations and number of  *)
(* loads; and Rotation, for any providers, lifetimes of tokens, faults,    *)
(* edits and horizon.                                                      *)
(***************************************************************************)
EXTENDS RetryHeaders, MCPToolSignal, Rotation, TLAPS

-----------------------------------------------------------------------------
(* RetryHeaders.                                                           *)

LEMMA HeaderTypes ==
  ASSUME NEW h \in Headers, NEW s \in Headers, NEW r
  PROVE  Overwrite(h, s) \in Headers /\ Without(h, r) \in Headers
BY DEF Overwrite, Without, Headers, Field

(* What an attempt sends is a set of headers.                              *)
LEMMA OutgoingType ==
  ASSUME NEW b \in Target, NEW h \in Headers, NEW orig \in Headers, NEW n \in Nat
  PROVE  /\ Translation(b, h) \in Headers /\ MutateSets(b, orig, n) \in Headers
         /\ Outgoing(b, h, orig, n) \in Headers
<1>1. Translation(b, h) \in Headers
  BY HeadersAssumption DEF Translation, Headers
<1>2. Set[b] \in Headers /\ Auth[b] \in Headers
  BY HeadersAssumption
<1>3. MutateSets(b, orig, n) \in Headers
  BY <1>2 DEF MutateSets, Headers, Field
<1>4. QED
  BY <1>1, <1>2, <1>3, HeaderTypes DEF Outgoing

(* What an attempt sends, header by header.                                *)
LEMMA OutgoingAt ==
  ASSUME NEW b \in Target, NEW h \in Headers, NEW orig \in Headers, NEW n \in Nat,
         NEW k \in Key
  PROVE  Outgoing(b, h, orig, n)[k] =
           IF Auth[b][k] # Absent THEN Auth[b][k]
           ELSE IF MutateSets(b, orig, n)[k] # Absent THEN MutateSets(b, orig, n)[k]
           ELSE IF Translation(b, h)[k] # Absent THEN Translation(b, h)[k]
           ELSE IF k \in MutateRemoves(b, h, orig, n) \cup {UpstreamHost} THEN Absent
           ELSE h[k]
BY Zenon DEF Outgoing, Overwrite, Without

(* A header the gateway does not reserve comes out of a retry as it comes  *)
(* out of a first attempt on the original headers, whatever it was before. *)
LEMMA RestoredAt ==
  ASSUME Plain, NEW b \in Target, NEW h \in Headers, NEW orig \in Headers,
         NEW n \in Nat, OnRetry(n), NEW k \in Key \ Ignored
  PROVE  Outgoing(b, h, orig, n)[k] = Outgoing(b, orig, orig, 1)[k]
<1>0. 1 \in Nat /\ k \in Key /\ k \notin Ignored /\ ~OnRetry(1)
  BY DEF OnRetry
<1>1. Translation(b, h)[k] = Absent /\ Translation(b, orig)[k] = Absent
  <2>1. k \notin Rewritten /\ h[k] \in Field /\ orig[k] \in Field
    BY DEF Plain, Headers
  <2>2. QED
    BY <2>1 DEF Translation, Rewritten
<1>2. k # UpstreamHost
  BY HeadersAssumption
<1>3. /\ Outgoing(b, h, orig, n)[k] =
             IF Auth[b][k] # Absent THEN Auth[b][k]
             ELSE IF MutateSets(b, orig, n)[k] # Absent THEN MutateSets(b, orig, n)[k]
             ELSE IF k \in MutateRemoves(b, h, orig, n) THEN Absent ELSE h[k]
      /\ Outgoing(b, orig, orig, 1)[k] =
             IF Auth[b][k] # Absent THEN Auth[b][k]
             ELSE IF MutateSets(b, orig, 1)[k] # Absent THEN MutateSets(b, orig, 1)[k]
             ELSE IF k \in MutateRemoves(b, orig, orig, 1) THEN Absent ELSE orig[k]
  BY <1>0, <1>1, <1>2, OutgoingAt
<1>4. /\ MutateSets(b, orig, n)[k] =
             IF k \in IsSet(b) THEN Set[b][k] ELSE IF k \notin Removed(b) THEN orig[k] ELSE Absent
      /\ MutateSets(b, orig, 1)[k] = IF k \in IsSet(b) THEN Set[b][k] ELSE Absent
  BY <1>0, Zenon DEF MutateSets
<1>5. /\ k \in MutateRemoves(b, h, orig, n) <=>
           h[k] # Absent /\ (k \in Removed(b) \/ (k \notin IsSet(b) /\ orig[k] = Absent))
      /\ k \in MutateRemoves(b, orig, orig, 1) <=> k \in Removed(b) /\ orig[k] # Absent
  BY <1>0 DEF MutateRemoves
<1>6. k \in IsSet(b) => Set[b][k] # Absent
  BY DEF IsSet
<1>7. QED
  BY <1>3, <1>4, <1>5, <1>6

(* A reserved header is set anew by every translator, or has not been      *)
(* touched by any attempt.                                                 *)
LEMMA ReservedAt ==
  ASSUME Plain, NEW b \in Target, NEW h \in Headers, NEW g \in Headers, NEW orig \in Headers,
         NEW n \in Nat, NEW k \in Ignored, k \notin Rewritten => k = UpstreamHost \/ h[k] = g[k]
  PROVE  /\ Outgoing(b, h, orig, n)[k] = Outgoing(b, g, orig, 1)[k]
         /\ k \notin Rewritten => k = UpstreamHost \/ Outgoing(b, h, orig, n)[k] = h[k]
<1>0. k \in Key /\ h[k] \in Field /\ g[k] \in Field /\ 1 \in Nat
  BY HeadersAssumption DEF Headers
<1>1. /\ MutateSets(b, orig, n)[k] = Absent /\ MutateSets(b, orig, 1)[k] = Absent
      /\ k \notin MutateRemoves(b, h, orig, n) /\ k \notin MutateRemoves(b, g, orig, 1)
  BY <1>0 DEF MutateSets, MutateRemoves, IsSet, Removed
<1>2. /\ Outgoing(b, h, orig, n)[k] =
             IF Auth[b][k] # Absent THEN Auth[b][k]
             ELSE IF Translation(b, h)[k] # Absent THEN Translation(b, h)[k]
             ELSE IF k = UpstreamHost THEN Absent ELSE h[k]
      /\ Outgoing(b, g, orig, 1)[k] =
             IF Auth[b][k] # Absent THEN Auth[b][k]
             ELSE IF Translation(b, g)[k] # Absent THEN Translation(b, g)[k]
             ELSE IF k = UpstreamHost THEN Absent ELSE g[k]
  BY <1>0, <1>1, OutgoingAt
<1>3. CASE k \in Rewritten
  <2>1. Translation(b, h)[k] = Translation(b, g)[k] /\ Translation(b, g)[k] # Absent
    BY <1>0, <1>3 DEF Translation, Plain
  <2>2. QED
    BY <1>2, <1>3, <2>1
<1>4. CASE k \notin Rewritten
  <2>1. Translation(b, h)[k] = Absent /\ Translation(b, g)[k] = Absent /\ Auth[b][k] = Absent
    BY <1>0, <1>4 DEF Translation, Plain, Rewritten
  <2>2. QED
    BY <1>2, <1>4, <2>1
<1>5. QED
  BY <1>3, <1>4
-----------------------------------------------------------------------------
(* The inductive invariant: without a tracer the router filter knows all   *)
(* the headers, and the reserved ones the translators leave alone stay.    *)
ReservedKept ==
  /\ routed = original
  /\ count = 0 => request = routed
  /\ \A k \in Ignored \ Rewritten : k = UpstreamHost \/ request[k] = routed[k]

LEMMA TypeStep == HeadersTypeOK /\ [HeadersNext]_headersVars => HeadersTypeOK'
<1> SUFFICES ASSUME HeadersTypeOK, [HeadersNext]_headersVars PROVE HeadersTypeOK'
  OBVIOUS
<1>0. /\ request \in Headers /\ original \in Headers /\ routed \in Headers
      /\ count \in Nat /\ count <= MaxTries /\ MaxTries \in Nat
      /\ pc \in {"new", "routed", "sent"} /\ (pc = "sent" <=> count > 0)
  BY HeadersAssumption DEF HeadersTypeOK
<1>1. ASSUME NEW h \in ClientHeaders, Route(h) PROVE HeadersTypeOK'
  <2>1. h \in Headers /\ Overwrite(h, Injected) \in Headers
    BY HeadersAssumption, HeaderTypes, ZenonT(30)
  <2>2. QED
    BY <1>0, <1>1, <2>1 DEF HeadersTypeOK, Route
<1>2. ASSUME NEW b \in Target, TryOn(b) PROVE HeadersTypeOK'
  <2>1. request' \in Headers
    <3>1. request' = Outgoing(b, request, original, count') /\ count' \in Nat
      BY <1>0, <1>2 DEF TryOn
    <3>2. QED
      BY <1>0, <3>1, OutgoingType, ZenonT(30)
  <2>2. count' \in 0..MaxTries /\ count' > 0
    BY <1>0, <1>2 DEF TryOn
  <2>3. QED
    BY <1>0, <1>2, <2>1, <2>2 DEF HeadersTypeOK, TryOn
<1>3. CASE UNCHANGED headersVars
  BY <1>3 DEF HeadersTypeOK, headersVars
<1>4. QED
  BY <1>1, <1>2, <1>3 DEF HeadersNext, TriedEnough

(* Type correctness, for every header and every mutation.                  *)
THEOREM HeadersTypeCorrect == HeadersSpec => []HeadersTypeOK
<1>1. HeadersInit => HeadersTypeOK
  BY HeadersAssumption DEF HeadersInit, HeadersTypeOK, NoHeaders, Headers, Field
<1>2. QED
  BY <1>1, TypeStep, PTL DEF HeadersSpec

LEMMA KeptStep ==
  ASSUME Plain, HeadersTypeOK, ReservedKept, RetryIsLikeFirst, [HeadersNext]_headersVars
  PROVE  ReservedKept' /\ RetryIsLikeFirst'
<1>0. /\ request \in Headers /\ original \in Headers /\ routed \in Headers /\ count \in Nat
      /\ routed = original
  BY HeadersAssumption DEF HeadersTypeOK, ReservedKept
<1>1. ASSUME NEW h \in ClientHeaders, Route(h) PROVE ReservedKept' /\ RetryIsLikeFirst'
  <2>1. Overwrite(h, Injected) = h
    BY HeadersAssumption DEF Overwrite, Plain, NoHeaders, Headers
  <2>2. QED
    BY <1>1, <2>1 DEF Route, ReservedKept, RetryIsLikeFirst
<1>2. ASSUME NEW b \in Target, TryOn(b) PROVE ReservedKept' /\ RetryIsLikeFirst'
  <2>1. /\ count' = count + 1 /\ count' # 0
        /\ original' = original /\ routed' = routed /\ backend' = b
    BY <1>0, <1>2 DEF TryOn
  <2>2. request' = Outgoing(b, request, original, count') /\ count' \in Nat /\ 1 \in Nat
    BY <1>0, <1>2, <2>1 DEF TryOn
  <2>3. /\ request' \in Headers
        /\ Outgoing(b, routed, original, 1) \in Headers
    BY <1>0, <2>2, OutgoingType
  <2>4. ASSUME NEW k \in Ignored
        PROVE  /\ request'[k] = Outgoing(b, routed, original, 1)[k]
               /\ k \notin Rewritten => k = UpstreamHost \/ request'[k] = routed[k]
    <3>1. k \notin Rewritten => k = UpstreamHost \/ request[k] = routed[k]
      BY DEF ReservedKept
    <3>2. QED
      BY <1>0, <2>2, <3>1, ReservedAt
  <2>5. ASSUME NEW k \in Key \ Ignored
        PROVE  request'[k] = Outgoing(b, routed, original, 1)[k]
    <3>1. CASE count = 0
      <4>1. count' = 1 /\ request = routed
        BY <2>1, <3>1 DEF ReservedKept
      <4>2. QED
        BY <2>2, <4>1
    <3>2. CASE count # 0
      <4>1. OnRetry(count')
        BY <1>0, <2>1, <3>2 DEF OnRetry
      <4>2. QED
        BY <1>0, <2>2, <4>1, RestoredAt
    <3>3. QED
      BY <3>1, <3>2
  <2>6. request' = Outgoing(b, routed, original, 1)
    <3>1. \A k \in Key : request'[k] = Outgoing(b, routed, original, 1)[k]
      BY <2>4, <2>5
    <3>2. QED
      BY <2>3, <3>1 DEF Headers
  <2>7. QED
    BY <1>0, <2>1, <2>4, <2>6 DEF ReservedKept, RetryIsLikeFirst
<1>3. CASE UNCHANGED headersVars
  BY <1>3 DEF ReservedKept, RetryIsLikeFirst, headersVars
<1>4. QED
  BY <1>1, <1>2, <1>3 DEF HeadersNext, TriedEnough

(* Every retry sends its backend the headers a first attempt would have    *)
(* sent, as long as translators keep to pseudo headers and no tracer adds  *)
(* to the request: for any number of attempts, on any backends.            *)
THEOREM RetriesLikeFirst == Plain /\ HeadersSpec => []RetryIsLikeFirst
<1> SUFFICES ASSUME Plain PROVE HeadersSpec => []RetryIsLikeFirst
  OBVIOUS
<1>1. HeadersInit => ReservedKept /\ RetryIsLikeFirst
  BY DEF HeadersInit, ReservedKept, RetryIsLikeFirst
<1>2. HeadersTypeOK /\ ReservedKept /\ RetryIsLikeFirst /\ [HeadersNext]_headersVars => ReservedKept' /\ RetryIsLikeFirst'
  BY KeptStep
<1>3. QED
  BY <1>1, <1>2, HeadersTypeCorrect, PTL DEF HeadersSpec

-----------------------------------------------------------------------------
(* MCPToolSignal: the inductive invariant.                                 *)

(* A load in progress is newer than what is served, and once it is stored  *)
(* it is what is served; every signal belongs to a load of its own.        *)
Loading ==
  /\ routes.load <= loading.load /\ loading.load <= loads
  /\ phase = "stored" => loading = routes
  /\ notify <= loads /\ (phase # "idle" => notify < loads)

(* Channels were closed for what is served by now, and nobody was told of  *)
(* more.                                                                   *)
Signalled ==
  /\ \A n \in 0..MaxLoads : n < notify => cause[n] <= routes.load
  /\ \A s \in Listeners : watched[s] <= notify /\ told[s] <= routes.load

SignalInv == SignalTypeOK /\ Loading /\ Signalled /\ ListsWhatChanged

LEMMA SignalInvInit ==
  ASSUME MaxLoads \in Nat, SignalInit
  PROVE  SignalInv
<1>1. routes \in Served /\ routes.load = 0 /\ loading = routes
  BY DEF SignalInit, Served
<1>2. /\ loads = 0 /\ phase = "idle" /\ notify = 0 /\ 0 \in 0..MaxLoads
      /\ cause = [n \in 0..MaxLoads |-> 0] /\ place = [s \in Listeners |-> "select"]
      /\ watched = [s \in Listeners |-> 0] /\ told = [s \in Listeners |-> 0]
      /\ listing = {} /\ known = [s \in Listeners |-> routes]
  BY DEF SignalInit
<1>3. SignalTypeOK
  BY <1>1, <1>2 DEF SignalTypeOK
<1>4. Loading /\ Signalled /\ ListsWhatChanged
  BY <1>1, <1>2 DEF Loading, Signalled, ListsWhatChanged
<1>5. QED
  BY <1>3, <1>4 DEF SignalInv

(* The numbers in the state.                                               *)
LEMMA SignalNumbers ==
  ASSUME MaxLoads \in Nat, SignalTypeOK
  PROVE  /\ loads \in Nat /\ notify \in Nat /\ routes.load \in Nat /\ loading.load \in Nat
         /\ \A n \in 0..MaxLoads : cause[n] \in Nat
         /\ \A s \in Listeners : watched[s] \in Nat /\ told[s] \in Nat /\ known[s].load \in Nat
  BY SMTT(30) DEF SignalTypeOK, Served

-----------------------------------------------------------------------------
(* The loader.                                                             *)
LEMMA LoadStep ==
  ASSUME MaxLoads \in Nat, SignalInv, NEW tools \in Tools, LoadConfig(tools)
  PROVE  SignalInv'
<1>1. /\ phase = "idle" /\ loads < MaxLoads /\ loads' = loads + 1
      /\ UNCHANGED <<routes, notify, cause, place, watched, told, listing, known>>
  BY DEF LoadConfig, clients
<1>2. loads' \in 0..MaxLoads
  BY <1>1 DEF SignalInv, SignalTypeOK
<1>3. /\ phase' \in {"idle", "built"} /\ loading' \in Served
      /\ loading' = loading \/ loading'.load = loads'
  <2>1. CASE tools = "nothing"
    BY <1>1, <2>1 DEF LoadConfig, SignalInv, SignalTypeOK
  <2>2. CASE tools # "nothing"
    BY <1>2, <2>2 DEF LoadConfig, Served
  <2>3. QED
    BY <2>1, <2>2
<1>4. SignalTypeOK'
  BY <1>1, <1>2, <1>3, ZenonT(30) DEF SignalInv, SignalTypeOK
<1>5. Loading'
  BY <1>1, <1>3, SignalNumbers DEF SignalInv, Loading
<1>6. Signalled' /\ ListsWhatChanged'
  BY <1>1 DEF SignalInv, Signalled, ListsWhatChanged
<1>7. QED
  BY <1>4, <1>5, <1>6 DEF SignalInv

(* What is served only gets newer.                                         *)
LEMMA StoreStep ==
  ASSUME MaxLoads \in Nat, SignalInv, Store
  PROVE  SignalInv'
<1>1. /\ phase = "built" /\ routes' = loading /\ phase' \in {"idle", "stored"}
      /\ UNCHANGED <<loads, loading, notify, cause, place, watched, told, listing, known>>
  BY DEF Store, clients
<1>2. SignalTypeOK'
  BY <1>1, ZenonT(30) DEF SignalInv, SignalTypeOK
<1>3. Loading'
  BY <1>1, SignalNumbers DEF SignalInv, Loading
<1>4. routes.load <= routes'.load
  BY <1>1 DEF SignalInv, Loading
<1>5. Signalled'
  <2>1. routes'.load \in Nat
    BY <1>1, SignalNumbers DEF SignalInv
  <2>2. \A n \in 0..MaxLoads : n < notify => cause[n] <= routes'.load
    BY <1>4, <2>1, SignalNumbers DEF SignalInv, Signalled
  <2>3. \A s \in Listeners : watched[s] <= notify /\ told[s] <= routes'.load
    BY <1>4, <2>1, SignalNumbers DEF SignalInv, Signalled
  <2>4. QED
    BY <1>1, <2>2, <2>3 DEF Signalled
<1>6. ListsWhatChanged'
  BY <1>1 DEF SignalInv, ListsWhatChanged
<1>7. QED
  BY <1>2, <1>3, <1>5, <1>6 DEF SignalInv

LEMMA SignalStep ==
  ASSUME MaxLoads \in Nat, SignalInv, Signal
  PROVE  SignalInv'
<1>1. /\ phase = "stored" /\ phase' = "idle" /\ notify' = notify + 1
      /\ cause' = [cause EXCEPT ![notify] = loading.load]
      /\ UNCHANGED <<loads, loading, routes, place, watched, told, listing, known>>
  BY DEF Signal, SignalAt, clients
<1>2. notify < loads /\ loads \in 0..MaxLoads /\ notify \in 0..MaxLoads /\ loading = routes
  BY <1>1 DEF SignalInv, SignalTypeOK, Loading
<1>3. notify' \in 0..MaxLoads /\ notify' <= loads
  BY <1>1, <1>2
<1>4. cause' \in [0..MaxLoads -> 0..MaxLoads] /\ cause'[notify] = routes.load
      /\ \A n \in 0..MaxLoads : n # notify => cause'[n] = cause[n]
  BY <1>1, <1>2, ZenonT(30) DEF SignalInv, SignalTypeOK, Served
<1>5. SignalTypeOK'
  BY <1>1, <1>3, <1>4, ZenonT(30) DEF SignalInv, SignalTypeOK
<1>6. Loading'
  BY <1>1, <1>3 DEF SignalInv, Loading
<1>7. Signalled'
  <2>1. \A n \in 0..MaxLoads : n < notify' => cause'[n] <= routes.load
    BY <1>1, <1>2, <1>4, SignalNumbers DEF SignalInv, Signalled
  <2>2. \A s \in Listeners : watched[s] <= notify'
    BY <1>1, SignalNumbers DEF SignalInv, Signalled
  <2>3. QED
    BY <1>1, <2>1, <2>2 DEF SignalInv, Signalled
<1>8. ListsWhatChanged'
  BY <1>1 DEF SignalInv, ListsWhatChanged
<1>9. QED
  BY <1>5, <1>6, <1>7, <1>8 DEF SignalInv

-----------------------------------------------------------------------------
(* The streams.                                                            *)
LEMMA StreamStep ==
  ASSUME MaxLoads \in Nat, SignalInv, NEW s \in Listeners, Step(s) \/ OtherEvent(s) \/ ContextDone(s)
  PROVE  SignalInv'
<1>1. UNCHANGED loader /\ Loading'
  BY DEF Step, Watch, ToolsChanged, Written, ListTools, OtherEvent, ContextDone, loader, SignalInv, Loading
<1>2. CASE Watch(s)
  <2>1. watched' = [watched EXCEPT ![s] = notify] /\ place' = [place EXCEPT ![s] = "select"] /\ UNCHANGED clients
    BY <1>2 DEF Watch, Go
  <2>2. SignalTypeOK'
    BY <1>1, <2>1, ZenonT(30) DEF SignalInv, SignalTypeOK, loader, clients
  <2>3. Signalled'
    BY <1>1, <2>1, SignalNumbers DEF SignalInv, SignalTypeOK, Signalled, loader, clients
  <2>4. QED
    BY <1>1, <2>1, <2>2, <2>3 DEF SignalInv, ListsWhatChanged, clients
<1>3. CASE ToolsChanged(s)
  <2>1. /\ watched[s] < notify /\ told' = [told EXCEPT ![s] = cause[watched[s]]]
        /\ listing' = listing \cup {s} /\ place' = [place EXCEPT ![s] = "writing"] /\ UNCHANGED <<watched, known>>
    BY <1>3 DEF ToolsChanged, Go
  <2>2. watched[s] \in 0..MaxLoads /\ cause[watched[s]] \in 0..MaxLoads
    BY DEF SignalInv, SignalTypeOK
  <2>3. cause[watched[s]] <= routes.load
    BY <2>1, <2>2 DEF SignalInv, Signalled
  <2>4. SignalTypeOK'
    BY <1>1, <2>1, <2>2, ZenonT(30) DEF SignalInv, SignalTypeOK, loader
  <2>5. \A q \in Listeners : told'[q] = IF q = s THEN cause[watched[s]] ELSE told[q]
    BY <2>1 DEF SignalInv, SignalTypeOK
  <2>6. Signalled'
    BY <1>1, <2>1, <2>3, <2>5 DEF SignalInv, Signalled, loader
  <2>7. ListsWhatChanged'
    BY <2>1, <2>5 DEF SignalInv, ListsWhatChanged
  <2>8. QED
    BY <1>1, <2>4, <2>6, <2>7 DEF SignalInv
<1>4. CASE Written(s) \/ OtherEvent(s) \/ ContextDone(s)
  <2>1. /\ UNCHANGED <<watched, clients>>
        /\ \E to \in {"loop", "writing", "over"} : place' = [place EXCEPT ![s] = to]
    BY <1>4 DEF Written, OtherEvent, ContextDone, Go
  <2>2. SignalTypeOK'
    BY <1>1, <2>1, ZenonT(30) DEF SignalInv, SignalTypeOK, loader, clients
  <2>3. QED
    BY <1>1, <2>1, <2>2 DEF SignalInv, Signalled, ListsWhatChanged, loader, clients
<1>5. CASE ListTools(s)
  <2>1. /\ listing' = listing \ {s} /\ known' = [known EXCEPT ![s] = routes]
        /\ UNCHANGED <<place, watched, told>>
    BY <1>5 DEF ListTools
  <2>2. SignalTypeOK'
    BY <1>1, <2>1, ZenonT(30) DEF SignalInv, SignalTypeOK, loader
  <2>3. \A q \in Listeners : known'[q] = IF q = s THEN routes ELSE known[q]
    BY <2>1 DEF SignalInv, SignalTypeOK
  <2>4. told[s] <= routes.load
    BY DEF SignalInv, Signalled
  <2>5. ListsWhatChanged'
    BY <2>1, <2>3, <2>4, SignalNumbers DEF SignalInv, ListsWhatChanged
  <2>6. QED
    BY <1>1, <2>1, <2>2, <2>5 DEF SignalInv, Signalled, loader
<1>6. QED
  BY <1>2, <1>3, <1>4, <1>5 DEF Step

LEMMA SignalInvStep ==
  ASSUME MaxLoads \in Nat, SignalInv, [SignalNext]_signalling
  PROVE  SignalInv'
<1>1. CASE UNCHANGED signalling
  BY <1>1, ZenonT(30) DEF signalling, SignalInv, SignalTypeOK, Loading, Signalled, ListsWhatChanged
<1>2. QED
  BY <1>1, LoadStep, StoreStep, SignalStep, StreamStep DEF SignalNext, Quiet

-----------------------------------------------------------------------------
(* The channels of the signaler and the loads stay within their numbers.   *)
THEOREM SignalTypeCorrect == SignalSpec => []SignalTypeOK
<1>1. SignalInit => SignalInv
  BY SignalInvInit, SignalAssumption
<1>2. SignalInv /\ [SignalNext]_signalling => SignalInv'
  BY SignalInvStep, SignalAssumption
<1>3. SignalInv => SignalTypeOK
  BY DEF SignalInv
<1>4. QED
  BY <1>1, <1>2, <1>3, PTL DEF SignalSpec

(* However many streams there are and configurations are loaded, a client  *)
(* that lists the tools because it was notified of a change gets that      *)
(* change or a later one: LoadConfig stores a configuration before anyone  *)
(* is signalled, and stores no older one after it.                         *)
THEOREM ListsAreFresh == SignalSpec => []ListsWhatChanged
<1>1. SignalInit => SignalInv
  BY SignalInvInit, SignalAssumption
<1>2. SignalInv /\ [SignalNext]_signalling => SignalInv'
  BY SignalInvStep, SignalAssumption
<1>3. SignalInv => ListsWhatChanged
  BY DEF SignalInv
<1>4. QED
  BY <1>1, <1>2, <1>3, PTL DEF SignalSpec

-----------------------------------------------------------------------------
(* Rotation.                                                               *)

(* The clock does not reach the rotation time within executeRotation; for   *)
(* the rest, see RotationAssumption.                                        *)
Times ==
  /\ Horizon \in Nat /\ Window \in Nat \ {0} /\ Second \in Nat \ {0}
  /\ Lifetimes \subseteq Nat /\ \E m \in Lifetimes : \A l \in Lifetimes : l <= m
  /\ ~Coincidence

-----------------------------------------------------------------------------
(* The inductive invariant.                                                *)

(* No credential lives longer than the provider lets it, and no timer is   *)
(* set for later than the rotation of one.                                 *)
Bounded ==
  /\ wake \in Int
  /\ credential.exp <= now + Longest /\ cached.exp <= now + Longest /\ work.exp <= now + Longest
  /\ work.wake = Never \/ work.wake <= now + Longest - Window

(* Where the policy has been notified of its credential, it owns the       *)
(* secret: a cache that is behind is then followed by another reconcile.   *)
Owned ==
  /\ cached.owned => credential.owned
  /\ work.pc = "sync" \/ (work = NoWork /\ ~inQueue) => credential.owned

(* The timer a reconcile is about to set is right, if the secret it was    *)
(* computed from is still the secret and no other reconcile will follow.   *)
Planned ==
  ~inQueue /\ cached = credential /\ (work.pc = "sync" \/ (work.pc = "own" /\ credential.owned))
    => work.wake <= RotationTime(credential)

(* The gateway has the credential in the secret, once a reconcile ends.    *)
Notified == work = NoWork /\ ~inQueue => served = credential.exp

RotationInv == RotationTypeOK /\ Bounded /\ Owned /\ Planned /\ Notified /\ NextRotationScheduled

-----------------------------------------------------------------------------
(* Rounding an expiry to whole seconds makes it no later.                  *)
LEMMA WholeSeconds ==
  ASSUME NEW n \in Nat, NEW d \in Nat \ {0}
  PROVE  /\ (n \div d) * d \in Nat /\ (n \div d) * d <= n
  OBVIOUS

LEMMA LongestFact ==
  ASSUME Times
  PROVE  Longest \in Lifetimes /\ Longest \in Nat /\ \A l \in Lifetimes : l \in Nat /\ l <= Longest
  BY ZenonT(30) DEF Times, Longest

LEMMA NeverFact ==
  ASSUME Times
  PROVE  Never \in Nat /\ Never = Horizon + Longest + 1
  BY LongestFact DEF Times, Never

(* The numbers in the state.                                               *)
LEMMA RotationNumbers ==
  ASSUME Times, RotationInv
  PROVE  /\ now \in Nat /\ now <= Horizon /\ wake \in Int /\ served \in Nat
         /\ credential.exp \in Nat /\ credential.rv \in Nat /\ cached.exp \in Nat /\ cached.rv \in Nat
         /\ work.exp \in Nat /\ work.wake \in Nat
         /\ Window \in Nat /\ Second \in Nat \ {0} /\ Longest \in Nat /\ Never \in Nat
         /\ RotationTime(credential) \in Int /\ RotationTime(cached) \in Int
<1>1. now \in Nat /\ now <= Horizon /\ wake \in Int /\ served \in Nat
  BY DEF Times, RotationInv, RotationTypeOK, Bounded
<1>2. /\ credential.exp \in Nat /\ credential.rv \in Nat /\ cached.exp \in Nat /\ cached.rv \in Nat
      /\ work.exp \in Nat /\ work.wake \in 0..Never
  BY Zenon DEF RotationInv, RotationTypeOK, Secret
<1>3. Window \in Nat /\ Second \in Nat \ {0} /\ Longest \in Nat /\ Never \in Nat
  BY LongestFact, NeverFact DEF Times
<1>4. QED
  BY <1>1, <1>2, <1>3 DEF RotationTime

LEMMA NoWorkFact ==
  ASSUME Times
  PROVE  /\ NoWork \in [pc : {"idle", "token", "write", "own", "sync"}, exp : Nat, wake : 0..Never]
         /\ NoWork.pc = "idle" /\ NoWork.exp = 0 /\ NoWork.wake = Never
<1>1. Never \in 0..Never /\ 0 \in Nat
  BY NeverFact
<1>2. QED
  BY <1>1, Zenon DEF NoWork

-----------------------------------------------------------------------------
LEMMA RotationInvInit ==
  ASSUME Times, RotationInit
  PROVE  RotationInv
<1>1. 0 \in Nat /\ 0 \in 0..Horizon /\ Never \in Int /\ 0 <= 0 + Longest
  BY NeverFact, LongestFact DEF Times
<1>2. /\ NoSecret \in Secret /\ NoSecret.exp = 0 /\ NoSecret.rv = 0 /\ ~NoSecret.owned
  BY <1>1, Zenon DEF NoSecret, Secret
<1>3. /\ credential = NoSecret /\ cached = NoSecret /\ inQueue /\ wake = Never /\ work = NoWork
      /\ served = 0 /\ now = 0 /\ kind \in Kinds /\ inQueue \in BOOLEAN
  BY DEF RotationInit
<1>4. RotationTypeOK
  BY <1>1, <1>2, <1>3, NoWorkFact DEF RotationTypeOK
<1>5. Bounded
  BY <1>1, <1>2, <1>3, NoWorkFact DEF Bounded
<1>6. Owned /\ Planned /\ Notified /\ NextRotationScheduled
  BY <1>2, <1>3, NoWorkFact DEF Owned, Planned, Notified, NextRotationScheduled, Resting
<1>7. QED
  BY <1>4, <1>5, <1>6 DEF RotationInv

(* A reconcile that fails leaves the policy queued, which excuses it from  *)
(* all but the types.                                                      *)
LEMMA FailsStep ==
  ASSUME Times, RotationInv, Fails, credential' \in Secret, credential'.rv = credential.rv \/ credential'.rv > credential.rv,
         credential'.rv = credential.rv => credential' = credential,
         credential'.exp <= now + Longest, credential.owned => credential'.owned
  PROVE  RotationInv'
<1>1. work' = NoWork /\ inQueue' /\ inQueue' \in BOOLEAN /\ UNCHANGED <<kind, now, cached, wake, served>>
  BY DEF Fails
<1>2. cached'.rv <= credential'.rv /\ (cached'.rv = credential'.rv => cached' = credential')
  <2>1. credential'.rv \in Nat
    BY Zenon DEF Secret
  <2>2. cached.rv <= credential.rv /\ (cached.rv = credential.rv => cached = credential)
    BY DEF RotationInv, RotationTypeOK
  <2>3. CASE credential'.rv = credential.rv
    BY <1>1, <2>2, <2>3
  <2>4. CASE credential'.rv > credential.rv
    BY <1>1, <2>1, <2>2, <2>4, RotationNumbers
  <2>5. QED
    BY <2>3, <2>4
<1>3. RotationTypeOK'
  BY <1>1, <1>2, NoWorkFact DEF RotationInv, RotationTypeOK
<1>4. Bounded'
  BY <1>1, NoWorkFact, RotationNumbers DEF RotationInv, Bounded
<1>5. Owned' /\ Planned' /\ Notified' /\ NextRotationScheduled'
  BY <1>1, NoWorkFact DEF RotationInv, Owned, Planned, Notified, NextRotationScheduled, Resting
<1>6. QED
  BY <1>3, <1>4, <1>5 DEF RotationInv

(* Failures that leave the secret alone.                                   *)
LEMMA FailsQuietly ==
  ASSUME Times, RotationInv, Fails, UNCHANGED credential
  PROVE  RotationInv'
<1>1. credential \in Secret /\ credential.exp <= now + Longest
  BY DEF RotationInv, RotationTypeOK, Bounded
<1>2. QED
  BY <1>1, FailsStep

-----------------------------------------------------------------------------
(* The environment of a reconcile.                                         *)
LEMMA TickStep ==
  ASSUME Times, RotationInv, Tick
  PROVE  RotationInv'
<1>1. /\ now < Horizon /\ now' = now + 1 /\ now' \in Nat /\ now' \in 0..Horizon
      /\ UNCHANGED <<kind, credential, cached, inQueue, wake, work, served>>
  BY RotationNumbers DEF Tick, Times
<1>2. wake' = Never \/ \E l \in Lifetimes : wake' <= now' + l - Window
  <2>1. CASE wake = Never
    BY <1>1, <2>1
  <2>2. CASE \E l \in Lifetimes : wake <= now + l - Window
    BY <1>1, <2>2, RotationNumbers, LongestFact
  <2>3. QED
    BY <2>1, <2>2 DEF RotationInv, RotationTypeOK
<1>3. RotationTypeOK'
  BY <1>1, <1>2 DEF RotationInv, RotationTypeOK
<1>4. Bounded'
  BY <1>1, RotationNumbers DEF RotationInv, Bounded
<1>5. QED
  BY <1>1, <1>3, <1>4
     DEF RotationInv, Owned, Planned, Notified, NextRotationScheduled, Resting, RotationTime

LEMMA QueueStep ==
  ASSUME Times, RotationInv, Fire \/ Edit
  PROVE  RotationInv'
<1>1. /\ inQueue' /\ inQueue' \in BOOLEAN /\ wake' \in {wake, Never}
      /\ UNCHANGED <<kind, now, credential, cached, work, served>>
  BY ZenonT(30) DEF Fire, Edit
<1>2. RotationTypeOK'
  BY <1>1 DEF RotationInv, RotationTypeOK
<1>3. Bounded'
  BY <1>1, RotationNumbers DEF RotationInv, Bounded
<1>4. QED
  BY <1>1, <1>2, <1>3 DEF RotationInv, Owned, Planned, Notified, NextRotationScheduled, Resting

(* Where the policy owns the secret, a secret that is news to the cache    *)
(* queues it.                                                              *)
LEMMA WatchStep ==
  ASSUME Times, RotationInv, WatchSecret
  PROVE  RotationInv'
<1>1. /\ cached' = credential /\ credential' = credential /\ inQueue' = (inQueue \/ credential.owned) /\ inQueue' \in BOOLEAN
      /\ UNCHANGED <<kind, now, wake, work, served>>
  BY DEF WatchSecret
<1>2. RotationTypeOK'
  BY <1>1, RotationNumbers DEF RotationInv, RotationTypeOK
<1>3. Bounded'
  BY <1>1 DEF RotationInv, Bounded
<1>4. Owned' /\ Planned' /\ Notified' /\ NextRotationScheduled'
  BY <1>1, ZenonT(30) DEF RotationInv, Owned, Planned, Notified, NextRotationScheduled, Resting
<1>5. QED
  BY <1>2, <1>3, <1>4 DEF RotationInv

-----------------------------------------------------------------------------
(* The steps of a reconcile.                                               *)
LEMMA BeginStep ==
  ASSUME Times, RotationInv, NEW expired \in BOOLEAN, Begin(expired)
  PROVE  RotationInv'
<1>1. /\ work = NoWork /\ ~inQueue' /\ inQueue' \in BOOLEAN /\ expired \in IsExpired(cached)
      /\ UNCHANGED <<kind, now, credential, cached, wake, served>>
  BY ZenonT(30) DEF Begin
<1>2. CASE expired
  <2>1. work' = [pc |-> "token", exp |-> 0, wake |-> Never]
    BY <1>2 DEF Begin, NoWork
  <2>2. /\ work' \in [pc : {"idle", "token", "write", "own", "sync"}, exp : Nat, wake : 0..Never]
        /\ work'.pc = "token" /\ work'.exp = 0 /\ work'.wake = Never
    <3>1. Never \in 0..Never /\ 0 \in Nat
      BY NeverFact
    <3>2. QED
      BY <2>1, <3>1, Zenon
  <2>3. RotationTypeOK'
    BY <1>1, <2>2 DEF RotationInv, RotationTypeOK
  <2>4. Bounded'
    BY <1>1, <2>2, RotationNumbers DEF RotationInv, Bounded
  <2>5. QED
    BY <1>1, <2>2, <2>3, <2>4, NoWorkFact
       DEF RotationInv, Owned, Planned, Notified, NextRotationScheduled, Resting
<1>3. CASE ~expired
  <2>1. RotationTime(cached) >= now
    <3>1. ~(RotationTime(cached) < now)
      BY <1>1, <1>3, Zenon DEF IsExpired
    <3>2. QED
      BY <3>1, RotationNumbers
  <2>2. work' = [pc |-> "own", exp |-> 0, wake |-> RotationTime(cached)]
    BY <1>3, ZenonT(30) DEF Begin, NoWork, Times
  <2>3. RotationTime(cached) <= now + Longest - Window
    BY RotationNumbers DEF RotationInv, Bounded, RotationTime
  <2>4. RotationTime(cached) \in 0..Never /\ 0 \in Nat
    BY <2>1, <2>3, RotationNumbers, NeverFact DEF Times
  <2>5. /\ work' \in [pc : {"idle", "token", "write", "own", "sync"}, exp : Nat, wake : 0..Never]
        /\ work'.pc = "own" /\ work'.exp = 0 /\ work'.wake = RotationTime(cached)
    BY <2>2, <2>4, Zenon
  <2>6. RotationTypeOK'
    BY <1>1, <2>5 DEF RotationInv, RotationTypeOK
  <2>7. Bounded'
    BY <1>1, <2>3, <2>5, RotationNumbers DEF RotationInv, Bounded
  <2>8. Planned'
    BY <1>1, <2>5, RotationNumbers DEF Planned, RotationTime
  <2>9. QED
    BY <1>1, <2>5, <2>6, <2>7, <2>8, NoWorkFact
       DEF RotationInv, Owned, Notified, NextRotationScheduled, Resting
<1>4. QED
  BY <1>2, <1>3

LEMMA GetTokenStep ==
  ASSUME Times, RotationInv, NEW l \in Lifetimes, GetToken(l)
  PROVE  RotationInv'
<1>1. /\ work.pc = "token" /\ work' = [work EXCEPT !.pc = "write", !.exp = now + l]
      /\ UNCHANGED <<kind, now, credential, cached, inQueue, wake, served>>
  BY DEF GetToken
<1>2. now + l \in Nat /\ now + l <= now + Longest
  BY RotationNumbers, LongestFact
<1>3. /\ work' \in [pc : {"idle", "token", "write", "own", "sync"}, exp : Nat, wake : 0..Never]
      /\ work'.pc = "write" /\ work'.exp = now + l /\ work'.wake = work.wake
  BY <1>1, <1>2, Zenon DEF RotationInv, RotationTypeOK
<1>4. RotationTypeOK'
  BY <1>1, <1>3 DEF RotationInv, RotationTypeOK
<1>5. Bounded'
  BY <1>1, <1>2, <1>3 DEF RotationInv, Bounded
<1>6. QED
  BY <1>1, <1>3, <1>4, <1>5, NoWorkFact, ZenonT(30)
     DEF RotationInv, Owned, Planned, Notified, NextRotationScheduled, Resting

(* A secret that was just written is news to the cache.                    *)
LEMMA WriteStep ==
  ASSUME Times, RotationInv, Write
  PROVE  RotationInv'
<1> DEFINE due == work.exp - Window
           e == (work.exp \div Second) * Second
<1>1. /\ work.pc = "write" /\ cached.rv = credential.rv
      /\ credential' = [credential EXCEPT !.exp = e, !.rv = @ + 1]
      /\ IF due > now
         THEN work' = [work EXCEPT !.pc = "own", !.wake = due]
                /\ UNCHANGED <<kind, now, cached, inQueue, wake, served, faults, edits>>
         ELSE Fails /\ UNCHANGED faults
  BY DEF Write
<1>2. e \in Nat /\ e <= work.exp /\ credential.rv + 1 \in Nat
  <2>1. work.exp \in Nat /\ Second \in Nat \ {0} /\ credential.rv + 1 \in Nat
    BY RotationNumbers
  <2>2. QED
    BY <2>1, WholeSeconds, Zenon
<1>3. credential' \in Secret /\ credential'.exp = e /\ credential'.rv = credential.rv + 1 /\ credential'.owned = credential.owned
  <2> HIDE DEF e
  <2>1. credential \in Secret
    BY DEF RotationInv, RotationTypeOK
  <2>2. credential' = [exp |-> e, rv |-> credential.rv + 1, owned |-> credential.owned]
    BY <1>1, <2>1, ZenonT(30) DEF Secret
  <2>3. QED
    BY <1>2, <2>1, <2>2, Zenon DEF Secret
<1>4. credential'.rv > credential.rv /\ credential'.rv # credential.rv /\ credential'.exp <= now + Longest
  <2> HIDE DEF e
  <2>1. QED
    BY <1>2, <1>3, RotationNumbers DEF RotationInv, Bounded
<1> HIDE DEF e
<1>5. CASE ~(due > now)
  BY <1>1, <1>3, <1>4, <1>5, FailsStep
<1>6. CASE due > now
  <2>1. /\ work' = [work EXCEPT !.pc = "own", !.wake = due]
        /\ UNCHANGED <<kind, now, cached, inQueue, wake, served>>
    BY <1>1, <1>6
  <2>2. due \in 0..Never /\ due <= now + Longest - Window
    BY <1>6, RotationNumbers, NeverFact DEF RotationInv, Bounded, Times
  <2>3. /\ work' \in [pc : {"idle", "token", "write", "own", "sync"}, exp : Nat, wake : 0..Never]
        /\ work'.pc = "own" /\ work'.exp = work.exp /\ work'.wake = due
    <3> HIDE DEF due
    <3>1. QED
      BY <2>1, <2>2, Zenon DEF RotationInv, RotationTypeOK
  <2>4. cached'.rv <= credential'.rv /\ cached'.rv # credential'.rv /\ cached' # credential'
    <3>1. cached'.rv = credential.rv /\ credential.rv \in Nat /\ credential'.rv = credential.rv + 1
      BY <1>1, <1>3, <2>1, RotationNumbers
    <3>2. cached'.rv <= credential'.rv /\ cached'.rv # credential'.rv
      BY <3>1
    <3>3. QED
      BY <3>2
  <2>5. RotationTypeOK'
    BY <1>3, <2>1, <2>3, <2>4 DEF RotationInv, RotationTypeOK
  <2>6. Bounded'
    BY <1>4, <2>1, <2>2, <2>3 DEF RotationInv, Bounded
  <2>7. QED
    BY <1>3, <2>1, <2>3, <2>4, <2>5, <2>6, NoWorkFact, ZenonT(30)
       DEF RotationInv, Owned, Planned, Notified, NextRotationScheduled, Resting
<1>7. QED
  BY <1>5, <1>6

LEMMA OwnStep ==
  ASSUME Times, RotationInv, Own
  PROVE  RotationInv'
<1>1. /\ work.pc = "own" /\ (cached.owned \/ cached.rv = credential.rv)
      /\ credential' = IF cached.owned THEN credential ELSE [credential EXCEPT !.owned = TRUE, !.rv = @ + 1]
      /\ work' = [work EXCEPT !.pc = "sync"]
      /\ UNCHANGED <<kind, now, cached, inQueue, wake, served>>
  BY DEF Own
<1>2. /\ work' \in [pc : {"idle", "token", "write", "own", "sync"}, exp : Nat, wake : 0..Never]
      /\ work'.pc = "sync" /\ work'.exp = work.exp /\ work'.wake = work.wake
  BY <1>1, Zenon DEF RotationInv, RotationTypeOK
<1>3. CASE cached.owned
  <2>1. credential' = credential /\ credential.owned
    BY <1>1, <1>3 DEF RotationInv, Owned
  <2>2. RotationTypeOK'
    BY <1>1, <1>2, <2>1 DEF RotationInv, RotationTypeOK
  <2>3. Bounded'
    BY <1>1, <1>2, <2>1 DEF RotationInv, Bounded
  <2>4. Planned'
    BY <1>1, <1>2, <2>1 DEF RotationInv, Planned, RotationTime
  <2>5. QED
    BY <1>1, <1>2, <2>1, <2>2, <2>3, <2>4, NoWorkFact
       DEF RotationInv, Owned, Notified, NextRotationScheduled, Resting
<1>4. CASE ~cached.owned
  <2>1. credential \in Secret /\ credential.rv + 1 \in Nat
    BY RotationNumbers DEF RotationInv, RotationTypeOK
  <2>2. credential' = [exp |-> credential.exp, rv |-> credential.rv + 1, owned |-> TRUE]
    BY <1>1, <1>4, <2>1, ZenonT(30) DEF Secret
  <2>3. credential' \in Secret /\ credential'.exp = credential.exp /\ credential'.rv = credential.rv + 1 /\ credential'.owned
    BY <2>1, <2>2, Zenon DEF Secret
  <2>4. cached.rv = credential.rv /\ cached'.rv <= credential'.rv /\ cached'.rv # credential'.rv /\ cached' # credential'
    <3>1. cached'.rv = credential.rv /\ cached.rv = credential.rv /\ credential.rv \in Nat /\ credential'.rv = credential.rv + 1
      BY <1>1, <1>4, <2>3, RotationNumbers
    <3>2. cached'.rv <= credential'.rv /\ cached'.rv # credential'.rv
      BY <3>1
    <3>3. QED
      BY <3>1, <3>2
  <2>5. RotationTypeOK'
    BY <1>1, <1>2, <2>3, <2>4 DEF RotationInv, RotationTypeOK
  <2>6. Bounded'
    BY <1>1, <1>2, <2>3 DEF RotationInv, Bounded
  <2>7. QED
    BY <1>1, <1>2, <2>3, <2>4, <2>5, <2>6, NoWorkFact
       DEF RotationInv, Owned, Planned, Notified, NextRotationScheduled, Resting
<1>5. QED
  BY <1>3, <1>4

(* The timer is the planned one or an earlier one.                         *)
LEMMA SyncStep ==
  ASSUME Times, RotationInv, Sync
  PROVE  RotationInv'
<1>1. /\ work.pc = "sync" /\ work' = NoWork /\ served' = credential.exp /\ wake' \in {work.wake, wake}
      /\ wake' = IF work.wake < wake THEN work.wake ELSE wake
      /\ UNCHANGED <<kind, now, credential, cached, inQueue>>
  BY DEF Sync
<1>2. wake' \in Int /\ wake' <= work.wake
  BY <1>1, RotationNumbers
<1>3. wake' = Never \/ \E l \in Lifetimes : wake' <= now + l - Window
  BY <1>1, LongestFact DEF RotationInv, RotationTypeOK, Bounded
<1>4. RotationTypeOK'
  BY <1>1, <1>3, NoWorkFact, RotationNumbers, SMTT(30) DEF RotationInv, RotationTypeOK
<1>5. Bounded'
  BY <1>1, <1>2, NoWorkFact, RotationNumbers DEF RotationInv, Bounded
<1>6. NextRotationScheduled'
  BY <1>1, <1>2, RotationNumbers DEF RotationInv, Planned, NextRotationScheduled, Resting, RotationTime
<1>7. QED
  BY <1>1, <1>4, <1>5, <1>6, NoWorkFact DEF RotationInv, Owned, Planned, Notified

LEMMA RotationInvStep ==
  ASSUME Times, RotationInv, [RotationNext]_rotation
  PROVE  RotationInv'
<1>1. CASE UNCHANGED rotation
  BY <1>1 DEF rotation, RotationInv, RotationTypeOK, Bounded, Owned, Planned, Notified, NextRotationScheduled, Resting, RotationTime
<1>2. CASE NoRotator \/ NoToken \/ WriteRefused \/ WriteFails \/ NotOwned
  BY <1>2, FailsQuietly DEF NoRotator, NoToken, WriteRefused, WriteFails, NotOwned
<1>3. QED
  BY <1>1, <1>2, TickStep, QueueStep, WatchStep, BeginStep, GetTokenStep, WriteStep, OwnStep, SyncStep, SMTT(30)
     DEF RotationNext

LEMMA RotationInvariance ==
  ASSUME Times
  PROVE  RotationSpec => []RotationInv
<1>1. RotationInit => RotationInv
  BY RotationInvInit
<1>2. RotationInv /\ [RotationNext]_rotation => RotationInv'
  BY RotationInvStep
<1>3. QED
  BY <1>1, <1>2, PTL DEF RotationSpec

-----------------------------------------------------------------------------
(* No timer is later than a rotation can be, and the cache of the secret   *)
(* is what it is or was.                                                   *)
THEOREM RotationTypeCorrect ==
  ASSUME ~Coincidence
  PROVE  RotationSpec => []RotationTypeOK
<1>1. Times
  BY RotationAssumption DEF Times
<1>2. RotationInv => RotationTypeOK
  BY DEF RotationInv
<1>3. QED
  BY <1>1, <1>2, RotationInvariance, PTL

(* Whatever failed and however far the cache was behind, a reconcile is    *)
(* due no later than the rotation is: executeRotation computes the timer   *)
(* from a secret that may be old, but then the watch of the owned secret   *)
(* queues the policy again.  And the credential that the gateway uses has  *)
(* not expired while the controller waits for its timer: rotateCredential  *)
(* is called before the window closes, and syncBackendSecurityPolicy tells *)
(* the gateway.                                                            *)
THEOREM AlwaysKept ==
  ASSUME ~Coincidence
  PROVE  RotationSpec => []CredentialsKept
<1>1. Times
  BY RotationAssumption DEF Times
<1>2. ASSUME RotationInv PROVE CredentialsKept
  <2>1. NextRotationScheduled
    BY <1>2 DEF RotationInv
  <2>2. SUFFICES ASSUME Resting, now <= wake PROVE served > now
    BY <2>1 DEF CredentialsKept, ServesValidCredential
  <2>3. served = credential.exp /\ wake <= RotationTime(credential)
    BY <1>2, <2>1, <2>2 DEF RotationInv, Notified, NextRotationScheduled, Resting
  <2>4. QED
    BY <1>1, <1>2, <2>2, <2>3, RotationNumbers DEF RotationTime, Times
<1>3. QED
  BY <1>1, <1>2, RotationInvariance, PTL
=============================================================================
