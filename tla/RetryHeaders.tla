---------------------------- MODULE RetryHeaders ----------------------------
(***************************************************************************)
(* The headers of a request over its attempts.  Envoy keeps one set of     *)
(* request headers, and what the upstream filter changes for one backend   *)
(* is still there when the request is tried on the next.  A retry          *)
(* therefore restores what the router filter saw (header_mutator.go),      *)
(* between what the translator sets and what the credentials of the        *)
(* backend add (processor_impl.go).                                        *)
(*                                                                         *)
(* content-length is left out: Envoy drops it with the body it replaces.   *)
(***************************************************************************)
EXTENDS Naturals

CONSTANTS
    Key,           \* header names
    Value,
    Absent,        \* no such header
    Ignored,       \* the names shouldIgnoreHeader tells apart
    UpstreamHost,  \* x-ai-eg-upstream-host, one of them
    ClientHeaders, \* the headers a request may come with
    Injected,      \* what the tracer of the router filter adds to them
    Target,
    Remove, Set,   \* HTTPHeaderMutation of a backend: names; values by name
    Translated,    \* the values its translator sets, from those it reads
    Auth,          \* the values its static credentials set
    MaxTries    \* bound on the attempts of a request

Field == Value \cup {Absent}
Headers == [Key -> Field]

ASSUME HeadersAssumption ==
    /\ Absent \notin Value
    /\ Ignored \subseteq Key /\ UpstreamHost \in Ignored
    /\ ClientHeaders \subseteq Headers /\ Injected \in Headers
    /\ Remove \in [Target -> SUBSET Key]
    /\ Set \in [Target -> Headers] /\ Auth \in [Target -> Headers]
    /\ Translated \in [Target -> [Key -> [Field -> Field]]]
    /\ MaxTries \in Nat

VARIABLES
    pc,        \* "new", "routed", "sent"
    original,  \* routerProcessor.requestHeaders
    request,   \* the headers Envoy has for the request
    routed,    \* history: those it had when the first attempt began
    backend,   \* history: the backend of the last attempt
    count      \* upstreamFilterCount

headersVars == <<pc, original, request, routed, backend, count>>

Overwrite(h, sets) == [k \in Key |-> IF sets[k] # Absent THEN sets[k] ELSE h[k]]
Without(h, removes) == [k \in Key |-> IF k \in removes THEN Absent ELSE h[k]]

-----------------------------------------------------------------------------
(* headermutator.Mutate, as what it asks Envoy to remove and to set in     *)
(* attempt n.  The same map entry is never visited twice to different      *)
(* ends: a restored header counts as set.                                  *)

OnRetry(n) == n > 1
Removed(b) == Remove[b] \ Ignored
IsSet(b) == {k \in Key \ Ignored : Set[b][k] # Absent}

(* Mutant: what an earlier attempt added is left where it is.              *)
MutateRemovesListed(b, h, orig, n) == {k \in Removed(b) : h[k] # Absent}

MutateRemoves(b, h, orig, n) ==
    {k \in Removed(b) : h[k] # Absent}
    \cup {k \in Key \ (Ignored \cup Removed(b) \cup IsSet(b)) :
              OnRetry(n) /\ h[k] # Absent /\ orig[k] = Absent}

MutateSets(b, orig, n) ==
    [k \in Key |->
        IF k \in IsSet(b) THEN Set[b][k]
        ELSE IF OnRetry(n) /\ k \notin Ignored \cup Removed(b) THEN orig[k] ELSE Absent]

(* mutationsFromTranslationResult of what the translator returns.          *)
Translation(b, h) == [k \in Key |-> Translated[b][k][h[k]]]

(* upstreamProcessor.ProcessRequestHeaders: the headers that reach the     *)
(* backend.  Envoy removes first, then sets in the order of the mutation.  *)
Outgoing(b, h, orig, n) ==
    LET removes == MutateRemoves(b, h, orig, n) \cup {UpstreamHost} IN
    Overwrite(Overwrite(Overwrite(Without(h, removes), Translation(b, h)),
                        MutateSets(b, orig, n)),
              Auth[b])

-----------------------------------------------------------------------------
NoHeaders == [k \in Key |-> Absent]

HeadersInit ==
    /\ pc = "new" /\ count = 0 /\ backend \in Target
    /\ original = NoHeaders /\ request = NoHeaders /\ routed = NoHeaders

(* The router filter: it keeps the headers it sees, the ones it owns (all  *)
(* of them ignored names) included; the tracer only adds to the request.   *)
Route(h) ==
    /\ pc = "new"
    /\ pc' = "routed"
    /\ original' = h
    /\ request' = Overwrite(h, Injected)
    /\ routed' = request'
    /\ UNCHANGED <<backend, count>>

(* An attempt: SetBackend counts it, ProcessRequestHeaders prepares it.    *)
TryOn(b) ==
    /\ pc # "new"
    /\ count < MaxTries
    /\ pc' = "sent"
    /\ backend' = b
    /\ count' = count + 1
    /\ request' = Outgoing(b, request, original, count')
    /\ UNCHANGED <<original, routed>>

TriedEnough == count = MaxTries /\ UNCHANGED headersVars

HeadersNext == (\E h \in ClientHeaders : Route(h)) \/ (\E b \in Target : TryOn(b)) \/ TriedEnough

HeadersSpec == HeadersInit /\ [][HeadersNext]_headersVars

-----------------------------------------------------------------------------
(* The values of the variables; a request that is out has been counted.    *)
HeadersTypeOK ==
    /\ pc \in {"new", "routed", "sent"} /\ count \in 0..MaxTries /\ backend \in Target
    /\ original \in Headers /\ request \in Headers /\ routed \in Headers
    /\ pc = "sent" <=> count > 0

(* What every attempt sets anew: the pseudo headers of the translators.    *)
Rewritten == {k \in Key : \E b \in Target, v \in Field : Translated[b][k][v] # Absent}

(* Translators that only set ignored names, all the same ones and without  *)
(* regard to what they read, and no tracer.                                *)
Plain ==
    /\ Injected = NoHeaders
    /\ Rewritten \subseteq Ignored
    /\ \A b \in Target, k \in Rewritten :
          \A v, w \in Field : Translated[b][k][v] # Absent /\ Translated[b][k][v] = Translated[b][k][w]
    /\ \A b \in Target, k \in Ignored : Auth[b][k] # Absent => k \in Rewritten

(* A retry sends a backend the headers a first attempt would have sent it: *)
(* nothing an earlier backend was sent, its credentials included, is left, *)
(* and nothing it was not sent is missing.  This is what Mutate restores   *)
(* the original headers for.                                               *)
RetryIsLikeFirst ==
    pc = "sent" => request = Outgoing(backend, routed, original, 1)

(* A header the translator rewrites reaches the backend rewritten, unless  *)
(* the route sets it or the credentials do.                                *)
TranslationReachesBackend ==
    pc = "sent" =>
        \A k \in Key \ IsSet(backend) :
            LET v == Translated[backend][k][original[k]] IN
            v # Absent /\ Auth[backend][k] = Absent => request[k] = v
=============================================================================
