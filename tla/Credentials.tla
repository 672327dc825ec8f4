---------------------------- MODULE Credentials ----------------------------
(***************************************************************************)
(* With which credentials and mutations a request reaches its backend.     *)
(*                                                                         *)
(* The controller turns a BackendSecurityPolicy and the mutations of a     *)
(* route and of an AIServiceBackend into the configuration of one backend  *)
(* (controller/gateway.go).  For every attempt the upstream filter applies *)
(* it to the headers Envoy has: translation, mutation, authentication      *)
(* (extproc/processor_impl.go, headermutator, backendauth).                *)
(*                                                                         *)
(* Strings are sequences of words, so "Bearer k" is <<"Bearer", "k">>, a   *)
(* blank is the word " ", and "" is <<>>.  Header maps are functions on    *)
(* the names that are present.                                             *)
(***************************************************************************)
EXTENDS Sequences, FiniteSets, Naturals, TLC

CONSTANTS
    Refs,        \* by name: the ref of a route with its backend and policy
    Secrets,     \* by name: the data of a Secret
    Asks,        \* [headers, metadata, body]: what requests come with
    ChainCred,   \* credential of the default chain of AWS, <<>> if it has none
    AdcToken,    \* access token of GCP's default credentials, <<>> if none
    Lower,       \* ToLower on the names that are not in lower case
    MaxTries     \* bound on the attempts of a request

VARIABLES
    ask,      \* the request as the router filter saw it
    wire,     \* the headers Envoy has for it
    body,     \* the body it has, a function on the fields
    at,       \* the ref of the last attempt, "" before the first
    tries,    \* upstreamFilterCount
    outcome   \* of the last attempt: "", "sent", "401", "error"

Nil == [none |-> TRUE]
Empty == <<>>
Path == <<":path">>
Authorization == <<"authorization">>
UpstreamHostHeader == <<"x-ai-eg-upstream-host">>

Get(f, k) == IF k \in DOMAIN f THEN f[k] ELSE Empty
ToLower(n) == IF n \in DOMAIN Lower THEN Lower[n] ELSE n
Without(f, keys) == [k \in DOMAIN f \ keys |-> f[k]]
TrimSpace(v) == SelectSeq(v, LAMBDA w : w # " ")
(* The last of the settings of each name.                                   *)
LastOf(sets) ==
  [n \in {s.name : s \in {sets[i] : i \in DOMAIN sets}} |->
     sets[CHOOSE i \in DOMAIN sets : /\ sets[i].name = n
                                     /\ \A j \in DOMAIN sets : sets[j].name = n => j <= i].value]
Lowered(sets) == [i \in DOMAIN sets |-> [sets[i] EXCEPT !.name = ToLower(@)]]

-----------------------------------------------------------------------------
(* The configuration of a backend.  A mutation has a sequence of settings   *)
(* and a set of names to remove; merged settings come in any order, but no  *)
(* name twice, so their order does not matter.                              *)

Setting(f) == {[name |-> n, value |-> f[n]] : n \in DOMAIN f}
InSomeOrder(S) == CHOOSE q \in [1..Cardinality(S) -> S] : \A s \in S : \E i \in DOMAIN q : q[i] = s

mergeHeaderMutations(route, backend) ==
  CASE route = Nil -> backend
    [] backend = Nil -> route
    [] OTHER -> [set |-> InSomeOrder(Setting(LastOf(Lowered(route.set)) @@ LastOf(Lowered(backend.set)))),
                 remove |-> {ToLower(n) : n \in backend.remove \cup route.remove}]

mergeBodyMutations(route, backend) ==
  CASE route = Nil -> backend
    [] backend = Nil -> route
    [] OTHER -> [set |-> InSomeOrder(Setting(LastOf(route.set) @@ LastOf(backend.set))),
                 remove |-> backend.remove \cup route.remove]

headerMutationToFilterAPI(m) ==
  IF m = Nil THEN Nil
  ELSE [set |-> Lowered(m.set), remove |-> {ToLower(n) : n \in m.remove}]

bodyMutationToFilterAPI(m) == m

AWSCredentialOverrideHeaderNames(prefix) ==
  [id |-> prefix \o <<"access-key-id">>, secret |-> prefix \o <<"secret-access-key">>,
   token |-> prefix \o <<"session-token">>]

defaultOverrideHeaderName(type) ==
  CASE type = "APIKey" -> <<"x-aigw-api-key">>
    [] type = "AnthropicAPIKey" -> <<"x-aigw-anthropic-api-key">>
    [] type = "AzureAPIKey" -> <<"x-aigw-azure-api-key">>
    [] type = "AzureCredentials" -> <<"x-aigw-azure-access-token">>
    [] type = "GCPCredentials" -> <<"x-aigw-gcp-access-token">>
    [] type = "AWSCredentials" -> <<"x-aigw-aws-">>

defaultOverrideMetadataKey(type) ==
  IF type = "AWSCredentials" THEN <<"x-aigw-aws-credentials">> ELSE defaultOverrideHeaderName(type)

overrideInputHeaders(type, name) ==
  IF type = "AWSCredentials"
  THEN LET n == AWSCredentialOverrideHeaderNames(name) IN {n.id, n.secret, n.token}
  ELSE {name}

OrDefault(v, default) == IF v = Empty THEN default ELSE v

(* Refused: an error, for which the backend is left out.                    *)
Refused == [refused |-> TRUE]

resolveCredentialOverride(type, o, hasStatic) ==
  IF o = Nil THEN Nil
  ELSE IF o.fallback /\ ~hasStatic THEN Refused
  ELSE IF o.from = "headers"
  THEN LET n == ToLower(OrDefault(o.name, defaultOverrideHeaderName(type))) IN
       [from |-> "headers", namespace |-> Empty, name |-> n,
        inputs |-> overrideInputHeaders(type, n), fallback |-> o.fallback]
  ELSE [from |-> "metadata", namespace |-> o.namespace,
        name |-> OrDefault(o.name, defaultOverrideMetadataKey(type)),
        inputs |-> {}, fallback |-> o.fallback]

getSecretData(secret, key) == IF secret \in DOMAIN Secrets THEN Get(Secrets[secret], key) ELSE Empty

SecretKey(type) ==
  CASE type \in {"APIKey", "AzureAPIKey", "AnthropicAPIKey"} -> "apiKey"
    [] type = "AWSCredentials" -> "credentials"
    [] type = "AzureCredentials" -> "azureAccessToken"
    [] type = "GCPCredentials" -> "gcpAccessToken"

(* A policy of AWS or GCP without a Secret leaves it to the default chain;  *)
(* GCP's does not count as a credential to fall back to.                    *)
bspToFilterAPIBackendAuth(p) ==
  LET chain == p.secret = "" /\ p.type \in {"AWSCredentials", "GCPCredentials"}
      data == getSecretData(p.secret, SecretKey(p.type))
      o == resolveCredentialOverride(p.type, p.override, ~(chain /\ p.type = "GCPCredentials")) IN
  IF (~chain /\ data = Empty) \/ o = Refused THEN Refused
  ELSE [type |-> p.type, cred |-> data, chain |-> chain, region |-> p.region, override |-> o]

stripCredentialOverrideInputHeaders(m, auth) ==
  IF auth \in {Nil, Refused} \/ auth.override = Nil \/ auth.override.inputs = {} THEN m
  ELSE IF m = Nil THEN [set |-> <<>>, remove |-> auth.override.inputs]
  ELSE [m EXCEPT !.remove = @ \cup auth.override.inputs]

(* reconcileFilterConfigSecret for one ref; an InferencePool has no         *)
(* mutations of its own, and those of its ref are not looked at.            *)
FilterBackend(r) ==
  LET auth == IF r.policy = Nil THEN Nil ELSE bspToFilterAPIBackendAuth(r.policy)
      headers == IF r.pool THEN Nil
                 ELSE headerMutationToFilterAPI(mergeHeaderMutations(r.routeHeaders, r.headers))
      fields == IF r.pool THEN Nil
                ELSE bodyMutationToFilterAPI(mergeBodyMutations(r.routeBody, r.body)) IN
  IF auth = Refused THEN Refused
  ELSE [auth |-> auth, headers |-> stripCredentialOverrideInputHeaders(headers, auth), body |-> fields]

FilterBackends == [r \in DOMAIN Refs |-> FilterBackend(Refs[r])]

-----------------------------------------------------------------------------
(* backendauth: the headers a handler sets, from the upstream filter's map  *)
(* of headers, the metadata and the body; or why it sets none.              *)

Sets(headers) == [err |-> "", sets |-> headers]
Fails(err) == [err |-> err, sets |-> <<>>]

applyBearerCredential(cred) == Authorization :> (<<"Bearer">> \o cred)
applyAnthropicCredential(cred) == <<"x-api-key">> :> cred
applyAzureAPIKeyCredential(cred) == <<"api-key">> :> cred

Prefix(auth) == <<"v1", "projects", "locations", auth.region>>

GCPApply(auth, cred, local) ==
  IF Get(local, Path) = Empty THEN Fails("error")
  ELSE Sets((Path :> (Prefix(auth) \o local[Path])) @@ applyBearerCredential(cred))

gcpHandlerDo(auth, local) ==
  LET token == IF auth.chain THEN AdcToken ELSE auth.cred IN
  IF Get(local, Path) # Empty /\ token = Empty THEN Fails("error") ELSE GCPApply(auth, token, local)

BedrockDomains == {<<"vpce", "amazonaws", "com">>, <<"amazonaws", "com">>, <<"api", "aws">>}

(* The label behind bedrock-runtime, in front of a domain of AWS; "" if     *)
(* there is none.                                                           *)
AWSBedrockRegionFromHost(host) ==
  LET before == {i \in DOMAIN host : /\ host[i] \in {"bedrock-runtime", "bedrock-runtime-fips"}
                                     /\ SubSeq(host, i + 2, Len(host)) \in BedrockDomains} IN
  IF before = {} THEN "" ELSE host[(CHOOSE i \in before : TRUE) + 1]

signingHost(auth, local) ==
  OrDefault(Get(local, UpstreamHostHeader), <<"bedrock-runtime", auth.region, "amazonaws", "com">>)

(* A signature of AWS says with which keys what was signed.                 *)
Signature(cred, region, host, path, payload) ==
  <<"AWS4-HMAC-SHA256", cred.id, cred.secret, region, host, path, payload>>

signWith(auth, cred, local, payload) ==
  LET host == signingHost(auth, local)
      derived == AWSBedrockRegionFromHost(host)
      region == IF derived # "" THEN derived ELSE auth.region IN
  (Authorization :> Signature(cred, region, host, Get(local, Path), payload))
  @@ (<<"x-amz-date">> :> <<"now">>)
  @@ (IF cred.token = Empty THEN <<>> ELSE <<"x-amz-security-token">> :> cred.token)

(* The credentials file, or what the default chain retrieves.               *)
Keys(words) == [id |-> <<words[1]>>, secret |-> <<words[2]>>, token |-> SubSeq(words, 3, Len(words))]
newAWSHandler(auth) == IF auth.chain THEN ChainCred ELSE auth.cred

awsHandlerDo(auth, local, payload) ==
  IF newAWSHandler(auth) = Empty THEN Fails("error")
  ELSE Sets(signWith(auth, Keys(newAWSHandler(auth)), local, payload))

(* The handlers of one value: newAPIKeyHandler and the others trim it.      *)
ApplyFn(auth, cred, local) ==
  CASE auth.type \in {"APIKey", "AzureCredentials"} -> Sets(applyBearerCredential(cred))
    [] auth.type = "AnthropicAPIKey" -> Sets(applyAnthropicCredential(cred))
    [] auth.type = "AzureAPIKey" -> Sets(applyAzureAPIKeyCredential(cred))
    [] auth.type = "GCPCredentials" -> GCPApply(auth, cred, local)

Inner(auth, local, payload) ==
  CASE auth.type = "AWSCredentials" -> awsHandlerDo(auth, local, payload)
    [] auth.type = "GCPCredentials" -> gcpHandlerDo(auth, local)
    [] OTHER -> ApplyFn(auth, TrimSpace(auth.cred), local)

NoValue == [str |-> Empty, fields |-> <<>>]

lookupMetadataValue(o, metadata) ==
  IF o.namespace \in DOMAIN metadata /\ o.name \in DOMAIN metadata[o.namespace]
  THEN metadata[o.namespace][o.name] ELSE NoValue

resolveCredential(o, local, metadata) ==
  TrimSpace(IF o.from = "headers" THEN Get(local, o.name) ELSE lookupMetadataValue(o, metadata).str)

credentialOverrideHandlerDo(auth, local, metadata, payload) ==
  LET cred == resolveCredential(auth.override, local, metadata) IN
  IF cred # Empty THEN ApplyFn(auth, cred, local)
  ELSE IF auth.override.fallback THEN Inner(auth, local, payload) ELSE Fails("401")

resolveAWSCredentials(o, local, metadata) ==
  LET n == AWSCredentialOverrideHeaderNames(o.name)
      fields == lookupMetadataValue(o, metadata).fields IN
  IF o.from = "headers"
  THEN [id |-> TrimSpace(Get(local, n.id)), secret |-> TrimSpace(Get(local, n.secret)),
        token |-> TrimSpace(Get(local, n.token))]
  ELSE [id |-> TrimSpace(Get(fields, "accessKeyId")), secret |-> TrimSpace(Get(fields, "secretAccessKey")),
        token |-> TrimSpace(Get(fields, "sessionToken"))]

awsCredentialOverrideHandlerDo(auth, local, metadata, payload) ==
  LET cred == resolveAWSCredentials(auth.override, local, metadata) IN
  IF cred.id # Empty /\ cred.secret # Empty THEN Sets(signWith(auth, cred, local, payload))
  ELSE IF cred.id # Empty \/ cred.secret # Empty \/ cred.token # Empty THEN Fails("error")
  ELSE IF auth.override.fallback THEN Inner(auth, local, payload) ELSE Fails("401")

(* NewHandler: the handler of an auth, in front of it the one of its        *)
(* override.                                                                *)
NewHandler(auth, local, metadata, payload) ==
  IF auth = Nil THEN Sets(<<>>)
  ELSE IF auth.override = Nil THEN Inner(auth, local, payload)
  ELSE IF auth.type = "AWSCredentials" THEN awsCredentialOverrideHandlerDo(auth, local, metadata, payload)
  ELSE credentialOverrideHandlerDo(auth, local, metadata, payload)

-----------------------------------------------------------------------------
(* headermutator: the map it leaves to the handlers, and what it has Envoy  *)
(* remove and set.  On a retry the headers of the first attempt come back;  *)
(* one that is to be removed comes back to the map only.                    *)

NewHeaderMutator(m) == IF m = Nil THEN [set |-> <<>>, remove |-> {}] ELSE m
shouldIgnoreHeader(k) == k \in {Path, UpstreamHostHeader}

NotIgnored(names) == {k \in names : ~shouldIgnoreHeader(k)}

(* Mutant: a header that is to be removed is not brought back at all.       *)
MutateForgetsRemoved(mutation, headers, retry) ==
  LET m == NewHeaderMutator(mutation)
      removed == NotIgnored(m.remove)
      set == [k \in NotIgnored(DOMAIN LastOf(m.set)) |-> LastOf(m.set)[k]]
      kept == set @@ headers
      original == IF retry THEN Without(ask.headers, DOMAIN set \cup removed \cup {Path, UpstreamHostHeader}) ELSE <<>>
      added == IF retry THEN NotIgnored(DOMAIN kept) \ (DOMAIN set \cup removed \cup DOMAIN ask.headers) ELSE {} IN
  [headers |-> Without(original @@ kept, added),
   sets |-> set @@ original,
   removes |-> (removed \cap DOMAIN headers) \cup added]

Mutate(mutation, headers, retry) ==
  LET m == NewHeaderMutator(mutation)
      removed == NotIgnored(m.remove)
      set == [k \in NotIgnored(DOMAIN LastOf(m.set)) |-> LastOf(m.set)[k]]
      kept == set @@ headers
      original == IF retry THEN Without(ask.headers, DOMAIN set \cup {Path, UpstreamHostHeader}) ELSE <<>>
      \* back in the map for the handlers and the metrics, not on the wire
      unseen == Without(original, DOMAIN kept)
      restored == Without(original, removed)
      added == IF retry THEN NotIgnored(DOMAIN kept) \ (DOMAIN set \cup removed \cup DOMAIN ask.headers) ELSE {} IN
  [headers |-> Without(restored @@ unseen @@ kept, added),
   sets |-> set @@ restored,
   removes |-> (removed \cap DOMAIN headers) \cup added]

(* The filter's headers, with the host that the endpoint's metadata has.    *)
setUpstreamHostAttributes(headers, host) ==
  (IF host = Empty THEN <<>> ELSE UpstreamHostHeader :> host) @@ Without(headers, {UpstreamHostHeader})

NoBody == <<>>

(* What the translator of a backend makes of the request (external here).   *)
RequestBody(r, force) ==
  [headers |-> Path :> r.path,
   body |-> IF r.translates \/ force THEN r.sets @@ ask.body ELSE NoBody]

MutateBody(m, b) == IF m = Nil THEN b ELSE LastOf(m.set) @@ Without(b, m.remove)

(* upstreamProcessor.ProcessRequestHeaders of attempt n at ref r.           *)
Prepared(r, n) ==
  LET b == FilterBackends[r]
      t == RequestBody(Refs[r], n > 1)
      m == Mutate(b.headers, setUpstreamHostAttributes(wire, Refs[r].host), n > 1)
      replaces == t.body # NoBody \/ b.body # Nil
      payload == IF ~replaces THEN <<>> ELSE MutateBody(b.body, IF t.body = NoBody THEN ask.body ELSE t.body)
      auth == NewHandler(b.auth, m.sets @@ t.headers @@ m.headers, ask.metadata, payload) IN
  [err |-> auth.err,
   wire |-> auth.sets @@ m.sets @@ t.headers @@ Without(wire, m.removes \cup {UpstreamHostHeader}),
   body |-> IF replaces THEN payload ELSE body]

-----------------------------------------------------------------------------
CredInit ==
  /\ ask \in Asks /\ wire = ask.headers /\ body = ask.body
  /\ at = "" /\ tries = 0 /\ outcome = ""

(* Envoy tries a backend; one that the configuration lacks fails in         *)
(* setBackend.  What a failed attempt would have changed is not changed.    *)
Try(r) ==
  /\ tries < MaxTries
  /\ at' = r
  /\ IF FilterBackends[r] = Refused
     THEN outcome' = "error" /\ UNCHANGED <<wire, body, tries>>
     ELSE LET p == Prepared(r, tries + 1) IN
          /\ tries' = tries + 1
          /\ outcome' = IF p.err = "" THEN "sent" ELSE p.err
          /\ wire' = IF p.err = "" THEN p.wire ELSE wire
          /\ body' = IF p.err = "" THEN p.body ELSE body
  /\ UNCHANGED ask

CredNext == \E r \in DOMAIN Refs : Try(r)

-----------------------------------------------------------------------------
(* What the API promises, from the objects and the request alone, whatever  *)
(* attempts there were before.                                              *)

NoKeys == [id |-> Empty, secret |-> Empty, token |-> Empty]

(* The value, or for AWS the keys, that the request brings for policy p.    *)
Brought(p) ==
  LET header == ToLower(OrDefault(p.override.name, defaultOverrideHeaderName(p.type)))
      key == OrDefault(p.override.name, defaultOverrideMetadataKey(p.type))
      place == Get(ask.metadata, p.override.namespace)
      entry == IF key \in DOMAIN place THEN place[key] ELSE NoValue
      value(k, field) == TrimSpace(IF p.override.from = "headers" THEN Get(ask.headers, header \o k)
                                   ELSE IF field = "" THEN entry.str ELSE Get(entry.fields, field)) IN
  IF p.type = "AWSCredentials"
  THEN [id |-> value(<<"access-key-id">>, "accessKeyId"), secret |-> value(<<"secret-access-key">>, "secretAccessKey"),
        token |-> value(<<"session-token">>, "sessionToken")]
  ELSE [NoKeys EXCEPT !.id = value(<<>>, ""), !.secret = value(<<>>, "")]

(* The policy's own.                                                        *)
Own(p) ==
  LET words == IF p.secret # "" THEN getSecretData(p.secret, SecretKey(p.type))
               ELSE IF p.type = "AWSCredentials" THEN ChainCred ELSE AdcToken IN
  IF words = Empty THEN NoKeys
  ELSE IF p.type = "AWSCredentials" THEN Keys(words)
  ELSE [NoKeys EXCEPT !.id = TrimSpace(words), !.secret = TrimSpace(words)]

Complete(c) == c.id # Empty /\ c.secret # Empty

(* Which one an attempt uses: "401" and "error" say that it uses none.      *)
Uses(p) ==
  LET brought == IF p.override = Nil THEN NoKeys ELSE Brought(p) IN
  CASE Complete(brought) -> [outcome |-> "sent", cred |-> brought]
    [] brought # NoKeys /\ ~Complete(brought) -> [outcome |-> "error", cred |-> NoKeys]
    [] brought = NoKeys /\ p.override # Nil /\ ~p.override.fallback -> [outcome |-> "401", cred |-> NoKeys]
    [] OTHER -> [outcome |-> IF Complete(Own(p)) THEN "sent" ELSE "error", cred |-> Own(p)]

HostOf(r) == OrDefault(Refs[r].host, <<"bedrock-runtime", Refs[r].policy.region, "amazonaws", "com">>)
RegionOf(r) ==
  LET region == AWSBedrockRegionFromHost(HostOf(r)) IN IF region # "" THEN region ELSE Refs[r].policy.region

(* The headers that carry credential c: signatures are of what is sent.     *)
Carriers(r, c) ==
  LET type == Refs[r].policy.type IN
  CASE type = "AWSCredentials" ->
         (Authorization :> Signature(c, RegionOf(r), HostOf(r), Refs[r].path, body))
         @@ (<<"x-amz-date">> :> <<"now">>)
         @@ (IF c.token = Empty THEN <<>> ELSE <<"x-amz-security-token">> :> c.token)
    [] type = "GCPCredentials" ->
         (Path :> (Prefix(Refs[r].policy) \o Refs[r].path)) @@ applyBearerCredential(c.id)
    [] type = "AnthropicAPIKey" -> applyAnthropicCredential(c.id)
    [] type = "AzureAPIKey" -> applyAzureAPIKeyCredential(c.id)
    [] OTHER -> applyBearerCredential(c.id)

(* What a route and a backend leave of the client's: a setting of either    *)
(* stands before a removal of either, and the route before the backend.     *)
Layered(route, backend, fields) ==
  LET of(m) == IF m = Nil THEN [set |-> <<>>, remove |-> {}] ELSE m IN
  LastOf(Lowered(of(route).set)) @@ LastOf(Lowered(of(backend).set))
  @@ Without(fields, {ToLower(n) : n \in of(route).remove \cup of(backend).remove})

Inputs(p) ==
  IF p = Nil \/ p.override = Nil \/ p.override.from # "headers" THEN {}
  ELSE overrideInputHeaders(p.type, ToLower(OrDefault(p.override.name, defaultOverrideHeaderName(p.type))))

MeantHeaders(r) ==
  LET ref == Refs[r]
      mine == Without(ask.headers, Inputs(ref.policy) \cup {UpstreamHostHeader}) IN
  (IF ref.policy = Nil THEN <<>> ELSE Carriers(r, Uses(ref.policy).cred))
  @@ (Path :> ref.path)
  @@ (IF ref.pool THEN mine ELSE Layered(ref.routeHeaders, ref.headers, mine))

MeantBody(r) ==
  IF Refs[r].pool THEN Refs[r].sets @@ ask.body
  ELSE Layered(Refs[r].routeBody, Refs[r].body, Refs[r].sets @@ ask.body)

(* A policy that cannot be had: no Secret, or no credential to fall back to.*)
Unusable(p) ==
  /\ p # Nil
  /\ \/ p.secret # "" /\ getSecretData(p.secret, SecretKey(p.type)) = Empty
     \/ p.override # Nil /\ p.override.fallback /\ p.secret = "" /\ p.type = "GCPCredentials"

(* An attempt uses the credential the request brought for this backend, or  *)
(* else the policy's if it may, and no other; it answers 401 if there is    *)
(* none to use and fails if half of one came or the policy cannot be had.   *)
(* The headers that brought it, and whatever an earlier attempt left, do    *)
(* not reach the backend; a signature is of the host, path and body that    *)
(* do.  All else is the client's, but for what the route and the backend    *)
(* change, the route before the backend (resolveCredentialOverride, Mutate, *)
(* credentialOverrideHandler.Do, signWith, mergeHeaderMutations).           *)
SentAsMeant ==
  at # "" =>
    LET p == Refs[at].policy
        want == IF Unusable(p) THEN "error" ELSE IF p = Nil THEN "sent" ELSE Uses(p).outcome IN
    /\ outcome = want
    /\ outcome = "sent" => wire = MeantHeaders(at) /\ body = MeantBody(at)
=============================================================================
