--------------------------- MODULE QuotaDescriptors ---------------------------
(* Quota policies as two programs see them.  The controller translates each  *)
(* policy to a tree of descriptors with limits, for the rate limit service;  *)
(* the extension server translates the same policies to rate limit actions,  *)
(* from which Envoy makes the descriptors it sends for a request.  A quota   *)
(* works only if both name a bucket alike.                                   *)
(*                                                                           *)
(* A header match is [name, type, value, invert], a rule [selectors, limit,  *)
(* shadow] with a sequence of sequences of header matches, a model's quota   *)
(* [model, rules, default, cost], a policy [targets, models, service].       *)
(* Header names are numbers, for their order.  A limit of 0 is none.         *)
EXTENDS Integers, Sequences, SequencesExt, FiniteSets, TLC

(* Keys and values of descriptors are tuples: the parts that the code puts   *)
(* together to a text.  NoValue is the empty text.                           *)
BackendKey == <<"backend_name">>
ModelKey == <<"model_name_override">>
NoValue == <<>>
RuleKey(r, m, name, value) == <<r, m, name, value>>
DefaultKey(n) == <<n, -1, 0, "">>

KeyValue(h) == IF h.type = "Distinct" THEN "" ELSE h.value
flattenAndSortHeaders(rule) == SortSeq(FlattenSeq(rule.selectors), LAMBDA a, b : a.name < b.name)

-----------------------------------------------------------------------------
(* The descriptors of the rate limit service.  Quota mode is set exactly     *)
(* where there is a limit.                                                   *)
Node(key, value, limit, shadow, kids) ==
  [key |-> key, value |-> value, limit |-> limit, shadow |-> shadow, kids |-> kids]
Leaf(key, limit, shadow) == Node(key, key, limit, shadow, <<>>)

RuleNode(r, rule) ==
  LET hs == flattenAndSortHeaders(rule)
      At[i \in 1..Len(hs)] ==
        LET key == RuleKey(r, i - 1, hs[i].name, KeyValue(hs[i]))
            value == IF hs[i].type = "Distinct" THEN NoValue ELSE key
        IN  IF i = Len(hs) THEN Node(key, value, rule.limit, rule.shadow, <<>>)
                           ELSE Node(key, value, 0, FALSE, <<At[i + 1]>>)
  IN  IF hs = <<>> THEN Leaf(RuleKey(r, 0, 0, ""), rule.limit, rule.shadow) ELSE At[1]

ModelNode(q) ==
  LET rules == [r \in DOMAIN q.rules |-> RuleNode(r - 1, q.rules[r])]
      default == IF q.default > 0 THEN <<Leaf(DefaultKey(Len(q.rules)), q.default, FALSE)>> ELSE <<>>
  IN  IF q.rules = <<>> THEN Node(ModelKey, <<q.model>>, q.default, FALSE, <<>>)
                        ELSE Node(ModelKey, <<q.model>>, 0, FALSE, rules \o default)

ServiceNodes(policy) ==
  IF policy.service > 0 THEN <<Node(ModelKey, NoValue, policy.service, FALSE, <<>>)>> ELSE <<>>

BackendNodes(policy, b) ==
  LET kids == [i \in DOMAIN policy.models |-> ModelNode(policy.models[i])] \o ServiceNodes(policy)
  IN  IF kids = <<>> THEN <<>> ELSE << Node(BackendKey, <<b>>, 0, FALSE, kids) >>

BuildRateLimitConfigs(policy, backends) ==
  LET found == SelectSeq(policy.targets, LAMBDA b : b \in backends)
  IN  FlattenSeq([i \in DOMAIN found |-> BackendNodes(policy, found[i])])

-----------------------------------------------------------------------------
(* Nodes with the same key and value become one, with the children of both   *)
(* and the first limit; the children of a node that stays alone are as they  *)
(* were.                                                                     *)
RECURSIVE MergeDescriptors(_)

Absorb(nodes, d) ==
  LET same == {i \in DOMAIN nodes : nodes[i].key = d.key /\ nodes[i].value = d.value}
      i == CHOOSE j \in same : TRUE
      old == nodes[i]
  IN  IF same = {} THEN Append(nodes, d)
      ELSE [nodes EXCEPT ![i] =
              Node(d.key, d.value,
                   IF old.limit = 0 THEN d.limit ELSE old.limit,
                   old.shadow \/ d.shadow,
                   IF d.kids = <<>> THEN old.kids ELSE MergeDescriptors(old.kids \o d.kids))]

MergeDescriptors(ds) == FoldLeft(Absorb, <<>>, ds)

(* The limits of a tree, each with its path, in the order of the tree.       *)
RECURSIVE Limits(_)
Limits(nodes) ==
  FlattenSeq([i \in DOMAIN nodes |->
    LET n == nodes[i]
        below == Limits(n.kids)
        own == IF n.limit > 0 THEN <<[path |-> <<>>, limit |-> n.limit]>> ELSE <<>>
    IN  [j \in DOMAIN (own \o below) |->
           [path |-> <<[key |-> n.key, value |-> n.value]>> \o (own \o below)[j].path,
            limit |-> (own \o below)[j].limit]]])

(* The rate limit service walks the tree by the entries of a descriptor: at  *)
(* each level the node of the key and the value, else the one of the key     *)
(* alone; the limit is that of the node of the last entry.                   *)
RECURSIVE LimitOf(_, _)
LimitOf(nodes, entries) ==
  LET e == Head(entries)
      With(v) == SelectSeq(nodes, LAMBDA n : n.key = e.key /\ n.value = v)
      hit == With(e.value) \o With(NoValue)
  IN  IF hit = <<>> THEN 0
      ELSE IF Len(entries) = 1 THEN hit[1].limit
      ELSE LimitOf(hit[1].kids, Tail(entries))

-----------------------------------------------------------------------------
(* The rate limit actions of a route.  A generic key sends what it is given, *)
(* a match of a header its key if the header is as expected, the request     *)
(* headers the value of the header, and metadata the backend or the model    *)
(* that served the request.                                                  *)
Generic(key, value) == [kind |-> "generic", key |-> key, value |-> value]
BaseActions == << [kind |-> "backend", key |-> BackendKey], [kind |-> "model", key |-> ModelKey] >>
RequestTimeBase(b, m) == << Generic(BackendKey, <<b>>), Generic(ModelKey, <<m>>) >>

HeaderMatchAction(r, i, h) ==
  LET key == RuleKey(r, i, h.name, KeyValue(h))
  IN  IF h.type = "Distinct" THEN [kind |-> "header", key |-> key, match |-> h]
      ELSE [kind |-> "match", key |-> key, match |-> h, expect |-> ~h.invert]

StreamDoneHeaderMatchAction(r, i, h) ==
  LET key == RuleKey(r, i, h.name, KeyValue(h))
  IN  IF h.type = "Distinct" THEN Generic(key, key)
      ELSE [kind |-> "match", key |-> key, match |-> h, expect |-> TRUE]

AsWritten(rule) == FlattenSeq(rule.selectors)      \* mutant: not sorted

flattenAndSortClientSelectorHeaders(rule) ==
  SortSeq(FlattenSeq(rule.selectors), LAMBDA a, b : a.name < b.name)

ClientActions(r, rule, done) ==
  LET hs == flattenAndSortClientSelectorHeaders(rule)
      key == RuleKey(r, 0, 0, "")
  IN  IF hs = <<>> THEN <<Generic(key, key)>>
      ELSE [i \in DOMAIN hs |->
              IF done THEN StreamDoneHeaderMatchAction(r, i - 1, hs[i]) ELSE HeaderMatchAction(r, i - 1, hs[i])]

Default(q) == <<Generic(DefaultKey(Len(q.rules)), DefaultKey(Len(q.rules)))>>

(* The actions that tell the buckets of a model's quota apart, for the check *)
(* of a request and for the charge when it is done.                          *)
Buckets(q, done) ==
  LET default == IF q.default > 0 THEN <<Default(q)>> ELSE <<>>
  IN  IF q.rules = <<>> THEN [i \in 1..Len(default) |-> <<>>]
      ELSE [r \in DOMAIN q.rules |-> ClientActions(r - 1, q.rules[r], done)] \o default

(* The models of a policy that a route serves: those it overrides a target's *)
(* name with, or all if it overrides no name.                                *)
Overrides(route) == {<<route[i].backend, route[i].override>> : i \in {j \in DOMAIN route : route[j].override # ""}}
Serves(route, policy, q) ==
  \/ Overrides(route) = {}
  \/ \E b \in Range(policy.targets) : <<b, q.model>> \in Overrides(route)

Targets(route, policy) == \E i \in DOMAIN route : route[i].backend \in Range(policy.targets)
Quotas(route, policies) ==
  LET of(p) == SelectSeq(p.models, LAMBDA q : Serves(route, p, q))
      those == SelectSeq(policies, LAMBDA p : Targets(route, p))
  IN  FlattenSeq([i \in DOMAIN those |->
        [j \in DOMAIN of(those[i]) |-> [targets |-> those[i].targets, quota |-> of(those[i])[j]]]])

RequestTimeEntries(route, policies) ==
  LET qs == Quotas(route, policies)
      Of(x) == FlattenSeq([t \in DOMAIN x.targets |->
                 [i \in DOMAIN Buckets(x.quota, FALSE) |->
                    RequestTimeBase(x.targets[t], x.quota.model) \o Buckets(x.quota, FALSE)[i]]])
  IN  FlattenSeq([i \in DOMAIN qs |-> Of(qs[i])])

(* The entries of the charge hold for all targets and models; two with the   *)
(* same keys are kept once.                                                  *)
Keys(actions) == [i \in DOMAIN actions |-> actions[i].key]
EveryEntry(route, policies) ==
  LET qs == Quotas(route, policies)
      all == FlattenSeq([i \in DOMAIN qs |-> Buckets(qs[i].quota, TRUE)])
  IN  [i \in DOMAIN all |-> BaseActions \o all[i]]

StreamDoneEntries(route, policies) ==
  LET qs == Quotas(route, policies)
      all == FlattenSeq([i \in DOMAIN qs |-> Buckets(qs[i].quota, TRUE)])
      first == {i \in DOMAIN all : \A j \in 1..(i - 1) : Keys(all[j]) # Keys(all[i])}
  IN  [i \in DOMAIN SetToSortSeq(first, <) |-> BaseActions \o all[SetToSortSeq(first, <)[i]]]

(* What Envoy makes of the actions for a request with these headers (0, no   *)
(* header) that this backend served with this model: nothing, if any action  *)
(* gives nothing.                                                            *)
Holds(h, value) == value # "" /\ (value = h.value \/ (h.type = "RegularExpression" /\ h.value = ".*"))
Fires(a, req) ==
  CASE a.kind = "match" -> Holds(a.match, req.headers[a.match.name]) = a.expect
    [] a.kind = "header" -> req.headers[a.match.name] # ""
    [] OTHER -> TRUE
Entry(a, req) ==
  [key |-> a.key,
   value |-> CASE a.kind = "generic" -> a.value
               [] a.kind = "match" -> a.key
               [] a.kind = "header" -> <<req.headers[a.match.name]>>
               [] a.kind = "backend" -> <<req.backend>>
               [] a.kind = "model" -> <<req.model>>]
Descriptors(entries, req) ==
  LET sent == SelectSeq(entries, LAMBDA as : \A i \in DOMAIN as : Fires(as[i], req))
  IN  [i \in DOMAIN sent |-> [j \in DOMAIN sent[i] |-> Entry(sent[i][j], req)]]

-----------------------------------------------------------------------------
(* The expressions for the cost of a request, by backend and model: of the   *)
(* first policy in the list that has one.                                    *)
RouteModels(route) == {route[i].override : i \in DOMAIN route} \ {""}
CostExpressions(route, policies) ==
  LET those == SelectSeq(policies, LAMBDA p : Targets(route, p))
      Usable(q) == q.cost # "invalid" /\ (RouteModels(route) = {} \/ q.model \in RouteModels(route))
      Costs(p) == LET qs == SelectSeq(p.models, Usable)
                  IN  FlattenSeq([i \in DOMAIN qs |-> [t \in DOMAIN p.targets |->
                        [for |-> <<p.targets[t], qs[i].model>>, cost |-> qs[i].cost]]])
      all == FlattenSeq([i \in DOMAIN those |-> Costs(those[i])])
  IN  [bm \in {c.for : c \in Range(all)} |-> SelectSeq(all, LAMBDA c : c.for = bm)[1].cost]

=============================================================================
