----------------------------- MODULE MCDelivery -----------------------------
(***************************************************************************)
(* What the controller delivers to the data plane, in parts that share      *)
(* nothing: the configuration of an external processor, in parts and with   *)
(* an index; and the limits, rate limit actions and costs of QuotaPolicies. *)
(* A behaviour shows one of them; the variables of the other do not change. *)
(***************************************************************************)
EXTENDS ConfigBundle, SequencesExt

CONSTANTS Show, QuotaSpecs, MaxQuotaChanges

VARIABLES part, chosen, writtenRoute, quotas, present, pending, pushing, configCache, started, snapshot,
          due, translated, injected, changes

limiting == <<chosen, writtenRoute, quotas, present, pending, pushing, configCache, started, snapshot,
              due, translated, injected, changes>>

(***************************************************************************)
(* Payloads of the bundle: the bytes a and b stand for routes and backends, *)
(* the last one for the UUID.                                               *)
(***************************************************************************)
MCByte == {"a", "b", "u1", "u2", "u3", "u4"}
MCVersions == 1..4

(* Parts of two bytes and three slots: two parts, three (the first one as   *)
(* before), one more than there are slots, and two again, so that slots are *)
(* added, kept, rewritten and deleted, and a configuration is refused.      *)
MCRaw == << <<"a", "a", "b", "u1">>,
            <<"a", "a", "b", "b", "u2">>,
            <<"a", "a", "a", "a", "b", "b", "u3">>,
            <<"a", "b", "u4">> >>

(* The receiver never accepts the second version.                           *)
MCAccepted == {1, 3, 4}

(***************************************************************************)
(* Quota policies.                                                          *)
(***************************************************************************)
Selector(n, type, value, invert) == [name |-> n, type |-> type, value |-> value, invert |-> invert]
Limit(selectors, limit) == [selectors |-> selectors, limit |-> limit, shadow |-> FALSE]
ForModel(m, rules, default, cost) == [model |-> m, rules |-> rules, default |-> default, cost |-> cost]
Policy(targets, models, service) == [targets |-> targets, models |-> models, service |-> service]

Client == Selector(1, "Exact", "v", FALSE)
AnyOther == Selector(2, "RegularExpression", ".*", FALSE)

(* Policies that meet: plain, with rules of one and two headers (given in    *)
(* both orders), with an inverted one, with a catch-all, for two models, for *)
(* two backends and for one that a route may not have.                       *)
Exact ==
  { Policy(<<"b1">>, <<ForModel("m1", <<>>, 1, "c1")>>, 8),
    Policy(<<"b1">>, <<ForModel("m1", <<Limit(<<<<Client>>>>, 2)>>, 3, "c2")>>, 9),
    Policy(<<"b2">>, <<ForModel("m1", <<Limit(<<<<Selector(1, "Exact", "v", TRUE)>>>>, 2)>>, 3, "c4")>>, 0),
    Policy(<<"b2", "b1">>, <<ForModel("m1", <<Limit(<<<<AnyOther>>, <<Client>>>>, 4), Limit(<<>>, 5)>>, 6, "c3"),
                        ForModel("m2", <<>>, 7, "c3")>>, 0) }

Refs == { << [backend |-> "b1", override |-> "m1"], [backend |-> "b2", override |-> "m2"] >>,
          << [backend |-> "b1", override |-> ""] >> }

PerClient == { Policy(<<"b1">>, <<ForModel("m1", <<Limit(<<<<Selector(1, "Distinct", "", FALSE)>>>>, 2)>>, 3, "c1")>>, 0),
               Policy(<<"b1">>, <<ForModel("m1", <<Limit(<<<<Selector(1, "Exact", "v", TRUE)>>>>, 2)>>, 3, "c1")>>, 0) }

Limits == INSTANCE Quota WITH
            Policies <- {1, 2}, Backends <- {"b1", "b2"}, Specs <- QuotaSpecs, Routes <- Refs,
            HeaderValues <- {"v", "w"}, MaxChanges <- MaxQuotaChanges,
            route <- chosen, httpRoute <- writtenRoute, policies <- quotas, backends <- present,
            queue <- pending, job <- pushing, cache <- configCache

(* No change is left and all have been dealt with.                          *)
QuotaEnds == changes = MaxQuotaChanges /\ Limits!AtRest /\ UNCHANGED limiting

MCInit ==
  /\ part \in Show
  /\ BundleInit
  /\ Limits!Init /\ (part # "quota" => chosen = CHOOSE r \in Refs : TRUE)

MCNext ==
  \/ part = "bundle" /\ BundleNext /\ UNCHANGED <<part, limiting>>
  \/ part = "quota" /\ (Limits!Next \/ QuotaEnds) /\ UNCHANGED <<part, bundleVars>>

(* Fairness as in ConfigBundle.                                             *)
MCSpec ==
  /\ MCInit /\ [][MCNext]_<<part, bundleVars, limiting>>
  /\ WF_bundleVars(part = "bundle" /\ Controller) /\ WF_bundleVars(part = "bundle" /\ KubeletSyncIndex)
  /\ \A s \in PartSlots : WF_bundleVars(part = "bundle" /\ KubeletSyncPart(s))
  /\ WF_bundleVars(part = "bundle" /\ Watcher) /\ SF_bundleVars(part = "bundle" /\ LoadConfig)

\* Integrity.  Whatever mixture of old, new and missing files the watcher reads,
\* the receiver only ever runs with the exact bytes of one configuration that the
\* controller finished publishing (loadConfig, ReassembleBundleConfig).
LoadedWhole == loaded # NoBytes => \E v \in published : FlattenSeq(loaded) = Raw[v]

\* The rate limit server's snapshot, at rest, is made of the live policies
\* (SnapshotIsCurrent of Quota: syncQuotaPolicy, UpdateConfigs).
SnapshotIsCurrent == part = "quota" => Limits!SnapshotIsCurrent

\* What Envoy checks of a request has a limit (ChecksAreLimited of Quota:
\* enableQuotaRateLimitOnRoute, BuildRateLimitConfigs).
ChecksAreLimited == part = "quota" => Limits!ChecksAreLimited

\* What is checked is charged (ChargesMeetChecks of Quota: enableQuotaRateLimitOnRoute,
\* injectQuotaPolicyCostExpressions).
ChargesMeetChecks == part = "quota" => Limits!ChargesMeetChecks

\* Every client's quota is charged where it is checked (ChargedWhereChecked of Quota).
ChargedWhereChecked == part = "quota" => Limits!ChargedWhereChecked

\* A changed policy gets to Envoy (PolicyReachesEnvoy of Quota:
\* notifyAIGatewayRoutes).
PolicyReachesEnvoy == part = "quota" => Limits!PolicyReachesEnvoy
=============================================================================
