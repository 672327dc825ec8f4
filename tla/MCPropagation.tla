---------------------------- MODULE MCPropagation ----------------------------
(* Small clusters for TLC: a chain of controllers each, with the gateway.    *)
EXTENDS Propagation

Cluster(kinds, ref, deleted, trouble) ==
  [kinds |-> kinds \cup {"Gateway"}, ref |-> ref, deleted |-> deleted, trouble |-> trouble]

Chains ==
  { Cluster({"Secret", "BSP", "Backend", "Route"}, "Backend", {}, {"fault"}),
    Cluster({"QuotaPolicy", "Backend", "Route"}, "Backend", {}, {"fault"}),
    Cluster({"ReferenceGrant", "Backend", "Route"}, "Backend", {}, {"fault"}),
    Cluster({"Backend", "Route"}, "Backend", {"Route"}, {"fault"}),
    Cluster({"Pool", "Route"}, "Pool", {"Route"}, {"restart"}),
    Cluster({"Secret", "MCPRoute"}, "Backend", {"MCPRoute"}, {"fault", "restart"}),
    Cluster({"GatewayConfig"}, "Backend", {}, {"fault", "restart"}) }

(* Routes whose announcement of a deletion may fail, and the policy of a     *)
(* backend, which the Gateway may be reconciled with while it goes.          *)
Deletions ==
  { Cluster({"Backend", "Route"}, "Backend", {"Route"}, {"fault"}),
    Cluster({"Secret", "BSP", "Backend", "Route"}, "Backend", {"BSP"}, {}) }
=============================================================================
