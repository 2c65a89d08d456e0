---------------------------- MODULE MCAdminPages ----------------------------
(* Every page of the UI; two tenants, the first with a row, and one row of *)
(* the pages that have no tenant.                                          *)
EXTENDS AdminPages

MCItems == 1..2
MCTenantOf == [i \in MCItems |-> IF i = 1 THEN "a" ELSE "none"]
MCTenants == {"a", "b"}
MCPages == Kinds
MCMaxInFlight == [k \in MCPages |-> IF k = "checkpoints" THEN 2 ELSE 1]
MCOffered == [k \in MCPages |-> IF k = "rateLimits" THEN MCTenants ELSE {"a", "none"}]
MCEndpoints == Router \cup ClientCalls

=============================================================================
