--------------------------- MODULE MCOutboxWorker ---------------------------
(* The outbox relay on a small instance: two tenants with one payload each. *)
EXTENDS OutboxWorker, TLC

CONSTANTS t1, t2, w1, w2

MCPayloads == {"a", "b"}
MCTenantOf == ("a" :> t1) @@ ("b" :> t2)
TwoWorkers == {w1, w2}

=============================================================================
