-------------------------- MODULE MCAuditConsumer --------------------------
(* Five events against a batch of two: full batches, a partial one that the *)
(* ticker flushes, and batches mixing the kinds of event.                   *)
EXTENDS AuditConsumer

MCKinds == {"ok", "bad", "poison"}
MCGoodKinds == {"ok", "bad"}

=============================================================================
