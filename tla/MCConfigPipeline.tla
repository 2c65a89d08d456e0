-------------------------- MODULE MCConfigPipeline --------------------------
(* The pipeline with one or two tenants, two items and one or two replicas. *)
EXTENDS ConfigPipeline

CONSTANTS t1, t2, i1, i2, v, w1, w2

MCPayloads ==
  [form : {"event"}, tenant : Tenants, sequence : 1 .. MaxRows,
   item : Items, entry : Entries \union {NoEntry}]
MCTenantOf == [p \in MCPayloads |-> p.tenant]

=============================================================================
