------------------------- MODULE MCSnapshotConsumer -------------------------
(* The snapshot consumer with two tenants and two items of one value each.  *)
EXTENDS SnapshotConsumer, TLC

CONSTANTS t1, t2, i1, i2

MCTenants == {t1, t2}
MCItems == {i1, i2}
MCSymmetry == Permutations(MCTenants) \union Permutations(MCItems)

=============================================================================
