-------------------------- MODULE MCResourceTables --------------------------
(* Two rows, two names and two limits: enough for a unique key to clash and *)
(* for a burst to fall below a rate.  Limit 0 is the refused value.         *)
EXTENDS ResourceTables, TLC

MCTables ==
  {"tenants", "upstreams", "regions", "ai_providers", "ai_model_policies",
   "rate_limit_policies", "wasm_plugins", "config_checkpoints"}
MCLimits == 0..2
MCTenants == {"tenants"}
MCSymmetry ==
  Permutations(Ids) \union Permutations(Requests)
    \union Permutations(Names) \union Permutations(Urls)

=============================================================================
