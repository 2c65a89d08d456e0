---------------------------- MODULE MCConfigState ---------------------------
(* Six parts of the backend that share no state, one at a time: the        *)
(* resource tables of the control API, the snapshot consumer, and of the   *)
(* gateway the lookup of a route in a snapshot, the shared rate limiter,   *)
(* the token store and the semantic cache.  `part` says which one moves.   *)
EXTENDS ResourceTables, SnapshotConsumer, RouteMatch, RedisRateLimiter, TokenStore, SemanticCache, TLC

CONSTANTS t1, t2, i1, i2

VARIABLE part

(* Two rows, two names and two limits: enough for a unique key to clash and*)
(* for a burst to fall below a rate.  Limit 0 is the refused value.        *)
MCTables ==
  {"tenants", "upstreams", "regions", "ai_providers", "ai_model_policies",
   "rate_limit_policies", "wasm_plugins", "config_checkpoints"}
MCLimits == 0..2

(* Two tenants and two items of one value each.                            *)
MCTenants == {t1, t2}
MCItems == {i1, i2}

(* Every list of three routes over two upstreams: prefixes of two lengths, *)
(* one that does not match, and the longest one failing each filter.       *)
MCPath == <<"/", "a">>
MCHost == "h"
Entry(enabled, method, prefix, host, u) ==
  [enabled |-> enabled, method |-> method, path_prefix |-> prefix, host |-> host,
   upstream_id |-> u]
MCEntries ==
  {Entry(TRUE, "*", p, "", u) : p \in {<<"/">>, <<"/", "a">>, <<"/", "b">>}, u \in Upstreams}
    \union {Entry(TRUE, "GET", <<"/">>, "h", "u1"), Entry(FALSE, "*", MCPath, "", "u1"),
            Entry(TRUE, "POST", MCPath, "", "u1"), Entry(TRUE, "*", MCPath, "other", "u1")}
MCSnapshots == [1..3 -> MCEntries]
MCUpstreams == {"u1", "u2"}

(* Three checks in a window of three seconds and a limit of one, so that   *)
(* only the limit keeps a third instant out; tokens that live as long as   *)
(* the margin and longer, for two tasks; three threads and six insertions  *)
(* with a rebuild after every second.                                      *)
MCLifetimes == {2, 4}

MCSymmetry == Permutations(MCTenants) \union Permutations(MCItems)

(* The parts that do not move have one initial state.                      *)
ConfigStateInit ==
  /\ part \in {"tables", "snapshots", "lookup", "limiter", "tokens", "cache"}
  /\ TableInit /\ (part # "tables" => table = "tenants")
  /\ Init
  /\ part # "lookup" =>
       /\ routes = [k \in 1..3 |-> Entry(TRUE, "*", <<"/">>, "", "u1")]
       /\ upstreams = {} /\ checked = FALSE /\ healthy = {}
  /\ MatchInit
  /\ LimiterInit /\ TokenInit /\ CacheInit

gatewayVars == <<limiterVars, tokenVars, cacheVars>>

ConfigStateNext ==
  /\ UNCHANGED part
  /\ \/ /\ UNCHANGED gatewayVars
        /\ \/ part = "tables" /\ TableNext /\ UNCHANGED <<vars, matchVars>>
           \/ part = "snapshots" /\ Next /\ UNCHANGED <<tableVars, matchVars>>
           \/ part = "lookup" /\ MatchNext /\ UNCHANGED <<tableVars, vars>>
     \/ /\ UNCHANGED <<tableVars, vars, matchVars>>
        /\ \/ part = "limiter" /\ LimiterNext /\ UNCHANGED <<tokenVars, cacheVars>>
           \/ part = "tokens" /\ TokenNext /\ UNCHANGED <<limiterVars, cacheVars>>
           \/ part = "cache" /\ CacheNext /\ UNCHANGED <<limiterVars, tokenVars>>

ConfigStateSpec ==
  ConfigStateInit /\ [][ConfigStateNext]_<<part, tableVars, vars, matchVars, gatewayVars>>

=============================================================================
