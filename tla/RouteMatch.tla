----------------------------- MODULE RouteMatch -----------------------------
(***************************************************************************)
(* crates/barqium-core: find_route of snapshot.rs, looking for the route   *)
(* of one request, while the HealthChecker of upstream_health.rs records   *)
(* probe results.  The snapshot cannot change during the lookup, but the   *)
(* health of an upstream is read anew for every route, so it may differ    *)
(* between two routes of one lookup.                                       *)
(*                                                                         *)
(* A path is a sequence of characters.                                     *)
(***************************************************************************)
EXTENDS Naturals, Sequences

CONSTANTS
  Snapshots,              \* the route lists a lookup may meet
  Upstreams,
  Method, Path, Host      \* the request

ASSUME SnapshotsAssumption == \A s \in Snapshots : \A k \in DOMAIN s :
  /\ s[k].path_prefix \in Seq(STRING) /\ s[k].upstream_id \in Upstreams
ASSUME SequencesAssumption == \A s \in Snapshots : DOMAIN s = 1..Len(s) /\ Len(s) \in Nat

VARIABLES
  routes,     \* the snapshot's routes
  upstreams,  \* the snapshot's upstreams, the enabled ones
  checked,    \* whether the caller passes the health registry
  healthy,    \* the upstreams the registry has as healthy
  next,       \* index of the route find_route looks at next
  best,       \* index of the best route so far, 0 when there is none
  steady,     \* upstreams that have been healthy since the lookup began
  seen        \* upstreams that have been healthy at some time since then

matchVars == <<routes, upstreams, checked, healthy, next, best, steady, seen>>

MatchTypeOK ==
  /\ routes \in Snapshots
  /\ upstreams \subseteq Upstreams /\ checked \in BOOLEAN
  /\ healthy \subseteq Upstreams
  /\ steady \subseteq healthy /\ healthy \subseteq seen /\ seen \subseteq Upstreams
  /\ next \in 1..(Len(routes) + 1)
  /\ best \in 0..(next - 1)

(* An upstream with no entry in the registry counts as healthy.            *)
MatchInit ==
  /\ routes \in Snapshots
  /\ upstreams \in SUBSET Upstreams /\ checked \in BOOLEAN
  /\ healthy \in SUBSET Upstreams /\ steady = healthy /\ seen = healthy
  /\ next = 1 /\ best = 0

-----------------------------------------------------------------------------
StartsWith(path, prefix) ==
  Len(prefix) <= Len(path) /\ SubSeq(path, 1, Len(prefix)) = prefix

(* The filters find_route applies to the route itself.                     *)
Matches(route) ==
  /\ route.enabled
  /\ route.method \in {"*", Method}
  /\ StartsWith(Path, route.path_prefix)
  /\ route.host \in {"", Host}

PrefixLen(k) == Len(routes[k].path_prefix)
best_prefix_len == IF best = 0 THEN 0 ELSE PrefixLen(best)

(* A slip: a later route of the same length replaces the earlier one.      *)
BetterOrEqual(k) == PrefixLen(k) >= best_prefix_len

Better(k) == PrefixLen(k) > best_prefix_len

(* A slip: the registry is not consulted.                                  *)
UsableUnchecked(u) == u \in upstreams

(* The upstream may be used: not unhealthy, present and enabled.           *)
Usable(u) == (checked => u \in healthy) /\ u \in upstreams

(* One turn of the loop.                                                   *)
Step ==
  /\ next <= Len(routes)
  /\ best' = IF Matches(routes[next]) /\ Better(next) /\ Usable(routes[next].upstream_id)
             THEN next ELSE best
  /\ next' = next + 1
  /\ UNCHANGED <<routes, upstreams, checked, healthy, steady, seen>>

(* The health checker has probed u and sets its entry.                     *)
set(u, ok) ==
  /\ next <= Len(routes)
  /\ healthy' = IF ok THEN healthy \union {u} ELSE healthy \ {u}
  /\ steady' = steady \cap healthy'
  /\ seen' = seen \union healthy'
  /\ UNCHANGED <<routes, upstreams, checked, next, best>>

MatchNext == Step \/ \E u \in Upstreams, ok \in BOOLEAN : set(u, ok)

MatchSpec == MatchInit /\ [][MatchNext]_matchVars

-----------------------------------------------------------------------------
Done == next > Len(routes)

(* The routes that find_route could return, by its own description; an     *)
(* empty prefix is refused by the control API.                             *)
Candidate(k) ==
  /\ Matches(routes[k]) /\ PrefixLen(k) > 0
  /\ routes[k].upstream_id \in upstreams

(* "Priority: longest path_prefix wins." (snapshot.rs:68): no route whose  *)
(* upstream is healthy throughout the lookup is passed over for a shorter  *)
(* one, for a later one as long, or for none, whatever the prober records  *)
(* meanwhile.                                                              *)
LongestWins ==
  Done => \A k \in DOMAIN routes :
    Candidate(k) /\ (checked => routes[k].upstream_id \in steady) =>
      /\ best # 0
      /\ PrefixLen(best) >= PrefixLen(k)
      /\ PrefixLen(best) = PrefixLen(k) => best <= k

(* "Upstreams whose health state is `false` in `health` are skipped."      *)
(* (snapshot.rs:41): the route returned matches the request, and its       *)
(* upstream is in the snapshot, enabled, and was not unhealthy throughout. *)
MatchIsUsable ==
  best # 0 => Candidate(best) /\ (checked => routes[best].upstream_id \in seen)

=============================================================================
