-------------------------- MODULE RouteMatchProofs --------------------------
(***************************************************************************)
(* What find_route returns, for snapshots of any length and any number of  *)
(* upstreams whose health changes during the lookup.  The loop invariant   *)
(* is LongestWins for the routes already looked at.                        *)
(***************************************************************************)
EXTENDS RouteMatch, TLAPS

(* best is at least as good as route k.                                    *)
Covers(k) ==
  /\ best # 0
  /\ PrefixLen(best) >= PrefixLen(k)
  /\ PrefixLen(best) = PrefixLen(k) => best <= k

LoopInv ==
  \A k \in 1..(next - 1) :
    Candidate(k) /\ (checked => routes[k].upstream_id \in steady) => Covers(k)

IInv == MatchTypeOK /\ MatchIsUsable /\ LoopInv

-----------------------------------------------------------------------------
(* The indices of a snapshot, and the length of a prefix.                  *)
LEMMA SnapshotFacts ==
  ASSUME MatchTypeOK
  PROVE  /\ DOMAIN routes = 1..Len(routes) /\ Len(routes) \in Nat
         /\ \A k \in 1..Len(routes) : PrefixLen(k) \in Nat /\ routes[k].upstream_id \in Upstreams
  BY SnapshotsAssumption, SequencesAssumption DEF MatchTypeOK, PrefixLen

LEMMA MatchInitially == MatchInit => IInv
  BY SequencesAssumption DEF MatchInit, IInv, MatchTypeOK, MatchIsUsable, LoopInv

(* A turn of the loop keeps the invariant.                                 *)
LEMMA MatchStep == ASSUME IInv, Step PROVE IInv'
<1>1. /\ DOMAIN routes = 1..Len(routes) /\ Len(routes) \in Nat
      /\ \A k \in 1..Len(routes) : PrefixLen(k) \in Nat /\ routes[k].upstream_id \in Upstreams
  BY SnapshotFacts DEF IInv
<1>2. /\ next \in 1..Len(routes) /\ next' = next + 1
      /\ best \in 0..(next - 1) /\ best' \in {best, next}
      /\ UNCHANGED <<routes, upstreams, checked, healthy, steady, seen>>
  BY <1>1 DEF IInv, MatchTypeOK, Step
<1>3. MatchTypeOK'
  BY <1>1, <1>2 DEF IInv, MatchTypeOK
<1> DEFINE taken == Matches(routes[next]) /\ Better(next) /\ Usable(routes[next].upstream_id)
<1>4. (taken => best' = next) /\ (~taken => best' = best)
  BY DEF Step
<1>5. \A k : PrefixLen(k)' = PrefixLen(k) /\ Candidate(k)' = Candidate(k)
  BY <1>2 DEF PrefixLen, Candidate, Matches
<1>6. best_prefix_len \in Nat
  BY <1>1, <1>2 DEF best_prefix_len
<1>7. CASE taken
  <2>1. /\ PrefixLen(next) > best_prefix_len /\ best' = next
        /\ Candidate(next) /\ (checked => routes[next].upstream_id \in seen)
    BY <1>1, <1>2, <1>4, <1>6, <1>7 DEF Candidate, Better, Usable, IInv, MatchTypeOK
  <2>2. MatchIsUsable'
    BY <1>2, <1>5, <2>1 DEF MatchIsUsable
  <2>3. ASSUME NEW k \in 1..(next' - 1), Candidate(k), checked => routes[k].upstream_id \in steady
        PROVE  Covers(k)'
    <3>1. CASE k = next
      BY <1>1, <1>2, <1>5, <2>1, <3>1 DEF Covers
    <3>2. CASE k # next
      <4>1. k \in 1..(next - 1) /\ PrefixLen(k) \in Nat /\ PrefixLen(next) \in Nat
        BY <1>1, <1>2, <3>2
      <4>2. best # 0 /\ PrefixLen(best) >= PrefixLen(k)
        BY <2>3, <4>1 DEF IInv, LoopInv, Covers
      <4>3. PrefixLen(best) \in Nat /\ best_prefix_len = PrefixLen(best)
        BY <1>1, <1>2, <4>2 DEF best_prefix_len
      <4>4. PrefixLen(best)' = PrefixLen(next)
        BY <1>2, <2>1 DEF PrefixLen
      <4>5. PrefixLen(k)' = PrefixLen(k)
        BY <1>5
      <4> QED BY <1>2, <2>1, <4>1, <4>2, <4>3, <4>4, <4>5 DEF Covers
    <3> QED BY <3>1, <3>2
  <2>4. LoopInv'
    BY <1>2, <1>5, <2>3 DEF LoopInv
  <2> QED BY <1>3, <2>2, <2>4 DEF IInv
<1>8. CASE ~taken
  <2>1. best' = best
    BY <1>4, <1>8
  <2>2. MatchIsUsable'
    BY <1>2, <1>5, <2>1 DEF IInv, MatchIsUsable
  <2>3. ASSUME NEW k \in 1..(next' - 1), Candidate(k), checked => routes[k].upstream_id \in steady
        PROVE  Covers(k)'
    <3>1. Covers(k)
      <4>1. CASE k = next
        <5>1. PrefixLen(next) <= best_prefix_len
          <6>1. Matches(routes[next]) /\ Usable(routes[next].upstream_id)
            BY <2>3, <4>1 DEF Candidate, Usable, IInv, MatchTypeOK
          <6> QED BY <1>1, <1>2, <1>6, <1>8, <6>1 DEF Better
        <5>2. PrefixLen(next) > 0 /\ PrefixLen(next) \in Nat
          BY <1>1, <1>2, <2>3, <4>1 DEF Candidate
        <5>3. best # 0 /\ PrefixLen(best) \in Nat
          BY <1>1, <1>2, <5>1, <5>2 DEF best_prefix_len
        <5> QED BY <1>2, <4>1, <5>1, <5>2, <5>3 DEF Covers, best_prefix_len
      <4>2. CASE k # next
        BY <1>1, <1>2, <2>3, <4>2 DEF IInv, LoopInv
      <4> QED BY <4>1, <4>2
    <3> QED BY <1>2, <2>1, <3>1 DEF Covers, PrefixLen
  <2>4. LoopInv'
    BY <1>2, <1>5, <2>3 DEF LoopInv
  <2> QED BY <1>3, <2>2, <2>4 DEF IInv
<1> QED BY <1>7, <1>8

(* So does a probe result, which only takes upstreams out of steady.       *)
LEMMA ProbeStep == ASSUME IInv, NEW u \in Upstreams, NEW ok \in BOOLEAN, set(u, ok) PROVE IInv'
  BY SnapshotFacts DEF IInv, MatchTypeOK, MatchIsUsable, LoopInv, Covers, Candidate, Matches, PrefixLen, set

-----------------------------------------------------------------------------
(* The loop invariant holds throughout every lookup.                       *)
THEOREM MatchInvariance == MatchSpec => []IInv
<1>1. IInv /\ [MatchNext]_matchVars => IInv'
  <2> SUFFICES ASSUME IInv, [MatchNext]_matchVars PROVE IInv'
    OBVIOUS
  <2>1. CASE UNCHANGED matchVars
    BY <2>1 DEF matchVars, IInv, MatchTypeOK, MatchIsUsable, LoopInv, Covers, Candidate, Matches, PrefixLen
  <2>2. CASE MatchNext
    BY <2>2, MatchStep, ProbeStep DEF MatchNext
  <2> QED BY <2>1, <2>2
<1> QED BY <1>1, MatchInitially, PTL DEF MatchSpec

(* find_route returns the longest matching prefix among the routes whose   *)
(* upstream stays healthy, and the first of several.                       *)
THEOREM LongestPrefixWins == MatchSpec => []LongestWins
<1>1. IInv => LongestWins
  <2> SUFFICES ASSUME IInv, Done, NEW k \in DOMAIN routes,
                      Candidate(k), checked => routes[k].upstream_id \in steady
               PROVE  Covers(k)
    BY DEF LongestWins, Covers
  <2>1. k \in 1..(next - 1)
    BY SnapshotFacts DEF IInv, MatchTypeOK, Done
  <2> QED BY <2>1 DEF IInv, LoopInv
<1> QED BY <1>1, MatchInvariance, PTL

(* find_route returns only matching routes to upstreams that were healthy. *)
THEOREM MatchStaysUsable == MatchSpec => []MatchIsUsable
<1>1. IInv => MatchIsUsable
  BY DEF IInv
<1> QED BY <1>1, MatchInvariance, PTL

=============================================================================
