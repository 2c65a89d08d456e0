------------------------ MODULE CircuitBreakerProofs ------------------------
(***************************************************************************)
(* The bound on the failure counter, and the reason for opening, for every *)
(* threshold, timeout and finite set of callers.  The counter grows while  *)
(* the breaker is open, once for each request let through earlier, so the  *)
(* inductive statement bounds the counter and the requests in flight       *)
(* together.                                                               *)
(***************************************************************************)
EXTENDS CircuitBreaker, FiniteSetTheorems, TLAPS

OpenBound ==
  state = "Open" =>
    consecutive_failures + Cardinality(inflight) <= failure_threshold + Cardinality(Callers)

(* While closed, the counter counts failures since the last success.       *)
StreakInv == state = "Closed" => consecutive_failures <= streak

IInv ==
  /\ BreakerTypeOK
  /\ state = "Closed" => consecutive_failures < failure_threshold \/ consecutive_failures = 0
  /\ state = "HalfOpen" => consecutive_failures = 0
  /\ OpenBound
  /\ StreakInv

-----------------------------------------------------------------------------
(* The requests in flight are at most the callers, and one report takes    *)
(* exactly one of them out.                                                *)
LEMMA InflightSize ==
  ASSUME BreakerTypeOK
  PROVE  /\ Cardinality(Callers) \in Nat
         /\ Cardinality(inflight) \in Nat
         /\ Cardinality(inflight) <= Cardinality(Callers)
         /\ \A c \in inflight : Cardinality(inflight \ {c}) = Cardinality(inflight) - 1
<1>1. IsFiniteSet(inflight) /\ Cardinality(inflight) <= Cardinality(Callers)
  BY CallersAssumption, FS_Subset DEF BreakerTypeOK
<1>2. Cardinality(Callers) \in Nat /\ Cardinality(inflight) \in Nat
  BY <1>1, CallersAssumption, FS_CardinalityType
<1>3. \A c \in inflight : Cardinality(inflight \ {c}) = Cardinality(inflight) - 1
  BY <1>1, FS_RemoveElement
<1> QED BY <1>1, <1>2, <1>3

LEMMA BreakerInitially == BreakerInit => IInv
  BY ConfigAssumption DEF BreakerInit, IInv, BreakerTypeOK, OpenBound, StreakInv

LEMMA BreakerStep == IInv /\ [BreakerNext]_breakerVars => IInv'
<1> SUFFICES ASSUME IInv, [BreakerNext]_breakerVars PROVE IInv'
  OBVIOUS
<1> USE ConfigAssumption DEF IInv, BreakerTypeOK
<1>1. CASE UNCHANGED breakerVars
  BY <1>1 DEF breakerVars, OpenBound, StreakInv
<1>2. CASE Tick
  BY <1>2 DEF Tick, OpenBound, StreakInv
<1>3. ASSUME NEW c \in Callers, allow(c) PROVE IInv'
  BY <1>3 DEF allow, OpenBound, StreakInv
<1>4. ASSUME NEW c \in Callers, record_success(c) PROVE IInv'
  BY <1>4 DEF record_success, Reported, OpenBound, StreakInv
<1>5. ASSUME NEW c \in Callers, record_failure(c) PROVE IInv'
  <2>1. /\ BreakerTypeOK' /\ StreakInv'
        /\ (state = "Closed" => consecutive_failures < failure_threshold \/ consecutive_failures = 0)'
        /\ (state = "HalfOpen" => consecutive_failures = 0)'
    BY <1>5 DEF record_failure, Reported, StreakInv
  <2>2. /\ Cardinality(inflight') = Cardinality(inflight) - 1
        /\ Cardinality(inflight) \in Nat /\ Cardinality(Callers) \in Nat
        /\ Cardinality(inflight) <= Cardinality(Callers)
    BY <1>5, InflightSize DEF record_failure, Reported
  <2>3. OpenBound'
    <3>1. CASE state = "Open"
      BY <1>5, <2>2, <3>1 DEF record_failure, OpenBound
    <3>2. CASE state # "Open"
      BY <1>5, <2>2, <3>2 DEF record_failure, OpenBound
    <3> QED BY <3>1, <3>2
  <2> QED BY <2>1, <2>3
<1>6. ASSUME NEW c \in Callers, Drop(c) PROVE IInv'
  <2>1. /\ Cardinality(inflight') = Cardinality(inflight) - 1
        /\ Cardinality(inflight) \in Nat /\ Cardinality(Callers) \in Nat
    BY <1>6, InflightSize DEF Drop, Reported
  <2> QED BY <1>6, <2>1 DEF Drop, Reported, OpenBound, StreakInv
<1> QED BY <1>1, <1>2, <1>3, <1>4, <1>5, <1>6 DEF BreakerNext, Finish

-----------------------------------------------------------------------------
(* The invariant holds in every reachable state.                           *)
THEOREM BreakerInvariance == BreakerSpec => []IInv
  BY BreakerInitially, BreakerStep, PTL DEF BreakerSpec

(* The u32 failure counter of record_failure stays within the threshold    *)
(* plus the number of concurrent callers.                                  *)
THEOREM CounterStaysBounded == BreakerSpec => []CounterBounded
<1>1. IInv => CounterBounded
  <2> SUFFICES ASSUME IInv PROVE CounterBounded
    OBVIOUS
  <2>1. Cardinality(inflight) \in Nat /\ Cardinality(Callers) \in Nat
    BY InflightSize DEF IInv
  <2> QED BY <2>1, ConfigAssumption DEF IInv, BreakerTypeOK, OpenBound, CounterBounded
<1> QED BY <1>1, BreakerInvariance, PTL

(* A closed breaker opens only on failure_threshold consecutive failures.  *)
THEOREM OpensOnlyOnThreshold == BreakerSpec => OpensOnConsecutiveFailures
<1>1. IInv /\ [BreakerNext]_breakerVars =>
        [state = "Closed" /\ state' = "Open" => streak' >= failure_threshold]_breakerVars
  <2> SUFFICES ASSUME IInv, BreakerNext, state = "Closed", state' = "Open"
               PROVE  streak' >= failure_threshold
    OBVIOUS
  <2>1. PICK c \in Callers : record_failure(c)
    BY DEF BreakerNext, Finish, Tick, allow, record_success, Drop
  <2> QED BY <2>1, ConfigAssumption DEF IInv, BreakerTypeOK, StreakInv, record_failure
<1> QED BY <1>1, BreakerInvariance, PTL DEF BreakerSpec, OpensOnConsecutiveFailures

=============================================================================
