--------------------------- MODULE CircuitBreaker ---------------------------
(***************************************************************************)
(* crates/barqium-core/src/circuit_breaker.rs: the breaker of one upstream *)
(* and the requests that use it.  A request calls allow, and if it is let  *)
(* through it later reports success or failure, or is dropped and reports  *)
(* nothing.  Each call holds the shard lock of the map, so it is atomic;   *)
(* the requests overlap freely between their two calls.                    *)
(*                                                                         *)
(* opened_at is kept as the time elapsed since then, counted in ticks and  *)
(* no further than reset_timeout, which is all that allow compares.        *)
(***************************************************************************)
EXTENDS Naturals, FiniteSets

CONSTANTS Callers, failure_threshold, reset_timeout

ASSUME ConfigAssumption == failure_threshold \in Nat /\ reset_timeout \in Nat
ASSUME CallersAssumption == IsFiniteSet(Callers)

VARIABLES
  state,                \* "Closed", "Open" or "HalfOpen"
  consecutive_failures,
  elapsed,              \* ticks since opened_at, at most reset_timeout
  inflight,             \* callers let through that have not reported yet
  streak                \* failures reported since the last success, up to the threshold

breakerVars == <<state, consecutive_failures, elapsed, inflight, streak>>

BreakerTypeOK ==
  /\ state \in {"Closed", "Open", "HalfOpen"}
  /\ consecutive_failures \in Nat /\ streak \in 0..failure_threshold
  /\ elapsed \in 0..reset_timeout
  /\ inflight \subseteq Callers

BreakerInit ==
  /\ state = "Closed"
  /\ consecutive_failures = 0 /\ streak = 0
  /\ elapsed = 0
  /\ inflight = {}

-----------------------------------------------------------------------------
(* A slip: a rejected request restarts the reset timeout.                  *)
allowRearming(c) ==
  /\ c \notin inflight
  /\ \/ /\ state = "Open" /\ elapsed < reset_timeout
        /\ elapsed' = 0
        /\ UNCHANGED <<state, consecutive_failures, inflight>>
     \/ /\ state = "Open" => elapsed >= reset_timeout
        /\ state' = IF state = "Open" THEN "HalfOpen" ELSE state
        /\ consecutive_failures' = IF state = "Open" THEN 0 ELSE consecutive_failures
        /\ inflight' = inflight \union {c}
        /\ UNCHANGED elapsed
  /\ UNCHANGED streak

(* allow returning true; returning false changes nothing.                  *)
allow(c) ==
  /\ c \notin inflight
  /\ \/ /\ state \in {"Closed", "HalfOpen"}
        /\ UNCHANGED <<state, consecutive_failures>>
     \/ /\ state = "Open" /\ elapsed >= reset_timeout
        /\ state' = "HalfOpen"
        /\ consecutive_failures' = 0
  /\ inflight' = inflight \union {c}
  /\ UNCHANGED <<elapsed, streak>>

(* The request leaves the breaker's care.                                  *)
Reported(c) ==
  /\ c \in inflight
  /\ inflight' = inflight \ {c}

(* A slip: the count survives a success.                                   *)
record_success_keeping_count(c) ==
  /\ Reported(c)
  /\ state' = "Closed"
  /\ streak' = 0
  /\ UNCHANGED <<elapsed, consecutive_failures>>

record_success(c) ==
  /\ Reported(c)
  /\ state' = "Closed"
  /\ consecutive_failures' = 0
  /\ streak' = 0
  /\ UNCHANGED elapsed

record_failure(c) ==
  /\ Reported(c)
  /\ consecutive_failures' = consecutive_failures + 1
  /\ streak' = IF streak < failure_threshold THEN streak + 1 ELSE streak
  /\ IF state = "HalfOpen" \/ consecutive_failures' >= failure_threshold
     THEN state' = "Open" /\ elapsed' = 0
     ELSE UNCHANGED <<state, elapsed>>

(* The caller goes away without reporting.                                 *)
Drop(c) == Reported(c) /\ UNCHANGED <<state, consecutive_failures, elapsed, streak>>

Tick ==
  /\ elapsed < reset_timeout
  /\ elapsed' = elapsed + 1
  /\ UNCHANGED <<state, consecutive_failures, inflight, streak>>

Finish(c) == record_success(c) \/ record_failure(c) \/ Drop(c)

BreakerNext == Tick \/ \E c \in Callers : allow(c) \/ Finish(c)

BreakerSpec == BreakerInit /\ [][BreakerNext]_breakerVars

(* Time passes, requests end (they have timeouts) and new ones keep coming.*)
BreakerFairSpec ==
  BreakerSpec /\ WF_breakerVars(Tick) /\ \A c \in Callers : WF_breakerVars(allow(c)) /\ WF_breakerVars(Finish(c))

-----------------------------------------------------------------------------
(* Requests in flight when the breaker opens keep reporting failures into  *)
(* it (circuit_breaker.rs:242), yet the u32 counter stays below the        *)
(* threshold while closed, is zero half-open, and never exceeds the        *)
(* threshold by as many as there are callers.                              *)
CounterBounded ==
  /\ state = "Closed" => consecutive_failures < failure_threshold \/ consecutive_failures = 0
  /\ state = "HalfOpen" => consecutive_failures = 0
  /\ consecutive_failures <= failure_threshold + Cardinality(Callers)

(* "On failure_threshold consecutive failures the breaker opens": a closed *)
(* breaker opens only after that many reports of failure with no success   *)
(* between them, whatever the order in which requests end.                 *)
OpensOnConsecutiveFailures ==
  [][state = "Closed" /\ state' = "Open" => streak' >= failure_threshold]_breakerVars

(* The breaker never rejects for ever: probes that are dropped, and late   *)
(* failures that restart the timeout, only delay the next admission.       *)
Recovers == state = "Open" ~> state # "Open"

=============================================================================
