-------------------------- MODULE RedisRateLimiter --------------------------
(***************************************************************************)
(* crates/barqium-policy/src/redis_ratelimit.rs: the limiter that several  *)
(* gateways share through one sorted set of Redis, here for one key.       *)
(*                                                                         *)
(* A check reads the clock of its gateway and sends the script; Redis runs *)
(* scripts one at a time, in whatever order they arrive.  Member and score *)
(* are both the time read, so two checks of one instant are one member.    *)
(* Time is counted in seconds.                                             *)
(***************************************************************************)
EXTENDS Integers, FiniteSets

CONSTANTS
  Checks,       \* the calls of check_and_increment
  max_requests,
  window_secs,
  MaxDelay,     \* seconds from reading the clock to the end of the script
  MaxTime       \* bound: seconds that pass

(* The second that the key outlives its window by covers the delay.        *)
ASSUME LimiterAssumption ==
  /\ max_requests \in Nat
  /\ window_secs \in Nat \ {0}
  /\ MaxDelay \in 0..1
  /\ MaxTime \in Nat
  /\ IsFiniteSet(Checks)

VARIABLES
  clock,
  checks,   \* by check, [phase, now_us]
  members,  \* the sorted set
  expires,  \* when Redis drops the key
  latest,   \* the latest time a script has run with
  inOrder   \* no script has run after one with a later time

limiterVars == <<clock, checks, members, expires, latest, inOrder>>

ttl == window_secs + 1

LimiterInit ==
  /\ clock = 0
  /\ checks = [c \in Checks |-> [phase |-> "idle", now_us |-> 0]]
  /\ members = {}
  /\ expires = 0
  /\ latest = 0
  /\ inOrder = TRUE

-----------------------------------------------------------------------------
check_and_increment(c) ==
  /\ checks[c].phase = "idle"
  /\ checks' = [checks EXCEPT ![c] = [phase |-> "sent", now_us |-> clock]]
  /\ UNCHANGED <<clock, members, expires, latest, inOrder>>

(* ZREMRANGEBYSCORE, then ZCARD.                                           *)
Kept(now_us) == {m \in members : m > now_us - window_secs}

(* The script: the new member is added whatever the count was.             *)
Script(c) ==
  LET now == checks[c].now_us IN
  /\ members' = Kept(now) \cup {now}
  /\ expires' = clock + ttl
  /\ latest' = IF now > latest THEN now ELSE latest
  /\ inOrder' = (inOrder /\ now >= latest)

(* A slip: one more than the code lets through.                            *)
AnswerLate(c) ==
  IF Cardinality(Kept(checks[c].now_us)) > max_requests + 1 THEN "refused" ELSE "admitted"

(* The count is taken before the new member is added.                      *)
Answer(c) ==
  IF Cardinality(Kept(checks[c].now_us)) > max_requests THEN "refused" ELSE "admitted"

sliding_window_check(c) ==
  /\ checks[c].phase = "sent"
  /\ Script(c)
  /\ checks' = [checks EXCEPT ![c].phase = Answer(c)]
  /\ UNCHANGED clock

(* The connection fails, before the script has run or after.               *)
Disconnect(c) ==
  /\ checks[c].phase = "sent"
  /\ \/ UNCHANGED <<members, expires, latest, inOrder>>
     \/ Script(c)
  /\ checks' = [checks EXCEPT ![c].phase = "refused"]
  /\ UNCHANGED clock

(* Time passes, and Redis drops a key whose time is over.                  *)
Second ==
  /\ clock < MaxTime
  /\ \A c \in Checks : checks[c].phase = "sent" => clock < checks[c].now_us + MaxDelay
  /\ clock' = clock + 1
  /\ members' = IF clock' >= expires THEN {} ELSE members
  /\ UNCHANGED <<checks, expires, latest, inOrder>>

LimiterNext ==
  \/ \E c \in Checks : check_and_increment(c) \/ sliding_window_check(c) \/ Disconnect(c)
  \/ Second

LimiterSpec == LimiterInit /\ [][LimiterNext]_limiterVars

-----------------------------------------------------------------------------
(* The times in the window that ends at t when requests were let through.  *)
Admitted == {c \in Checks : checks[c].phase = "admitted"}
AdmittedIn(t) == {u \in {checks[c].now_us : c \in Admitted} : t - window_secs < u /\ u <= t}

(* "The sorted set approach gives an exact sliding window": as long as     *)
(* scripts arrive in the order of their clocks, no window of window_secs   *)
(* has more than max_requests + 1 instants with a request let through,     *)
(* though refused checks are recorded too and the key may expire.          *)
WindowIsExact ==
  inOrder => \A c \in Admitted : Cardinality(AdmittedIn(checks[c].now_us)) <= max_requests + 1

(* "Maximum number of requests allowed in `window_secs`"                   *)
(* (redis_ratelimit.rs:10).                                                *)
AtMostMaxRequests ==
  inOrder => \A c \in Admitted : Cardinality(AdmittedIn(checks[c].now_us)) <= max_requests

=============================================================================
