----------------------------- MODULE TokenStore -----------------------------
(***************************************************************************)
(* crates/barqium-mcp/src/oauth.rs: the cached access token of one MCP     *)
(* server and the tasks that ask for it at the same time.                  *)
(*                                                                         *)
(* The authorisation server counts the life of a token from when it issues *)
(* it, the store from when the answer arrives.                             *)
(***************************************************************************)
EXTENDS Integers

CONSTANTS
  Tasks,     \* concurrent callers of token
  Lifetimes, \* the values of expires_in
  Margin,    \* seconds a token counts as expired early; 30 in the code
  MaxAge     \* bound: seconds that pass

ASSUME TokenAssumption ==
  /\ Lifetimes \subseteq Nat
  /\ Margin \in Nat
  /\ MaxAge \in Nat

VARIABLES
  instant,  \* the time
  cached,   \* [expires_at, dies] of the token in the map, or NoToken
  tasks,    \* by task, [phase, expires_in, issued, token]
  returned  \* the token last returned from the cache, and when

tokenVars == <<instant, cached, tasks, returned>>

(* dies is when the authorisation server stops taking the token.           *)
NoToken == [expires_at |-> 0, dies |-> 0]
AtRest == [phase |-> "idle", expires_in |-> 0, issued |-> 0, token |-> NoToken]

TokenInit ==
  /\ instant = 0
  /\ cached = NoToken
  /\ tasks = [t \in Tasks |-> AtRest]
  /\ returned = [at |-> 0, dies |-> 1]

-----------------------------------------------------------------------------
(* A slip: the margin is left out.                                         *)
is_valid_to_the_end(token) == instant < token.expires_at

(* checked_sub fails only in the first seconds after boot, which are left  *)
(* out.                                                                    *)
is_valid(token) == instant < token.expires_at - Margin

(* The fast path of token.                                                 *)
TokenFromCache(t) ==
  /\ tasks[t].phase = "idle"
  /\ is_valid(cached)
  /\ returned' = [at |-> instant, dies |-> cached.dies]
  /\ UNCHANGED <<instant, cached, tasks>>

(* The slow path: several tasks may be on it.                              *)
client_credentials(t) ==
  /\ tasks[t].phase = "idle"
  /\ ~ is_valid(cached)
  /\ tasks' = [tasks EXCEPT ![t].phase = "asked"]
  /\ UNCHANGED <<instant, cached, returned>>

Issue(t, expires_in) ==
  /\ tasks[t].phase = "asked"
  /\ tasks' = [tasks EXCEPT ![t] = [phase |-> "issued", expires_in |-> expires_in, issued |-> instant, token |-> NoToken]]
  /\ UNCHANGED <<instant, cached, returned>>

(* An error of the transport or of the server: token returns it.           *)
RequestFailed(t) ==
  /\ tasks[t].phase \in {"asked", "issued"}
  /\ tasks' = [tasks EXCEPT ![t] = AtRest]
  /\ UNCHANGED <<instant, cached, returned>>

(* The answer arrives and expires_at is taken from the clock.              *)
Acquire(t) ==
  LET token == [expires_at |-> instant + tasks[t].expires_in, dies |-> tasks[t].issued + tasks[t].expires_in] IN
  /\ tasks[t].phase = "issued"
  /\ tasks' = [tasks EXCEPT ![t] = [phase |-> "acquired", expires_in |-> 0, issued |-> 0, token |-> token]]
  /\ UNCHANGED <<instant, cached, returned>>

(* Under the write lock, whatever is in the map by now.                    *)
insert(t) ==
  /\ tasks[t].phase = "acquired"
  /\ cached' = tasks[t].token
  /\ tasks' = [tasks EXCEPT ![t] = AtRest]
  /\ UNCHANGED <<instant, returned>>

(* An answer is never older than the margin when it arrives.               *)
Instant ==
  /\ instant < MaxAge
  /\ \A t \in Tasks : tasks[t].phase = "issued" => instant < tasks[t].issued + Margin
  /\ instant' = instant + 1
  /\ UNCHANGED <<cached, tasks, returned>>

TokenNext ==
  \/ \E t \in Tasks : \/ TokenFromCache(t) \/ client_credentials(t) \/ RequestFailed(t)
                      \/ Acquire(t) \/ insert(t)
                      \/ \E e \in Lifetimes : Issue(t, e)
  \/ Instant

TokenSpec == TokenInit /\ [][TokenNext]_tokenVars

-----------------------------------------------------------------------------
(* "Treat tokens as expired 30s early to avoid race conditions": a token   *)
(* returned from the cache is still alive at the server, however the       *)
(* refreshes of several tasks interleave and whichever of their tokens was *)
(* kept, as long as answers take no longer than the margin (oauth.rs:38).  *)
CachedTokenAlive == returned.at < returned.dies

=============================================================================
