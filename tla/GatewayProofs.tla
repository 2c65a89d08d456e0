---------------------------- MODULE GatewayProofs ---------------------------
(***************************************************************************)
(* What concurrent requests of a gateway may rely on in the state they     *)
(* share, for any number of them: the tokens of TokenStore, the index of   *)
(* SemanticCache, the lines of StdioMcpClient, the window of               *)
(* RedisRateLimiter.  The four modules share no variable; each has an      *)
(* inductive invariant and a theorem of its own.                           *)
(***************************************************************************)
EXTENDS RedisRateLimiter, TokenStore, SemanticCache, StdioMcpClient, FiniteSetTheorems, TLAPS

-----------------------------------------------------------------------------
(* The store believes in a token for at most the margin longer than the    *)
(* server does, wherever the token is.                                     *)
Trusted(token) == token.expires_at - Margin <= token.dies

Tokens == [expires_at : Nat, dies : Nat]
TaskStates ==
  [phase : {"idle", "asked", "issued", "acquired"}, expires_in : Nat, issued : Nat, token : Tokens]

TokenInv ==
  /\ instant \in Nat
  /\ cached \in Tokens
  /\ tasks \in [Tasks -> TaskStates]
  /\ Trusted(cached)
  /\ \A t \in Tasks : Trusted(tasks[t].token)
  /\ \A t \in Tasks : tasks[t].phase = "issued" => tasks[t].issued <= instant /\ instant <= tasks[t].issued + Margin
  /\ CachedTokenAlive

LEMMA TokenInitially == TokenInit => TokenInv
  BY TokenAssumption DEF TokenInit, TokenInv, Tokens, TaskStates, Trusted, NoToken, AtRest, CachedTokenAlive

LEMMA TokenStep == TokenInv /\ [TokenNext]_tokenVars => TokenInv'
<1> SUFFICES ASSUME TokenInv, [TokenNext]_tokenVars PROVE TokenInv'
  OBVIOUS
<1> USE TokenAssumption DEF TokenInv, Tokens, TaskStates, Trusted
<1>1. ASSUME NEW t \in Tasks, TokenFromCache(t) PROVE TokenInv'
  BY <1>1 DEF TokenFromCache, is_valid, CachedTokenAlive
<1>2. ASSUME NEW t \in Tasks, client_credentials(t) PROVE TokenInv'
  BY <1>2 DEF client_credentials, CachedTokenAlive
<1>3. ASSUME NEW t \in Tasks, RequestFailed(t) PROVE TokenInv'
  BY <1>3 DEF RequestFailed, AtRest, NoToken, CachedTokenAlive
<1>4. ASSUME NEW t \in Tasks, Acquire(t) PROVE TokenInv'
  <2> DEFINE token == [expires_at |-> instant + tasks[t].expires_in, dies |-> tasks[t].issued + tasks[t].expires_in]
  <2>1. token \in Tokens /\ Trusted(token)
    BY <1>4 DEF Acquire
  <2>2. tasks' = [tasks EXCEPT ![t] = [phase |-> "acquired", expires_in |-> 0, issued |-> 0, token |-> token]]
    BY <1>4 DEF Acquire
  <2> HIDE DEF token
  <2>3. tasks' \in [Tasks -> TaskStates] /\ \A u \in Tasks : Trusted(tasks'[u].token)
    BY <2>1, <2>2
  <2> QED BY <1>4, <2>2, <2>3 DEF Acquire, CachedTokenAlive
<1>5. ASSUME NEW t \in Tasks, insert(t) PROVE TokenInv'
  BY <1>5 DEF insert, AtRest, NoToken, CachedTokenAlive
<1>6. ASSUME NEW t \in Tasks, NEW e \in Lifetimes, Issue(t, e) PROVE TokenInv'
  <2>1. tasks' = [tasks EXCEPT ![t] = [phase |-> "issued", expires_in |-> e, issued |-> instant, token |-> NoToken]]
    BY <1>6 DEF Issue
  <2>2. NoToken \in Tokens /\ Trusted(NoToken)
    BY DEF NoToken
  <2>3. tasks' \in [Tasks -> TaskStates] /\ \A u \in Tasks : Trusted(tasks'[u].token)
    BY <2>1, <2>2
  <2>4. UNCHANGED <<instant, cached, returned>>
    BY <1>6 DEF Issue
  <2> QED BY <2>1, <2>3, <2>4 DEF CachedTokenAlive
<1>7. CASE Instant
  BY <1>7 DEF Instant, CachedTokenAlive
<1>8. CASE UNCHANGED tokenVars
  BY <1>8 DEF tokenVars, CachedTokenAlive
<1> QED BY <1>1, <1>2, <1>3, <1>4, <1>5, <1>6, <1>7, <1>8 DEF TokenNext

(* A token returned from the cache is alive at the server, for every       *)
(* margin, every lifetime and any number of tasks that refresh at once.    *)
THEOREM TokensAlive == TokenSpec => []CachedTokenAlive
<1>1. TokenInv => CachedTokenAlive
  BY DEF TokenInv
<1> QED BY <1>1, TokenInitially, TokenStep, PTL DEF TokenSpec

-----------------------------------------------------------------------------
(* Insertions that are in the vector and not yet counted.                  *)
Pushed == {i \in Inserters : inserters[i].phase = "pushed"}

(* Entries beyond an index of n points are counted, or about to be.        *)
Pending(n) == entries <= n + inserts_since_rebuild + Cardinality(Pushed)

CacheInv ==
  /\ entries \in Nat /\ inserts_since_rebuild \in Nat /\ index \in Nat /\ overlapped \in BOOLEAN
  /\ inserters \in [Inserters -> [phase : {"idle", "pushed", "collect", "build"}, points : Nat]]
  /\ IsFiniteSet(Pushed)
  /\ inserts_since_rebuild = 0 \/ inserts_since_rebuild < rebuild_every
  /\ index <= entries
  /\ \A i \in Inserters : inserters[i].points <= entries
  /\ ~ overlapped =>
       /\ \A i, j \in Inserters : Rebuilding(i) /\ Rebuilding(j) => i = j
       /\ \A i \in Inserters : inserters[i].phase = "build" => Pending(inserters[i].points)
       /\ (\A i \in Inserters : ~ Rebuilding(i)) => Pending(index)

LEMMA CacheInitially == CacheInit => CacheInv
<1> SUFFICES ASSUME CacheInit PROVE CacheInv
  OBVIOUS
<1>1. Pushed = {}
  BY DEF CacheInit, Pushed
<1>2. IsFiniteSet(Pushed) /\ Cardinality(Pushed) = 0
  BY <1>1, FS_EmptySet
<1>3. \A i \in Inserters : inserters[i].phase = "idle" /\ inserters[i].points = 0
  BY DEF CacheInit
<1>4. inserters \in [Inserters -> [phase : {"idle", "pushed", "collect", "build"}, points : Nat]]
  BY DEF CacheInit
<1>5. entries = 0 /\ inserts_since_rebuild = 0 /\ index = 0 /\ overlapped = FALSE
  BY DEF CacheInit
<1>6. Pending(index) /\ \A i \in Inserters : ~ Rebuilding(i) /\ inserters[i].phase # "build"
  BY <1>2, <1>3, <1>5 DEF Pending, Rebuilding
<1>7. /\ \A i, j \in Inserters : Rebuilding(i) /\ Rebuilding(j) => i = j
      /\ \A i \in Inserters : inserters[i].phase = "build" => Pending(inserters[i].points)
  BY <1>6
<1>8. index <= entries /\ \A i \in Inserters : inserters[i].points <= entries
  BY <1>3, <1>5
<1> QED BY <1>2, <1>4, <1>5, <1>6, <1>7, <1>8 DEF CacheInv

LEMMA CacheStep == CacheInv /\ [CacheNext]_cacheVars => CacheInv'
<1> SUFFICES ASSUME CacheInv, [CacheNext]_cacheVars PROVE CacheInv'
  OBVIOUS
<1> USE CacheAssumption DEF CacheInv, Pending, Rebuilding
<1>0. Cardinality(Pushed) \in Nat
  BY FS_CardinalityType
<1>1. ASSUME NEW i \in Inserters, push(i) PROVE CacheInv'
  <2>1. Pushed' = Pushed \cup {i} /\ i \notin Pushed
    BY <1>1 DEF push, Pushed
  <2>2. IsFiniteSet(Pushed') /\ Cardinality(Pushed') = Cardinality(Pushed) + 1
    BY <2>1, FS_AddElement
  <2> QED BY <1>0, <1>1, <2>2 DEF push
<1>2. ASSUME NEW i \in Inserters, count(i) PROVE CacheInv'
  <2>1. Pushed' = Pushed \ {i} /\ i \in Pushed
    BY <1>2 DEF count, Pushed
  <2>2. IsFiniteSet(Pushed') /\ Cardinality(Pushed') = Cardinality(Pushed) - 1
    BY <2>1, FS_RemoveElement
  <2>3. CASE inserts_since_rebuild + 1 >= rebuild_every
    <3>1. /\ inserters' = [inserters EXCEPT ![i].phase = "collect"] /\ inserts_since_rebuild' = 0
          /\ UNCHANGED <<entries, index>>
          /\ overlapped' = (overlapped \/ \E j \in Inserters : Rebuilding(j))
      BY <1>2, <2>3 DEF count
    <3>2. ~ Rebuilding(i) /\ Rebuilding(i)' /\ inserters[i].phase # "build" /\ inserters'[i].phase # "build"
      BY <1>2, <3>1 DEF count
    <3>3. ~ overlapped' => ~ overlapped /\ \A j \in Inserters : ~ Rebuilding(j)
      BY <3>1
    <3> QED BY <2>2, <3>1, <3>2, <3>3
  <2>4. CASE inserts_since_rebuild + 1 < rebuild_every
    <3>1. /\ inserters' = [inserters EXCEPT ![i].phase = "idle"]
          /\ inserts_since_rebuild' = inserts_since_rebuild + 1 /\ UNCHANGED <<entries, index, overlapped>>
      BY <1>2, <2>4 DEF count
    <3>2. inserters[i].phase = "pushed"
      BY <1>2 DEF count
    <3> QED BY <1>0, <2>2, <2>4, <3>1, <3>2
  <2> QED BY <2>3, <2>4
<1>3. ASSUME NEW i \in Inserters, collect(i) PROVE CacheInv'
  <2>1. Pushed' = Pushed
    BY <1>3 DEF collect, Pushed
  <2> QED BY <1>0, <1>3, <2>1 DEF collect
<1>4. ASSUME NEW i \in Inserters, install(i) PROVE CacheInv'
  <2>1. Pushed' = Pushed
    BY <1>4 DEF install, Pushed
  <2> QED BY <1>0, <1>4, <2>1 DEF install
<1>5. CASE UNCHANGED cacheVars
  <2>1. Pushed' = Pushed
    BY <1>5 DEF cacheVars, Pushed
  <2> QED BY <1>5, <2>1 DEF cacheVars
<1> QED BY <1>1, <1>2, <1>3, <1>4, <1>5 DEF CacheNext

(* With no insertion under way the index lacks fewer than rebuild_every    *)
(* entries unless two rebuilds overlapped, for every number of threads.    *)
THEOREM IndexKeepsUp == CacheSpec => []IndexCatchesUp
<1>1. CacheInv => IndexCatchesUp
  <2> SUFFICES ASSUME CacheInv, ~ overlapped, \A i \in Inserters : inserters[i].phase = "idle"
               PROVE  entries = index \/ entries < index + rebuild_every
    BY DEF IndexCatchesUp
  <2>1. Pushed = {}
    BY DEF Pushed
  <2>2. Cardinality(Pushed) = 0
    BY <2>1, FS_EmptySet
  <2> QED BY <2>2, CacheAssumption DEF CacheInv, Pending, Rebuilding
<1> QED BY <1>1, CacheInitially, CacheStep, PTL DEF CacheSpec

-----------------------------------------------------------------------------
(* A call that has started has an id of its own, from the counter; one     *)
(* that waits has its answer ahead of it or lost for a known reason.       *)
McpTypes ==
  /\ id_counter \in Nat \ {0}
  /\ calls \in [ToolCalls -> [phase : {"idle", "written", "reading"} \cup Ended, id : Nat]]
  /\ stdout \in Seq(Int)
  /\ requests \subseteq Nat
  /\ reader \in ToolCalls => calls[reader].phase = "reading"

OwnIds ==
  \A c \in ToolCalls :
    /\ calls[c].phase = "idle" => calls[c].id = 0
    /\ calls[c].phase # "idle" => calls[c].id \in 1..(id_counter - 1)
    /\ \A d \in ToolCalls : calls[c].phase # "idle" /\ c # d => calls[c].id # calls[d].id

AnswerAhead ==
  \A c \in ToolCalls : Waits(c) => calls[c].id \in requests \cup ToSet(stdout) \cup discarded

McpInv == McpTypes /\ OwnIds /\ AnswerAhead

LEMMA McpInitially == McpInit => McpInv
  BY McpAssumption DEF McpInit, McpInv, McpTypes, OwnIds, AnswerAhead, Waits, Ended

(* What is left in the pipe when a line is read, torn or added.            *)
LEMMA PipeRead ==
  ASSUME NEW s \in Seq(Int), s # << >>
  PROVE  /\ Head(s) \in Int /\ Tail(s) \in Seq(Int)
         /\ ToSet(s) \subseteq {Head(s)} \cup ToSet(Tail(s))
<1>1. Head(s) = s[1] /\ Tail(s) \in Seq(Int) /\ Len(Tail(s)) = Len(s) - 1
  OBVIOUS
<1>2. \A i \in 1..Len(Tail(s)) : Tail(s)[i] = s[i + 1]
  OBVIOUS
<1>3. ASSUME NEW i \in 1..Len(s), i # 1 PROVE s[i] \in ToSet(Tail(s))
  <2>1. i - 1 \in 1..Len(Tail(s)) /\ (i - 1) + 1 = i
    BY <1>1, <1>3
  <2>2. Tail(s)[i - 1] = s[i] /\ i - 1 \in DOMAIN Tail(s)
    BY <1>1, <1>2, <2>1
  <2> QED BY <2>2 DEF ToSet
<1>4. \A i \in DOMAIN s : s[i] \in {Head(s)} \cup ToSet(Tail(s))
  BY <1>1, <1>3
<1> QED BY <1>1, <1>4 DEF ToSet

LEMMA PipeTorn ==
  ASSUME NEW t \in Seq(Int)
  PROVE  <<Torn>> \o t \in Seq(Int) /\ ToSet(t) \subseteq ToSet(<<Torn>> \o t)
<1> DEFINE u == <<Torn>> \o t
<1>1. u \in Seq(Int) /\ Len(u) = Len(t) + 1
  BY DEF Torn
<1>2. ASSUME NEW i \in DOMAIN t PROVE i + 1 \in DOMAIN u /\ u[i + 1] = t[i]
  BY <1>1, <1>2
<1> HIDE DEF u
<1>3. ToSet(t) \subseteq ToSet(u)
  BY <1>2 DEF ToSet
<1> QED BY <1>1, <1>3 DEF u

LEMMA PipeAdd ==
  ASSUME NEW s \in Seq(Int), NEW x \in Int
  PROVE  Append(s, x) \in Seq(Int) /\ ToSet(s) \cup {x} \subseteq ToSet(Append(s, x))
<1> DEFINE u == Append(s, x)
<1>1. u \in Seq(Int) /\ Len(u) = Len(s) + 1 /\ u[Len(s) + 1] = x /\ Len(s) + 1 \in DOMAIN u
  OBVIOUS
<1>2. \A i \in DOMAIN s : i \in DOMAIN u /\ u[i] = s[i]
  OBVIOUS
<1> HIDE DEF u
<1>3. ToSet(s) \cup {x} \subseteq ToSet(u)
  BY <1>1, <1>2 DEF ToSet
<1> QED BY <1>1, <1>3 DEF u

LEMMA McpStep == McpInv /\ [McpNext]_mcpVars => McpInv'
<1> SUFFICES ASSUME McpInv, [McpNext]_mcpVars PROVE McpInv'
  OBVIOUS
<1> USE McpAssumption DEF McpInv, McpTypes, OwnIds, AnswerAhead, Waits, Ended
<1>1. ASSUME NEW c \in ToolCalls, call_tool(c) PROVE McpInv'
  <2>1. PICK how \in {"written", "failed"} :
          /\ calls' = [calls EXCEPT ![c] = [phase |-> how, id |-> id_counter]]
          /\ how = "written" => requests' = requests \cup {id_counter}
          /\ how = "failed" => requests' = requests
    BY <1>1 DEF call_tool
  <2>2. /\ id_counter' = id_counter + 1 /\ UNCHANGED <<stdout, reader, discarded>>
        /\ calls[c].phase = "idle"
    BY <1>1 DEF call_tool
  <2>3. calls' \in [ToolCalls -> [phase : {"idle", "written", "reading"} \cup Ended, id : Nat]]
    BY <2>1
  <2>4. calls'[c].phase = how /\ calls'[c].id = id_counter /\ \A d \in ToolCalls : d # c => calls'[d] = calls[d]
    BY <2>1
  <2>5. id_counter \in 1..(id_counter' - 1) /\ id_counter' \in Nat \ {0} /\ how # "idle"
    BY <2>1, <2>2
  <2>6. requests \subseteq requests' /\ requests' \subseteq Nat
    BY <2>1
  <2>7. McpTypes'
    BY <2>2, <2>3, <2>4, <2>5, <2>6
  <2>8. OwnIds'
    <3>1. ASSUME NEW d \in ToolCalls, d # c
          PROVE  /\ calls'[d].phase = "idle" => calls'[d].id = 0
                 /\ calls'[d].phase # "idle" => calls'[d].id \in 1..(id_counter' - 1)
                 /\ calls'[d].id < id_counter
      BY <2>2, <2>4, <3>1
    <3>2. \A d, e \in ToolCalls : d # c /\ e # c /\ calls'[d].phase # "idle" /\ d # e => calls'[d].id # calls'[e].id
      BY <2>4
    <3>3. ASSUME NEW d \in ToolCalls
          PROVE  /\ calls'[d].phase = "idle" => calls'[d].id = 0
                 /\ calls'[d].phase # "idle" => calls'[d].id \in 1..(id_counter' - 1)
      BY <2>4, <2>5, <3>1
    <3>4. ASSUME NEW d \in ToolCalls, NEW e \in ToolCalls, calls'[d].phase # "idle", d # e
          PROVE  calls'[d].id # calls'[e].id
      <4>1. CASE d = c
        BY <2>4, <3>1, <3>4, <4>1
      <4>2. CASE e = c
        BY <2>4, <3>1, <3>4, <4>2
      <4> QED BY <3>2, <3>4, <4>1, <4>2
    <3> QED BY <3>3, <3>4
  <2>9. AnswerAhead'
    BY <2>1, <2>2, <2>4, <2>6
  <2> QED BY <2>7, <2>8, <2>9
<1>2. ASSUME NEW c \in ToolCalls, lock(c) PROVE McpInv'
  BY <1>2 DEF lock
<1>3. ASSUME NEW c \in ToolCalls, read_line(c) PROVE McpInv'
  <2>1. /\ stdout # << >> /\ stdout' = Tail(stdout)
        /\ Head(stdout) \in Int /\ stdout' \in Seq(Int)
        /\ ToSet(stdout) \subseteq {Head(stdout)} \cup ToSet(stdout')
    BY <1>3, PipeRead DEF read_line
  <2>2. calls[c].phase = "reading" /\ reader = c
    BY <1>3 DEF read_line
  <2>3. CASE \E how \in {"ok", "failed"} :
               /\ Head(stdout) \in {calls[c].id, Torn} /\ Return(c, how) /\ UNCHANGED <<discarded, id_counter, requests>>
    BY <2>1, <2>2, <2>3 DEF Return, Torn
  <2>4. CASE discarded' = discarded \cup {Head(stdout)} /\ UNCHANGED <<calls, reader, id_counter, requests>>
    BY <2>1, <2>2, <2>4
  <2> QED BY <1>3, <2>3, <2>4 DEF read_line
<1>4. ASSUME NEW c \in ToolCalls, Eof(c) PROVE McpInv'
  BY <1>4 DEF Eof, Return
<1>5. ASSUME NEW c \in ToolCalls, DropCall(c) PROVE McpInv'
  <2>1. CASE /\ calls[c].phase \in {"written", "reading"} /\ calls' = [calls EXCEPT ![c].phase = "dropped"]
             /\ reader' \in {reader, NoCall} /\ (calls[c].phase = "reading" => reader' = NoCall)
             /\ UNCHANGED <<stdout, discarded, id_counter, requests>>
    BY <2>1
  <2>2. CASE /\ calls[c].phase = "reading" /\ Return(c, "dropped") /\ stdout # << >>
             /\ stdout' = <<Torn>> \o Tail(stdout) /\ discarded' = discarded \cup {Head(stdout)}
             /\ UNCHANGED <<id_counter, requests>>
    <3>1. stdout' \in Seq(Int) /\ ToSet(stdout) \subseteq {Head(stdout)} \cup ToSet(stdout')
      BY <2>2, PipeRead, PipeTorn
    <3> QED BY <2>2, <3>1 DEF Return
  <2> QED BY <1>5, <2>1, <2>2 DEF DropCall, Return
<1>6. ASSUME NEW i \in requests, Respond(i) PROVE McpInv'
  <2>1. stdout' \in Seq(Int) /\ ToSet(stdout) \cup {i} \subseteq ToSet(stdout')
    <3>1. i \in Int
      OBVIOUS
    <3> QED BY <1>6, <3>1, PipeAdd DEF Respond
  <2> QED BY <1>6, <2>1 DEF Respond
<1>7. CASE Notification
  <2>1. stdout' \in Seq(Int) /\ ToSet(stdout) \subseteq ToSet(stdout')
    BY <1>7, 0 \in Int, PipeAdd DEF Notification
  <2> QED BY <1>7, <2>1 DEF Notification
<1>8. CASE Exit
  BY <1>8 DEF Exit
<1>9. CASE UNCHANGED mcpVars
  BY <1>9 DEF mcpVars
<1> QED BY <1>1, <1>2, <1>3, <1>4, <1>5, <1>6, <1>7, <1>8, <1>9 DEF McpNext

(* A call that waits has its answer coming or lost for a known reason, and *)
(* no other call has its id, for any number of calls: what CallsReturn     *)
(* needs of the state.                                                     *)
THEOREM NoAnswerVanishes == McpSpec => []AnswerAccounted
<1>1. McpInv => AnswerAccounted
  BY DEF McpInv, McpTypes, OwnIds, AnswerAhead, AnswerAccounted, Waits
<1> QED BY <1>1, McpInitially, McpStep, PTL DEF McpSpec

-----------------------------------------------------------------------------
(* A time at which a request was let through is in the sorted set, or out  *)
(* of the window of every script to come: too old for the latest script, or*)
(* so old that the key has expired since.                                  *)
Recorded(u) == u \in members \/ u <= latest - window_secs \/ u + ttl <= clock

LimiterTypes ==
  /\ clock \in Nat /\ expires \in Nat /\ latest \in Nat /\ inOrder \in BOOLEAN
  /\ members \subseteq Nat /\ IsFiniteSet(members)
  /\ checks \in [Checks -> [phase : {"idle", "sent", "refused", "admitted"}, now_us : Nat]]

(* A script runs within MaxDelay of the reading of its clock, and the key  *)
(* outlives every window that a request let through is in.                 *)
Timely ==
  /\ expires <= clock + ttl
  /\ \A c \in Checks : checks[c].phase # "idle" => checks[c].now_us <= clock
  /\ \A c \in Checks : checks[c].phase = "sent" => clock <= checks[c].now_us + MaxDelay
  /\ \A c \in Admitted : /\ checks[c].now_us + ttl <= expires
                         /\ checks[c].now_us <= latest

AllRecorded == inOrder => \A c \in Admitted : Recorded(checks[c].now_us)

LimiterInv ==
  /\ LimiterTypes
  /\ Timely
  /\ AllRecorded
  /\ WindowIsExact

LEMMA LimiterInitially == LimiterInit => LimiterInv
  BY LimiterAssumption, FS_EmptySet
     DEF LimiterInit, LimiterInv, LimiterTypes, Timely, Admitted, AllRecorded, WindowIsExact, ttl

(* What a script does to the set and to the times, whether or not its      *)
(* answer gets through.                                                    *)
LEMMA ScriptStep ==
  ASSUME LimiterInv, NEW c \in Checks, checks[c].phase = "sent", Script(c), UNCHANGED clock
  PROVE  /\ members' \subseteq Nat /\ IsFiniteSet(members')
         /\ IsFiniteSet(Kept(checks[c].now_us)) /\ Cardinality(Kept(checks[c].now_us)) \in Nat
         /\ Cardinality(members') <= Cardinality(Kept(checks[c].now_us)) + 1
         /\ expires' = clock + ttl /\ expires <= expires' /\ expires' \in Nat
         /\ latest' \in Nat /\ latest <= latest' /\ checks[c].now_us <= latest'
         /\ inOrder' \in BOOLEAN
         /\ inOrder' => inOrder /\ latest <= checks[c].now_us /\ latest' = checks[c].now_us
         /\ inOrder' => \A u \in Nat : Recorded(u) => Recorded(u)'
         /\ checks[c].now_us \in members'
<1> USE LimiterAssumption DEF LimiterInv, LimiterTypes, Timely, Script
<1> DEFINE now == checks[c].now_us
<1>1. now \in Nat /\ now <= clock /\ ttl \in Nat
  BY DEF ttl
<1>2. IsFiniteSet(Kept(now)) /\ Kept(now) \subseteq Nat
  BY FS_Subset DEF Kept
<1>3. members' = Kept(now) \cup {now}
  OBVIOUS
<1>4. IsFiniteSet(members') /\ members' \subseteq Nat /\ now \in members'
  <2>1. IsFiniteSet(Kept(now) \cup {now})
    BY <1>2, FS_AddElement
  <2> QED BY <1>1, <1>2, <1>3, <2>1
<1>5. Cardinality(Kept(now)) \in Nat /\ Cardinality(members') <= Cardinality(Kept(now)) + 1
  <2>1. Cardinality(Kept(now)) \in Nat
    BY <1>2, FS_CardinalityType
  <2>2. Cardinality(Kept(now) \cup {now}) = (IF now \in Kept(now) THEN Cardinality(Kept(now)) ELSE Cardinality(Kept(now)) + 1)
    BY <1>2, FS_AddElement
  <2>3. Cardinality(members') = Cardinality(Kept(now) \cup {now})
    BY <1>3
  <2> QED BY <2>1, <2>2, <2>3
<1>6. expires' = clock + ttl /\ expires <= expires' /\ expires' \in Nat
  BY <1>1
<1>7. latest' \in Nat /\ latest <= latest' /\ now <= latest' /\ inOrder' \in BOOLEAN
  BY <1>1
<1>8. inOrder' => inOrder /\ latest <= now /\ latest' = now
  <2>1. inOrder' = (inOrder /\ now >= latest)
    OBVIOUS
  <2>2. latest' = IF now > latest THEN now ELSE latest
    OBVIOUS
  <2>3. inOrder' => inOrder /\ now >= latest
    BY <2>1, Zenon
  <2>4. now >= latest => latest <= now /\ latest' = now
    BY <1>1, <2>2
  <2> QED BY <2>3, <2>4, Zenon
<1>9. ASSUME inOrder', NEW u \in Nat, Recorded(u) PROVE Recorded(u)'
  BY <1>1, <1>3, <1>8, <1>9 DEF Recorded, Kept
<1> QED BY <1>4, <1>2, <1>5, <1>6, <1>7, <1>8, <1>9

(* The count stands for every request let through in the window: what a    *)
(* script finds in the set covers them.                                    *)
LEMMA KeptCovers ==
  ASSUME LimiterInv, NEW c \in Checks, checks[c].phase = "sent", inOrder, latest <= checks[c].now_us
  PROVE  AdmittedIn(checks[c].now_us) \subseteq Kept(checks[c].now_us)
<1> USE LimiterAssumption DEF LimiterInv, LimiterTypes, Timely
<1> DEFINE now == checks[c].now_us
<1> SUFFICES ASSUME NEW d \in Admitted, now - window_secs < checks[d].now_us, checks[d].now_us <= now
             PROVE  checks[d].now_us \in members
  BY DEF AdmittedIn, Kept
<1>1. d \in Checks /\ checks[d].now_us \in Nat /\ now \in Nat /\ clock <= now + MaxDelay
  BY DEF Admitted
<1>2. ~ (checks[d].now_us <= latest - window_secs)
  BY <1>1
<1>3. ~ (checks[d].now_us + ttl <= clock)
  BY <1>1 DEF ttl
<1> QED BY <1>2, <1>3 DEF AllRecorded, Recorded

LEMMA LimiterStep == LimiterInv /\ [LimiterNext]_limiterVars => LimiterInv'
<1> SUFFICES ASSUME LimiterInv, [LimiterNext]_limiterVars PROVE LimiterInv'
  OBVIOUS
<1> USE LimiterAssumption
<1>1. ASSUME NEW c \in Checks, check_and_increment(c) PROVE LimiterInv'
  <2>1. Admitted' = Admitted /\ \A d \in Admitted : checks'[d] = checks[d]
    BY <1>1 DEF check_and_increment, Admitted, LimiterInv, LimiterTypes
  <2>2. \A t : AdmittedIn(t)' = AdmittedIn(t)
    BY <2>1 DEF AdmittedIn
  <2>3. LimiterTypes' /\ Timely'
    BY <1>1, <2>1 DEF check_and_increment, LimiterInv, LimiterTypes, Timely
  <2>4. WindowIsExact'
    BY <1>1, <2>1, <2>2 DEF check_and_increment, LimiterInv, WindowIsExact
  <2> QED BY <1>1, <2>1, <2>3, <2>4 DEF check_and_increment, LimiterInv, AllRecorded, Recorded
<1>2. ASSUME NEW c \in Checks, sliding_window_check(c) PROVE LimiterInv'
  <2> DEFINE now == checks[c].now_us
  <2>1. checks[c].phase = "sent" /\ Script(c) /\ UNCHANGED clock
        /\ checks' = [checks EXCEPT ![c].phase = Answer(c)] /\ Answer(c) \in {"refused", "admitted"}
    BY <1>2 DEF sliding_window_check, Answer
  <2>2. /\ DOMAIN checks' = Checks /\ checks'[c].phase = Answer(c) /\ checks'[c].now_us = now
        /\ now \in Nat /\ now <= clock
        /\ \A d \in Checks : d # c => checks'[d] = checks[d]
        /\ checks' \in [Checks -> [phase : {"idle", "sent", "refused", "admitted"}, now_us : Nat]]
    BY <2>1 DEF LimiterInv, LimiterTypes, Timely
  <2>3. Admitted' = Admitted \/ (Admitted' = Admitted \cup {c} /\ Answer(c) = "admitted")
    BY <2>1, <2>2 DEF Admitted
  <2>4. c \notin Admitted /\ Admitted \subseteq Checks /\ \A d \in Checks : checks'[d].now_us = checks[d].now_us
    BY <2>1, <2>2 DEF Admitted
  <2>5. LimiterTypes'
    BY <2>1, <2>2, ScriptStep DEF LimiterTypes, LimiterInv
  <2>6. Timely'
    BY <2>1, <2>2, <2>3, <2>4, ScriptStep DEF Timely, LimiterInv, LimiterTypes, ttl
  <2>7. AllRecorded'
    <3> SUFFICES ASSUME inOrder', NEW d \in Admitted' PROVE Recorded(checks[d].now_us)'
      BY DEF AllRecorded
    <3>1. CASE d = c
      BY <2>1, <2>2, <3>1, ScriptStep DEF Recorded
    <3>2. CASE d \in Admitted
      <4>1. Recorded(checks[d].now_us) /\ checks[d].now_us \in Nat /\ checks'[d].now_us = checks[d].now_us
        BY <2>1, <2>4, <3>2, ScriptStep DEF LimiterInv, AllRecorded, LimiterTypes
      <4>2. \A u \in Nat : Recorded(u) => Recorded(u)'
        BY <2>1, ScriptStep
      <4> QED BY <4>1, <4>2 DEF Recorded
    <3> QED BY <2>3, <3>1, <3>2
  <2>8. WindowIsExact'
    <3> SUFFICES ASSUME inOrder', NEW d \in Admitted'
                 PROVE  Cardinality(AdmittedIn(checks[d].now_us)') <= max_requests + 1
      BY DEF WindowIsExact
    <3>1. inOrder /\ latest <= now /\ latest' = now
      BY <2>1, ScriptStep
    <3>2. \A t : AdmittedIn(t)' \subseteq AdmittedIn(t) \cup {now}
      BY <2>2, <2>3, <2>4 DEF AdmittedIn
    <3>5. ASSUME NEW u, checks'[d].now_us = u PROVE AdmittedIn(checks[d].now_us)' = AdmittedIn(u)'
      BY <3>5 DEF AdmittedIn
    <3>3. CASE d = c /\ Answer(c) = "admitted"
      <4>1. AdmittedIn(now)' \subseteq members'
        BY <2>1, <3>1, <3>2, KeptCovers DEF Script
      <4>2. Cardinality(AdmittedIn(now)') <= Cardinality(members')
        BY <2>1, <4>1, ScriptStep, FS_Subset
      <4>3. ~ (Cardinality(Kept(now)) > max_requests)
        BY <3>3 DEF Answer
      <4>4. IsFiniteSet(AdmittedIn(now)') /\ Cardinality(AdmittedIn(now)') \in Nat /\ Cardinality(members') \in Nat
        BY <2>1, <4>1, ScriptStep, FS_Subset, FS_CardinalityType
      <4>5. AdmittedIn(checks[d].now_us)' = AdmittedIn(now)'
        BY <2>2, <3>3, <3>5
      <4> QED BY <2>1, <4>2, <4>3, <4>4, <4>5, ScriptStep
    <3>4. CASE d \in Admitted
      <4>1. checks'[d].now_us = checks[d].now_us /\ checks[d].now_us <= now /\ checks[d].now_us \in Nat
        BY <2>4, <3>1, <3>4 DEF LimiterInv, LimiterTypes, Timely
      <4>2. CASE Admitted' = Admitted \/ now > checks[d].now_us
        <5>1. AdmittedIn(checks[d].now_us)' = AdmittedIn(checks[d].now_us)
          BY <2>2, <2>3, <2>4, <4>1, <4>2 DEF AdmittedIn
        <5> QED BY <3>1, <3>4, <3>5, <4>1, <5>1 DEF LimiterInv, WindowIsExact
      <4>3. CASE now = checks[d].now_us
        <5>1. now \in AdmittedIn(now)
          BY <2>2, <3>4, <4>3 DEF AdmittedIn, LimiterInv, LimiterTypes
        <5>2. AdmittedIn(now)' = AdmittedIn(now)
          BY <2>3, <2>4, <3>2, <5>1 DEF AdmittedIn
        <5>3. AdmittedIn(checks[d].now_us)' = AdmittedIn(now)'
          BY <2>2, <4>1, <4>3 DEF AdmittedIn
        <5>4. Cardinality(AdmittedIn(checks[d].now_us)) <= max_requests + 1
          BY <3>1, <3>4 DEF LimiterInv, WindowIsExact
        <5> QED BY <4>3, <5>2, <5>3, <5>4
      <4> QED BY <2>2, <4>1, <4>2, <4>3
    <3> QED BY <2>3, <3>3, <3>4
  <2> QED BY <2>5, <2>6, <2>7, <2>8 DEF LimiterInv
<1>3. ASSUME NEW c \in Checks, Disconnect(c) PROVE LimiterInv'
  <2>1. checks[c].phase = "sent" /\ checks' = [checks EXCEPT ![c].phase = "refused"] /\ UNCHANGED clock
        /\ (Script(c) \/ UNCHANGED <<members, expires, latest, inOrder>>)
    BY <1>3 DEF Disconnect
  <2>2. /\ checks' \in [Checks -> [phase : {"idle", "sent", "refused", "admitted"}, now_us : Nat]]
        /\ \A d \in Checks : checks'[d].now_us = checks[d].now_us
        /\ \A d \in Checks : d # c => checks'[d] = checks[d]
        /\ checks'[c].phase = "refused" /\ checks[c].now_us <= clock
    BY <2>1 DEF LimiterInv, LimiterTypes, Timely
  <2>3. Admitted' = Admitted /\ Admitted \subseteq Checks
    BY <2>1, <2>2 DEF Admitted
  <2>4. \A t : AdmittedIn(t)' = AdmittedIn(t)
    BY <2>2, <2>3 DEF AdmittedIn
  <2>5. LimiterTypes'
    BY <2>1, <2>2, ScriptStep DEF LimiterTypes, LimiterInv
  <2>6. Timely'
    BY <2>1, <2>2, <2>3, ScriptStep DEF Timely, LimiterInv, LimiterTypes, ttl
  <2>7. (inOrder' => inOrder) /\ (inOrder' => \A u \in Nat : Recorded(u) => Recorded(u)')
    BY <2>1, ScriptStep DEF Recorded
  <2>8. AllRecorded'
    <3> SUFFICES ASSUME inOrder', NEW d \in Admitted PROVE Recorded(checks[d].now_us)'
      BY <2>3 DEF AllRecorded
    <3>1. Recorded(checks[d].now_us) /\ checks[d].now_us \in Nat /\ checks'[d].now_us = checks[d].now_us
      BY <2>2, <2>3, <2>7 DEF LimiterInv, AllRecorded, LimiterTypes
    <3> QED BY <2>7, <3>1 DEF Recorded
  <2>9. WindowIsExact'
    BY <2>2, <2>3, <2>4, <2>7 DEF LimiterInv, WindowIsExact
  <2> QED BY <2>5, <2>6, <2>8, <2>9 DEF LimiterInv
<1>4. CASE Second
  <2>1. UNCHANGED <<checks, expires, latest, inOrder>> /\ clock' = clock + 1 /\ Admitted' = Admitted /\ Admitted \subseteq Checks
    BY <1>4 DEF Second, Admitted
  <2>2. \A t : AdmittedIn(t)' = AdmittedIn(t)
    BY <2>1 DEF AdmittedIn
  <2>3. LimiterTypes'
    <3>1. members' \in {members, {}}
      BY <1>4 DEF Second
    <3>2. members' \subseteq Nat /\ IsFiniteSet(members')
      BY <3>1, FS_EmptySet DEF LimiterInv, LimiterTypes
    <3>3. clock' \in Nat
      BY <2>1 DEF LimiterInv, LimiterTypes
    <3> QED BY <2>1, <3>2, <3>3 DEF LimiterInv, LimiterTypes
  <2>4. Timely'
    BY <1>4, <2>1 DEF Second, LimiterInv, LimiterTypes, Timely, ttl
  <2>5. AllRecorded'
    BY <1>4, <2>1 DEF Second, LimiterInv, LimiterTypes, Timely, AllRecorded, Recorded, ttl
  <2>6. WindowIsExact'
    BY <2>1, <2>2 DEF LimiterInv, WindowIsExact
  <2> QED BY <2>1, <2>3, <2>4, <2>5, <2>6 DEF LimiterInv
<1>5. CASE UNCHANGED limiterVars
  BY <1>5 DEF limiterVars, LimiterInv, LimiterTypes, Timely, AllRecorded, Recorded, WindowIsExact, Admitted, AdmittedIn, ttl
<1> QED BY <1>1, <1>2, <1>3, <1>4, <1>5 DEF LimiterNext

(* As long as scripts arrive in the order of their clocks, no window has   *)
(* more than max_requests + 1 instants with a request let through, for     *)
(* every limit, window and number of checks.                               *)
THEOREM WindowExact == LimiterSpec => []WindowIsExact
<1>1. LimiterInv => WindowIsExact
  BY DEF LimiterInv
<1> QED BY <1>1, LimiterInitially, LimiterStep, PTL DEF LimiterSpec

=============================================================================
