----------------------------- MODULE ProxyService -----------------------------
(***************************************************************************)
(* crates/barqium-core/src: a request through service.rs, forwarder.rs and *)
(* websocket.rs.  All requests share the reader of the snapshot behind a   *)
(* mutex; what match_route answers is chosen freely (RouteMatch has it).   *)
(* An upstream answers, fails or stays silent at every step.               *)
(***************************************************************************)
EXTENDS Naturals

CONSTANTS
  HttpRequests,
  NoRequest  \* no request holds the reader

VARIABLES
  reqs,       \* by request, [upgrade, phase, status]
  readerLock, \* the request that holds the reader
  tunnels     \* by request, the state of its spliced streams

proxyVars == <<reqs, readerLock, tunnels>>

Answered(r) == reqs[r].phase = "answered"

ProxyInit ==
  /\ reqs = [r \in HttpRequests |-> [upgrade |-> FALSE, phase |-> "none", status |-> 0]]
  /\ readerLock = NoRequest
  /\ tunnels = [r \in HttpRequests |-> "none"]

-----------------------------------------------------------------------------
Goes(r, phase) == reqs' = [reqs EXCEPT ![r].phase = phase]
Answers(r, status) == reqs' = [reqs EXCEPT ![r].phase = "answered", ![r].status = status]

(* A request comes in, a WebSocket upgrade or not.                         *)
call(r, upgrade) ==
  /\ reqs[r].phase = "none"
  /\ reqs' = [reqs EXCEPT ![r].phase = "new", ![r].upgrade = upgrade]
  /\ UNCHANGED <<readerLock, tunnels>>

lock_reader(r) ==
  /\ reqs[r].phase = "new"
  /\ readerLock = NoRequest
  /\ readerLock' = r
  /\ Goes(r, "lookup")
  /\ UNCHANGED tunnels

(* A slip: the guard lives on to the end of the request, as it would if    *)
(* the block around the lookup went.                                       *)
match_route_guarded(r) ==
  /\ reqs[r].phase = "lookup"
  /\ \/ Answers(r, 404) /\ readerLock' = NoRequest
     \/ Answers(r, 503) /\ readerLock' = NoRequest
     \/ Goes(r, IF reqs[r].upgrade THEN "connect" ELSE "forward") /\ UNCHANGED readerLock
  /\ UNCHANGED tunnels

(* No route, an error of the snapshot, or a match; the guard is dropped.   *)
match_route(r) ==
  /\ reqs[r].phase = "lookup"
  /\ \/ Answers(r, 404)
     \/ Answers(r, 503)
     \/ Goes(r, IF reqs[r].upgrade THEN "connect" ELSE "forward")
  /\ readerLock' = NoRequest
  /\ UNCHANGED tunnels

(* forward: the upstream's own status, or 502 for an error of it or for an *)
(* URL that does not parse.                                                *)
ForwardEnds(r) ==
  /\ reqs[r].phase = "forward"
  /\ Answers(r, 200) \/ Answers(r, 502)
  /\ UNCHANGED <<readerLock, tunnels>>

(* The timeout of the route, which covers forward and connect.             *)
timeout(r) ==
  /\ reqs[r].phase \in {"forward", "connect"}
  /\ Answers(r, 502)
  /\ UNCHANGED <<readerLock, tunnels>>

(* proxy_websocket: the TCP connection and the handshake on it.            *)
Connected(r) ==
  /\ reqs[r].phase = "connect"
  /\ Goes(r, "upgrade") \/ Answers(r, 502)
  /\ UNCHANGED <<readerLock, tunnels>>

(* send_request, under no timeout: any status but 101 is a 502.            *)
UpgradeEnds(r) ==
  /\ reqs[r].phase = "upgrade"
  /\ \/ Answers(r, 502) /\ UNCHANGED tunnels
     \/ Answers(r, 101) /\ tunnels' = [tunnels EXCEPT ![r] = "joining"]
  /\ UNCHANGED readerLock

(* The spawned task: both upgrades, the copying, its end.                  *)
Join(r) ==
  /\ tunnels[r] = "joining"
  /\ \E next \in {"open", "closed"} : tunnels' = [tunnels EXCEPT ![r] = next]
  /\ UNCHANGED <<reqs, readerLock>>

CloseTunnel(r) ==
  /\ tunnels[r] = "open"
  /\ tunnels' = [tunnels EXCEPT ![r] = "closed"]
  /\ UNCHANGED <<reqs, readerLock>>

ProxyNext ==
  \E r \in HttpRequests :
    \/ \E upgrade \in BOOLEAN : call(r, upgrade)
    \/ lock_reader(r) \/ match_route(r) \/ ForwardEnds(r) \/ timeout(r)
    \/ Connected(r) \/ UpgradeEnds(r) \/ Join(r) \/ CloseTunnel(r)

(* The gateway's own steps and its timer; nothing is asked of upstreams.   *)
ProxyFairness ==
  \A r \in HttpRequests :
    WF_proxyVars(lock_reader(r)) /\ WF_proxyVars(match_route(r)) /\ WF_proxyVars(timeout(r))

ProxySpec == ProxyInit /\ [][ProxyNext]_proxyVars /\ ProxyFairness

-----------------------------------------------------------------------------
(* Every request is answered, whatever upstreams do and however long they  *)
(* hold other requests ("lock briefly, then release before I/O",           *)
(* service.rs:56), but for an upgrade whose upstream took the connection:  *)
(* that one waits for the upstream's answer under no timeout               *)
(* (websocket.rs:72-75).                                                   *)
EveryoneIsAnswered ==
  \A r \in HttpRequests : (reqs[r].phase = "new") ~> (Answered(r) \/ reqs[r].phase = "upgrade")

=============================================================================
