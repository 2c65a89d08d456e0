----------------------------- MODULE MCServices -----------------------------
(* The parts of the system that have to make progress by themselves, one   *)
(* at a time: of the backend the handlers of the control API, the audit    *)
(* consumer, the circuit breaker, the proxy service, the MCP client and    *)
(* the watcher of plugins; of the admin UI the detail panels, the theme    *)
(* and toast providers, and the pages that change on a timer.  They share  *)
(* no state; `part` says which one moves.                                  *)
EXTENDS ControlPlane, AuditConsumer, CircuitBreaker, ProxyService, StdioMcpClient, PluginWatcher,
        AdminDetail, AdminProviders, AdminLive

VARIABLE part

(* Two tenants, two upstreams, two routes and two concurrent requests; four*)
(* events against a batch of two, so that there are full batches, a partial*)
(* one that the ticker flushes, and batches mixing the kinds of event;     *)
(* three overlapping callers and a threshold of three, so that late reports*)
(* reach the breaker in each of its states; a channel of two places and    *)
(* four changes, so that messages are dropped.                             *)
MCKinds == {"ok", "bad", "poison"}

(* Every component over two rows; audit entries with up to two keys.       *)
MCPanelKinds ==
  {"tenant", "upstream", "route", "plugin", "provider", "consumer", "rateLimit", "audit",
   "url", "sha", "key", "newKey"}
MCDiffs == UNION {[K -> 1..2] : K \in SUBSET {"x", "y"}}

backendVars == <<vars, auditVars, breakerVars, proxyVars, mcpVars, watcherVars>>
widgetVars == <<detailVars, providerVars, liveVars>>

(* The parts that do not move have one initial state.                      *)
ServicesInit ==
  /\ part \in {"control_api", "audit", "breaker", "proxy", "mcp", "watcher", "detail", "providers", "live"}
  /\ Init /\ AuditInit /\ BreakerInit /\ ProxyInit /\ McpInit /\ WatcherInit
  /\ DetailInit /\ (part # "detail" => panelKind = "tenant")
  /\ ProviderInit /\ (part # "providers" => stored = "none" /\ ~ systemDark)
  /\ LiveInit /\ (part # "live" => livePage = "dashboard" /\ storage)

ServicesNext ==
  /\ UNCHANGED part
  /\ \/ /\ UNCHANGED widgetVars
        /\ \/ /\ part = "control_api" /\ Next
              /\ UNCHANGED <<auditVars, breakerVars, proxyVars, mcpVars, watcherVars>>
           \/ /\ part = "audit" /\ AuditNext
              /\ UNCHANGED <<vars, breakerVars, proxyVars, mcpVars, watcherVars>>
           \/ /\ part = "breaker" /\ BreakerNext
              /\ UNCHANGED <<vars, auditVars, proxyVars, mcpVars, watcherVars>>
           \/ /\ part = "proxy" /\ ProxyNext
              /\ UNCHANGED <<vars, auditVars, breakerVars, mcpVars, watcherVars>>
           \/ /\ part = "mcp" /\ McpNext
              /\ UNCHANGED <<vars, auditVars, breakerVars, proxyVars, watcherVars>>
           \/ /\ part = "watcher" /\ WatcherNext
              /\ UNCHANGED <<vars, auditVars, breakerVars, proxyVars, mcpVars>>
     \/ /\ UNCHANGED backendVars
        /\ \/ part = "detail" /\ DetailNext /\ UNCHANGED <<providerVars, liveVars>>
           \/ part = "providers" /\ ProviderNext /\ UNCHANGED <<detailVars, liveVars>>
           \/ part = "live" /\ LiveNext /\ UNCHANGED <<detailVars, providerVars>>

(* The fairness of each part, while it is the one that moves.  What the    *)
(* other parts are fair to cannot happen in their initial states.          *)
ServicesFairness ==
  /\ WF_auditVars(part = "audit" /\ Fetch)
  /\ WF_auditVars(part = "audit" /\ Ticker)
  /\ WF_breakerVars(part = "breaker" /\ Tick)
  /\ \A c \in Callers : /\ WF_breakerVars(part = "breaker" /\ allow(c))
                        /\ WF_breakerVars(part = "breaker" /\ Finish(c))
  /\ WF_watcherVars(part = "watcher" /\ watch)
  /\ ProxyFairness /\ McpFairness /\ ReloadFairness
  /\ DetailFairness /\ ProviderFairness /\ LiveFairness

ServicesSpec ==
  /\ ServicesInit
  /\ [][ServicesNext]_<<part, backendVars, widgetVars>>
  /\ ServicesFairness

(* What a timer of the admin UI is to take away goes away: the mark of a   *)
(* copy button however often it is pressed, a toast although the timers of *)
(* all toasts start again whenever one comes or goes.                      *)
TimersRunOut == MarkEnds /\ ToastsGo

=============================================================================
