------------------------------ MODULE AdminLive -----------------------------
(***************************************************************************)
(* The two pages of the admin UI that change by themselves: the dashboard, *)
(* which polls the health of the control API, and the metrics page, which  *)
(* keeps a moving window of samples and remembers the time window chosen.  *)
(* `livePage` is the page, chosen in the initial state; it is mounted,     *)
(* left and mounted again.                                                 *)
(***************************************************************************)
EXTENDS Integers, Sequences

CONSTANTS
  HISTORY_SIZE,  \* samples kept
  MaxSamples     \* bound: samples generated by one mounted page

ASSUME HistoryAssumption == HISTORY_SIZE \in Nat /\ HISTORY_SIZE > 1

VARIABLES
  livePage,    \* "dashboard" or "metrics"
  onPage,      \* the page is mounted
  visible,     \* the tab of the browser is
  serverUp,    \* /health would answer 200
  health,      \* the cache entry ["health"]: [data, isError]
  check,       \* the request in flight: "none", "sent", "ok" or "failed"
  lastCheck,   \* how the last check that ended did: "none", "ok" or "failed"
  samples,     \* samples generated since the page was mounted
  current,     \* the newest of them
  history,     \* those the sparklines draw
  connected,   \* what the indicator says
  intervals,   \* intervals running
  tab,         \* the tab of the metrics page
  window,      \* its time window
  storedWindow,\* localStorage["metrics:timeWindow"], or "none"
  storage,     \* localStorage may be used
  lastWindow   \* the window last chosen, or the default

healthVars == <<visible, serverUp, health, check, lastCheck>>
metricVars == <<samples, current, history, connected, intervals, tab, window, storedWindow, storage, lastWindow>>
liveVars == <<livePage, onPage, healthVars, metricVars>>

TABS == {"overview", "latency", "errors", "ai-cost"}
WINDOWS == {"1h", "6h", "24h", "7d"}

-----------------------------------------------------------------------------
(* A check starts unless one is in flight; a refresh drops the one in      *)
(* flight when there is data to show meanwhile.  Without data, an error    *)
(* before is forgotten.                                                    *)
StartCheck ==
  /\ check' = "sent"
  /\ health' = IF health.data = "none" THEN [health EXCEPT !.isError = FALSE] ELSE health

Poll == IF check = "none" THEN StartCheck ELSE UNCHANGED <<check, health>>

Refresh == IF check = "none" \/ health.data # "none" THEN StartCheck ELSE UNCHANGED <<check, health>>

(* The card of the dashboard, from the query's state.                      *)
GatewayStatusCard ==
  IF check # "none" /\ health.data = "none" THEN "loading"
  ELSE IF ~ health.isError /\ health.data = "ok" THEN "healthy"
  ELSE "unreachable"

(* A slip: the answer kept from before outweighs the error since.          *)
SettleFailedQuietly ==
  /\ check = "failed"
  /\ health' = [health EXCEPT !.isError = (health.data = "none")]
  /\ check' = "none"
  /\ lastCheck' = "failed"

SettleFailed ==
  /\ check = "failed"
  /\ health' = [health EXCEPT !.isError = TRUE]
  /\ check' = "none"
  /\ lastCheck' = "failed"

SettleOk ==
  /\ check = "ok"
  /\ health' = [data |-> "ok", isError |-> FALSE]
  /\ check' = "none"
  /\ lastCheck' = "ok"

(* The control API answers, or the request fails on the way.               *)
Answer ==
  /\ check = "sent"
  /\ check' \in (IF serverUp THEN {"ok", "failed"} ELSE {"failed"})
  /\ UNCHANGED <<livePage, onPage, visible, serverUp, health, lastCheck>>
  /\ UNCHANGED metricVars

Settle == (SettleOk \/ SettleFailed) /\ UNCHANGED <<livePage, onPage, visible, serverUp>> /\ UNCHANGED metricVars

(* refetchInterval, which rests while the tab is hidden.                   *)
RefetchInterval ==
  /\ livePage = "dashboard" /\ onPage /\ visible
  /\ Poll
  /\ UNCHANGED <<livePage, onPage, visible, serverUp, lastCheck>>
  /\ UNCHANGED metricVars

ClickRefresh ==
  /\ livePage = "dashboard" /\ onPage /\ visible
  /\ Refresh
  /\ UNCHANGED <<livePage, onPage, visible, serverUp, lastCheck>>
  /\ UNCHANGED metricVars

(* Back in front, what is stale is fetched again.                          *)
VisibilityChange ==
  /\ livePage = "dashboard"
  /\ visible' = ~ visible
  /\ IF visible' /\ onPage THEN Poll \/ UNCHANGED <<check, health>>
     ELSE UNCHANGED <<check, health>>
  /\ UNCHANGED <<livePage, onPage, serverUp, lastCheck>>
  /\ UNCHANGED metricVars

ServerChange ==
  /\ livePage = "dashboard"
  /\ serverUp' = ~ serverUp
  /\ UNCHANGED <<livePage, onPage, visible, health, check, lastCheck>>
  /\ UNCHANGED metricVars

(* The query is fetched unless its data is fresh; the entry outlives the   *)
(* page.                                                                   *)
EnterDashboard ==
  /\ livePage = "dashboard" /\ ~ onPage
  /\ onPage' = TRUE
  /\ \/ Poll
     \/ health.data # "none" /\ UNCHANGED <<check, health>>
  /\ UNCHANGED <<livePage, visible, serverUp, lastCheck>>
  /\ UNCHANGED metricVars

LeaveDashboard ==
  /\ livePage = "dashboard" /\ onPage
  /\ onPage' = FALSE
  /\ UNCHANGED <<livePage, healthVars, metricVars>>

-----------------------------------------------------------------------------
(* prev.slice(-(HISTORY_SIZE - 1)) with one more sample.                   *)
Slide(prev, next) ==
  LET keep == HISTORY_SIZE - 1
      from == IF Len(prev) > keep THEN Len(prev) - keep + 1 ELSE 1
  IN Append(SubSeq(prev, from, Len(prev)), next)

(* What is read back when the page is mounted: a value that is none of the *)
(* windows counts as the default.                                          *)
ReadWindow ==
  IF storage /\ storedWindow \in WINDOWS THEN storedWindow ELSE "1h"

(* useLiveMetrics fills the whole history at once, `current` first.        *)
EnterMetrics ==
  /\ livePage = "metrics" /\ ~ onPage
  /\ onPage' = TRUE
  /\ samples' = HISTORY_SIZE + 1
  /\ current' = 1
  /\ history' = [i \in 1..HISTORY_SIZE |-> i + 1]
  /\ connected' = TRUE
  /\ intervals' = intervals + 1
  /\ tab' = "overview"
  /\ window' = ReadWindow
  /\ UNCHANGED <<livePage, healthVars, storedWindow, storage, lastWindow>>

LeaveMetrics ==
  /\ livePage = "metrics" /\ onPage
  /\ onPage' = FALSE
  /\ connected' = FALSE
  /\ intervals' = intervals - 1
  /\ UNCHANGED <<livePage, healthVars, samples, current, history, tab, window, storedWindow, storage, lastWindow>>

Sample ==
  /\ livePage = "metrics" /\ onPage
  /\ intervals > 0
  /\ samples < MaxSamples
  /\ samples' = samples + 1
  /\ current' = samples + 1
  /\ history' = Slide(history, samples + 1)
  /\ UNCHANGED <<livePage, onPage, healthVars, connected, intervals, tab, window, storedWindow, storage, lastWindow>>

setTab(t) ==
  /\ livePage = "metrics" /\ onPage
  /\ tab' = t
  /\ UNCHANGED <<livePage, onPage, healthVars, samples, current, history, connected, intervals, window, storedWindow, storage, lastWindow>>

(* A storage that throws is passed over; the state is set all the same.    *)
setWindow(w) ==
  /\ livePage = "metrics" /\ onPage
  /\ storedWindow' = IF storage THEN w ELSE storedWindow
  /\ window' = w
  /\ lastWindow' = w
  /\ UNCHANGED <<livePage, onPage, healthVars, samples, current, history, connected, intervals, tab, storage>>

-----------------------------------------------------------------------------
(* Before the first visit; an earlier version may have stored anything.    *)
LiveInit ==
  /\ livePage \in {"dashboard", "metrics"}
  /\ onPage = FALSE
  /\ visible = TRUE
  /\ serverUp = TRUE
  /\ health = [data |-> "none", isError |-> FALSE]
  /\ check = "none"
  /\ lastCheck = "none"
  /\ samples = 0 /\ current = 0 /\ history = << >>
  /\ connected = TRUE
  /\ intervals = 0
  /\ tab = "overview"
  /\ window = "1h"
  /\ storage \in BOOLEAN
  /\ storedWindow \in (IF livePage = "metrics" THEN {"none", "30d"} ELSE {"none"})
  /\ lastWindow = "1h"

LiveNext ==
  \/ Answer
  \/ Settle
  \/ RefetchInterval
  \/ ClickRefresh
  \/ VisibilityChange
  \/ ServerChange
  \/ EnterDashboard
  \/ LeaveDashboard
  \/ EnterMetrics
  \/ LeaveMetrics
  \/ Sample
  \/ \E t \in TABS : setTab(t)
  \/ \E w \in WINDOWS : setWindow(w)

(* The interval fires, and a request to a server that is down fails: the   *)
(* browser refuses or gives up the connection.  Refresh drops the answer   *)
(* on its way; strong fairness says that no one presses it for ever faster *)
(* than answers come.                                                      *)
LiveFairness == WF_liveVars(RefetchInterval) /\ WF_liveVars(Answer) /\ SF_liveVars(Settle)

LiveSpec == LiveInit /\ [][LiveNext]_liveVars /\ LiveFairness

-----------------------------------------------------------------------------
(* Every variable holds a value of its kind, and the interval runs exactly *)
(* while the metrics page is mounted, however often it is entered          *)
(* (use-live-metrics.ts:54-57).                                            *)
LiveTypeOK ==
  /\ health \in [data : {"none", "ok"}, isError : BOOLEAN]
  /\ check \in {"none", "sent", "ok", "failed"}
  /\ tab \in TABS /\ window \in WINDOWS
  /\ intervals = IF livePage = "metrics" /\ onPage THEN 1 ELSE 0
  /\ livePage = "metrics" /\ onPage => connected

(* The card says "healthy" exactly when the last check that ended found    *)
(* the control API well, and "unreachable" only when it did not, although  *)
(* the answer of an earlier check is kept through later failures           *)
(* (gateway-status.tsx:29).                                                *)
CardIsLastCheck ==
  livePage = "dashboard" /\ onPage =>
    /\ GatewayStatusCard = "healthy" <=> lastCheck = "ok"
    /\ GatewayStatusCard = "unreachable" => lastCheck = "failed"

(* A control API that stays down is noticed on a dashboard that stays in   *)
(* front, whatever was in flight when it went down.                        *)
DownIsNoticed ==
  <>[](livePage = "dashboard" /\ onPage /\ visible /\ ~ serverUp) =>
    <>[](GatewayStatusCard # "healthy")

(* The sparklines draw the last HISTORY_SIZE samples, all of them and in   *)
(* order, and end with the sample the gauges show once one has come in.    *)
HistoryIsWindow ==
  livePage = "metrics" /\ onPage =>
    /\ Len(history) = HISTORY_SIZE
    /\ \A i \in 1..HISTORY_SIZE : history[i] = samples - HISTORY_SIZE + i
    /\ samples > HISTORY_SIZE + 1 => current = history[HISTORY_SIZE]

(* The time window chosen last is the one shown after any number of visits,*)
(* as far as the browser lets it be stored.                                *)
WindowIsKept ==
  livePage = "metrics" /\ onPage /\ storage => window = lastWindow

=============================================================================
