------------------------- MODULE AdminWidgetsProofs -------------------------
(***************************************************************************)
(* The parts of the admin UI that timers and polling drive: the dashboard  *)
(* and metrics pages of AdminLive, the copy buttons of AdminDetail, the    *)
(* toasts of AdminProviders, for every duration, history size and number   *)
(* of rows, toasts and timers.                                             *)
(***************************************************************************)
EXTENDS AdminDetail, AdminProviders, AdminLive, TLAPS

-----------------------------------------------------------------------------
(* The cached answer, its error flag and the last check that ended say the *)
(* same; before any check has ended one is under way on a mounted page.    *)
HealthInv ==
  /\ livePage \in {"dashboard", "metrics"} /\ onPage \in BOOLEAN
  /\ health \in [data : {"none", "ok"}, isError : BOOLEAN]
  /\ check \in {"none", "sent", "ok", "failed"}
  /\ lastCheck \in {"none", "ok", "failed"}
  /\ lastCheck = "ok" <=> (health.data = "ok" /\ ~ health.isError)
  /\ lastCheck = "none" => health.data = "none"
  /\ livePage = "dashboard" /\ onPage /\ lastCheck = "none" => check # "none"

LEMMA HealthInitially == LiveInit => HealthInv
<1> SUFFICES ASSUME LiveInit PROVE HealthInv
  OBVIOUS
<1>1. health.data = "none" /\ health.isError = FALSE /\ health \in [data : {"none", "ok"}, isError : BOOLEAN]
  BY DEF LiveInit
<1>2. onPage = FALSE /\ lastCheck = "none" /\ check = "none" /\ livePage \in {"dashboard", "metrics"}
  BY DEF LiveInit
<1> QED BY <1>1, <1>2 DEF HealthInv

LEMMA HealthStep == HealthInv /\ [LiveNext]_liveVars => HealthInv'
<1> SUFFICES ASSUME HealthInv, [LiveNext]_liveVars PROVE HealthInv'
  OBVIOUS
<1> USE DEF HealthInv
<1>1. CASE Answer
  BY <1>1 DEF Answer
<1>2. CASE Settle
  <2>1. UNCHANGED <<livePage, onPage>>
    BY <1>2 DEF Settle
  <2>2. CASE SettleOk
    <3>1. health' = [data |-> "ok", isError |-> FALSE] /\ check' = "none" /\ lastCheck' = "ok"
      BY <2>2 DEF SettleOk
    <3> QED BY <2>1, <3>1
  <2>3. CASE SettleFailed
    <3>1. health' = [data |-> health.data, isError |-> TRUE] /\ check' = "none" /\ lastCheck' = "failed"
      BY <2>3 DEF SettleFailed
    <3> QED BY <2>1, <3>1
  <2> QED BY <1>2, <2>2, <2>3 DEF Settle
<1>3. CASE RefetchInterval
  BY <1>3 DEF RefetchInterval, Poll, StartCheck
<1>4. CASE ClickRefresh
  BY <1>4 DEF ClickRefresh, Refresh, StartCheck
<1>5. CASE VisibilityChange
  BY <1>5 DEF VisibilityChange, Poll, StartCheck
<1>6. CASE ServerChange
  BY <1>6 DEF ServerChange
<1>7. CASE EnterDashboard
  BY <1>7 DEF EnterDashboard, Poll, StartCheck
<1>8. CASE LeaveDashboard
  BY <1>8 DEF LeaveDashboard, healthVars
<1>9. CASE EnterMetrics \/ LeaveMetrics \/ Sample \/ (\E t \in TABS : setTab(t)) \/ (\E w \in WINDOWS : setWindow(w))
  BY <1>9 DEF EnterMetrics, LeaveMetrics, Sample, setTab, setWindow, healthVars
<1>10. CASE UNCHANGED liveVars
  BY <1>10 DEF liveVars, healthVars
<1> QED BY <1>1, <1>2, <1>3, <1>4, <1>5, <1>6, <1>7, <1>8, <1>9, <1>10 DEF LiveNext

(* The card of the dashboard says what the last check found, however       *)
(* polls, refreshes, visits and failures follow each other.                *)
THEOREM CardShowsLastCheck == LiveSpec => []CardIsLastCheck
<1>1. HealthInv => CardIsLastCheck
  BY DEF HealthInv, CardIsLastCheck, GatewayStatusCard
<1> QED BY <1>1, HealthInitially, HealthStep, PTL DEF LiveSpec

-----------------------------------------------------------------------------
(* A stored value that is a window is the one last chosen.                 *)
MetricsInv ==
  /\ livePage \in {"dashboard", "metrics"} /\ onPage \in BOOLEAN /\ storage \in BOOLEAN
  /\ samples \in Nat /\ history \in Seq(Int)
  /\ HistoryIsWindow
  /\ storage => lastWindow = (IF storedWindow \in WINDOWS THEN storedWindow ELSE "1h")
  /\ WindowIsKept

LEMMA MetricsInitially == LiveInit => MetricsInv
<1> SUFFICES ASSUME LiveInit PROVE MetricsInv
  OBVIOUS
<1>1. onPage = FALSE /\ storage \in BOOLEAN /\ livePage \in {"dashboard", "metrics"} /\ lastWindow = "1h"
  BY DEF LiveInit
<1>2. samples = 0 /\ history = << >> /\ storedWindow \notin WINDOWS
  BY DEF LiveInit, WINDOWS
<1>3. HistoryIsWindow /\ WindowIsKept
  BY <1>1 DEF HistoryIsWindow, WindowIsKept
<1>4. history \in Seq(Int) /\ samples \in Nat
  BY <1>2
<1>5. lastWindow = (IF storedWindow \in WINDOWS THEN storedWindow ELSE "1h")
  BY <1>1, <1>2
<1> QED BY <1>1, <1>3, <1>4, <1>5 DEF MetricsInv

LEMMA MetricsStep == MetricsInv /\ [LiveNext]_liveVars => MetricsInv'
<1> SUFFICES ASSUME MetricsInv, [LiveNext]_liveVars PROVE MetricsInv'
  OBVIOUS
<1> USE HistoryAssumption DEF MetricsInv
<1>1. ASSUME UNCHANGED metricVars, livePage' = livePage, onPage' = onPage \/ (livePage = "dashboard" /\ onPage' \in BOOLEAN)
      PROVE  MetricsInv'
  <2>1. HistoryIsWindow'
    BY <1>1 DEF metricVars, HistoryIsWindow
  <2>2. WindowIsKept'
    BY <1>1 DEF metricVars, WindowIsKept
  <2> QED BY <1>1, <2>1, <2>2 DEF metricVars
<1>2. CASE \/ Answer \/ Settle \/ RefetchInterval \/ ClickRefresh \/ VisibilityChange \/ ServerChange
           \/ EnterDashboard \/ LeaveDashboard
  <2>1. UNCHANGED metricVars /\ livePage' = livePage
    BY <1>2 DEF Answer, Settle, RefetchInterval, ClickRefresh, VisibilityChange, ServerChange,
                EnterDashboard, LeaveDashboard
  <2>2. onPage' = onPage \/ (livePage = "dashboard" /\ onPage' \in BOOLEAN)
    BY <1>2 DEF Answer, Settle, RefetchInterval, ClickRefresh, VisibilityChange, ServerChange,
                EnterDashboard, LeaveDashboard
  <2> QED BY <1>1, <2>1, <2>2
<1>3. CASE EnterMetrics
  <2>1. history' \in Seq(Int) /\ Len(history') = HISTORY_SIZE /\ samples' = HISTORY_SIZE + 1
        /\ \A i \in 1..HISTORY_SIZE : history'[i] = i + 1
    BY <1>3 DEF EnterMetrics
  <2>2. HistoryIsWindow'
    BY <2>1 DEF HistoryIsWindow
  <2>3. WindowIsKept'
    BY <1>3 DEF EnterMetrics, ReadWindow, WindowIsKept
  <2> QED BY <1>3, <2>1, <2>2, <2>3 DEF EnterMetrics
<1>4. CASE LeaveMetrics
  BY <1>4 DEF LeaveMetrics, HistoryIsWindow, WindowIsKept
<1>5. CASE Sample
  <2>1. Len(history) = HISTORY_SIZE /\ \A i \in 1..HISTORY_SIZE : history[i] = samples - HISTORY_SIZE + i
    BY <1>5 DEF Sample, HistoryIsWindow
  <2>2. history' = Append(SubSeq(history, 2, HISTORY_SIZE), samples + 1)
    BY <1>5, <2>1 DEF Sample, Slide
  <2>3. /\ history' \in Seq(Int) /\ Len(history') = HISTORY_SIZE
        /\ \A i \in 1..(HISTORY_SIZE - 1) : history'[i] = history[i + 1]
        /\ history'[HISTORY_SIZE] = samples + 1
    BY <2>1, <2>2
  <2>4. samples' = samples + 1 /\ current' = samples + 1
    BY <1>5 DEF Sample
  <2>5. HistoryIsWindow'
    <3>1. ASSUME NEW i \in 1..HISTORY_SIZE PROVE history'[i] = samples' - HISTORY_SIZE + i
      <4>1. CASE i = HISTORY_SIZE
        BY <2>3, <2>4, <4>1
      <4>2. CASE i \in 1..(HISTORY_SIZE - 1)
        <5>1. i + 1 \in 1..HISTORY_SIZE
          BY <4>2
        <5>2. history'[i] = samples - HISTORY_SIZE + (i + 1)
          BY <2>1, <2>3, <4>2, <5>1
        <5> QED BY <2>4, <5>2
      <4> QED BY <4>1, <4>2
    <3> QED BY <2>3, <2>4, <3>1 DEF HistoryIsWindow
  <2> QED BY <1>5, <2>3, <2>4, <2>5 DEF Sample, WindowIsKept
<1>6. ASSUME NEW t \in TABS, setTab(t) PROVE MetricsInv'
  BY <1>6 DEF setTab, HistoryIsWindow, WindowIsKept
<1>7. ASSUME NEW w \in WINDOWS, setWindow(w) PROVE MetricsInv'
  BY <1>7 DEF setWindow, HistoryIsWindow, WindowIsKept
<1>8. CASE UNCHANGED liveVars
  BY <1>8 DEF liveVars, metricVars, HistoryIsWindow, WindowIsKept
<1> QED BY <1>1, <1>2, <1>3, <1>4, <1>5, <1>6, <1>7, <1>8 DEF LiveNext

(* The sparklines draw exactly the last HISTORY_SIZE samples, for every    *)
(* size and any number of samples and visits.                              *)
THEOREM SparklinesDrawLast == LiveSpec => []HistoryIsWindow
<1>1. MetricsInv => HistoryIsWindow
  BY DEF MetricsInv
<1> QED BY <1>1, MetricsInitially, MetricsStep, PTL DEF LiveSpec

(* The time window chosen last is shown after any number of visits when    *)
(* the browser stores it.                                                  *)
THEOREM ChosenWindowKept == LiveSpec => []WindowIsKept
<1>1. MetricsInv => WindowIsKept
  BY DEF MetricsInv
<1> QED BY <1>1, MetricsInitially, MetricsStep, PTL DEF LiveSpec

(* What LiveTypeOK says of the metrics page alone.                         *)
IntervalInv ==
  /\ onPage \in BOOLEAN /\ tab \in TABS /\ window \in WINDOWS
  /\ intervals = IF livePage = "metrics" /\ onPage THEN 1 ELSE 0
  /\ livePage = "metrics" /\ onPage => connected

LEMMA IntervalStep == IntervalInv /\ [LiveNext]_liveVars => IntervalInv'
<1> SUFFICES ASSUME IntervalInv, [LiveNext]_liveVars PROVE IntervalInv'
  OBVIOUS
<1> USE DEF IntervalInv
<1>1. CASE \/ Answer \/ Settle \/ RefetchInterval \/ ClickRefresh \/ VisibilityChange \/ ServerChange
           \/ EnterDashboard \/ LeaveDashboard
  <2>1. UNCHANGED <<connected, intervals, tab, window>> /\ livePage' = livePage
    BY <1>1 DEF Answer, Settle, RefetchInterval, ClickRefresh, VisibilityChange, ServerChange,
                EnterDashboard, LeaveDashboard, metricVars
  <2>2. onPage' = onPage \/ (livePage = "dashboard" /\ onPage' \in BOOLEAN)
    BY <1>1 DEF Answer, Settle, RefetchInterval, ClickRefresh, VisibilityChange, ServerChange,
                EnterDashboard, LeaveDashboard
  <2> QED BY <2>1, <2>2
<1>2. CASE EnterMetrics
  BY <1>2 DEF EnterMetrics, ReadWindow, TABS, WINDOWS
<1>3. CASE LeaveMetrics
  <2>1. intervals' = 0
    BY <1>3 DEF LeaveMetrics
  <2>2. onPage' = FALSE /\ UNCHANGED <<livePage, tab, window>>
    BY <1>3 DEF LeaveMetrics
  <2> QED BY <2>1, <2>2
<1>4. CASE Sample
  BY <1>4 DEF Sample
<1>5. ASSUME NEW t \in TABS, setTab(t) PROVE IntervalInv'
  BY <1>5 DEF setTab
<1>6. ASSUME NEW w \in WINDOWS, setWindow(w) PROVE IntervalInv'
  BY <1>6 DEF setWindow
<1>7. CASE UNCHANGED liveVars
  BY <1>7 DEF liveVars, metricVars
<1> QED BY <1>1, <1>2, <1>3, <1>4, <1>5, <1>6, <1>7 DEF LiveNext

(* The interval that samples runs once on a mounted metrics page and not   *)
(* at all off it, after any number of visits.                              *)
THEOREM OneIntervalPerVisit == LiveSpec => []LiveTypeOK
<1>1. LiveInit => IntervalInv
  BY DEF LiveInit, IntervalInv, TABS, WINDOWS
<1>2. HealthInv /\ IntervalInv => LiveTypeOK
  BY DEF HealthInv, IntervalInv, LiveTypeOK
<1> QED BY <1>1, <1>2, IntervalStep, HealthInitially, HealthStep, PTL DEF LiveSpec

-----------------------------------------------------------------------------
(* A timer has run for no longer than its toast has been shown.            *)
ToastInv ==
  /\ DOMAIN ages = DOMAIN since
  /\ \A t \in DOMAIN ages : ages[t] \in Nat /\ since[t] \in 0..Duration /\ ages[t] <= since[t]

LEMMA ToastInitially == ProviderInit => ToastInv
  BY DEF ProviderInit, ToastProviderInit, ToastInv

LEMMA RenderStep ==
  ASSUME ToastInv, NEW ts, RenderToasts(ts)
  PROVE  ToastInv'
  BY DurationAssumption DEF ToastInv, RenderToasts

LEMMA ToastStep == ToastInv /\ [ProviderNext]_providerVars => ToastInv'
<1> SUFFICES ASSUME ToastInv, [ProviderNext]_providerVars PROVE ToastInv'
  OBVIOUS
<1>1. CASE (\E t \in Themes : ChooseTheme(t)) \/ ToggleTheme \/ SystemChange
  BY <1>1 DEF ChooseTheme, ToggleTheme, SystemChange, toastVars, ToastInv
<1>2. CASE Reload
  BY <1>2 DEF Reload, ToastInv
<1>3. CASE toast
  BY <1>3, RenderStep DEF toast
<1>4. ASSUME NEW t \in 1..MaxToasts, ClickDismiss(t) \/ ToastTimeout(t) PROVE ToastInv'
  BY <1>4, RenderStep DEF ClickDismiss, ToastTimeout, dismiss
<1>5. CASE ToastTick
  BY <1>5, DurationAssumption DEF ToastTick, ToastInv
<1>6. CASE UNCHANGED providerVars
  BY <1>6 DEF providerVars, ToastInv
<1> QED BY <1>1, <1>2, <1>3, <1>4, <1>5, <1>6 DEF ProviderNext

(* A toast no one dismissed is shown for its whole duration, for every     *)
(* duration and any number of toasts that come and go beside it.           *)
THEOREM NoToastCutShort == ProviderSpec => ShownInFull
<1>1. ToastInv =>
        (\A t \in 1..MaxToasts : t \in DOMAIN since /\ ToastTimeout(t) => since[t] = Duration)
  BY DurationAssumption DEF ToastInv, ToastTimeout
<1> QED BY <1>1, ToastInitially, ToastStep, PTL DEF ProviderSpec, ShownInFull

-----------------------------------------------------------------------------
(* Every button of every component writes the whole text of its field.     *)
LEMMA ButtonsCopyWhole ==
  ASSUME panelKind \in PanelKinds, NEW r, NEW b \in DOMAIN Component(r).copies
  PROVE  Component(r).copies[b] = Full(b, r)
<1>1. CASE panelKind = "tenant"
  <2>1. Component(r) = TenantDetailPanel(r)
    BY <1>1 DEF Component
  <2> QED BY <2>1 DEF TenantDetailPanel
<1>2. CASE panelKind = "upstream"
  <2>1. Component(r) = UpstreamDetailPanel(r)
    BY <1>2 DEF Component
  <2> QED BY <2>1 DEF UpstreamDetailPanel
<1>3. CASE panelKind = "route"
  <2>1. Component(r) = RouteDetailPanel(r)
    BY <1>3 DEF Component
  <2> QED BY <2>1 DEF RouteDetailPanel
<1>4. CASE panelKind = "plugin"
  <2>1. Component(r) = PluginDetailPanel(r)
    BY <1>4 DEF Component
  <2> QED BY <2>1 DEF PluginDetailPanel
<1>5. CASE panelKind = "provider"
  <2>1. Component(r) = ProviderDetailPanel(r)
    BY <1>5 DEF Component
  <2> QED BY <2>1 DEF ProviderDetailPanel
<1>6. CASE panelKind = "consumer"
  <2>1. Component(r) = ConsumerDetailPanel(r)
    BY <1>6 DEF Component
  <2> QED BY <2>1 DEF ConsumerDetailPanel
<1>7. CASE panelKind = "rateLimit"
  <2>1. Component(r) = RateLimitDetailPanel(r)
    BY <1>7 DEF Component
  <2> QED BY <2>1 DEF RateLimitDetailPanel
<1>8. CASE panelKind = "audit"
  <2>1. Component(r) = AuditLogDetailPanel(r)
    BY <1>8 DEF Component
  <2> QED BY <2>1 DEF AuditLogDetailPanel
<1>9. CASE panelKind = "url"
  <2>1. Component(r) = UpstreamUrlDisplay(r)
    BY <1>9 DEF Component
  <2> QED BY <2>1 DEF UpstreamUrlDisplay
<1>10. CASE panelKind = "sha"
  <2>1. Component(r) = PluginShaDisplay(r)
    BY <1>10 DEF Component
  <2> QED BY <2>1 DEF PluginShaDisplay
<1>11. CASE panelKind = "key"
  <2>1. Component(r) = ApiKeyDisplay(r)
    BY <1>11 DEF Component
  <2> QED BY <2>1 DEF ApiKeyDisplay
<1>12. CASE panelKind = "newKey"
  <2>1. Component(r) = ApiKeyGenerateModal(r)
    BY <1>12 DEF Component
  <2> QED BY <2>1 DEF ApiKeyGenerateModal
<1> QED BY PanelAssumption, <1>1, <1>2, <1>3, <1>4, <1>5, <1>6, <1>7, <1>8, <1>9, <1>10, <1>11, <1>12

DetailInv == DetailTypeOK /\ CopiesWhole

LEMMA DetailInitially == DetailInit => DetailInv
  BY DEF DetailInit, DetailInv, DetailTypeOK, CopiesWhole

LEMMA DetailStep == DetailInv /\ [DetailNext]_detailVars => DetailInv'
<1> SUFFICES ASSUME DetailInv, [DetailNext]_detailVars PROVE DetailInv'
  OBVIOUS
<1> USE PanelAssumption DEF DetailInv, DetailTypeOK
<1>1. ASSUME NEW r \in RowIds, OpenPanel(r) PROVE DetailInv'
  <2>1. Buttons' = DOMAIN Component(r).copies /\ DOMAIN timers' = Buttons' /\ marks' = {} /\ opened' = r
    BY <1>1 DEF OpenPanel, Buttons, Component
  <2> QED BY <1>1, <2>1 DEF OpenPanel, CopiesWhole, NoPanel
<1>2. CASE ClosePanel
  BY <1>2 DEF ClosePanel, CopiesWhole, NoPanel
<1>3. ASSUME NEW b \in AllButtons, CopyButton(b) PROVE DetailInv'
  <2>1. Buttons' = Buttons /\ opened' = opened /\ panelKind' = panelKind /\ opened # NoPanel /\ b \in Buttons
    BY <1>3 DEF CopyButton, Buttons, Component
  <2>2. clipboard' = Full(b, opened)
    BY <1>3, <2>1, ButtonsCopyWhole DEF CopyButton, Buttons
  <2>3. CopiesWhole'
    BY <1>3, <2>2 DEF CopyButton, CopiesWhole, Full
  <2>4. marks' = marks \cup {b} /\ timers' = [timers EXCEPT ![b] = timers[b] + 1] /\ timers[b] < MaxTimers
    BY <1>3 DEF CopyButton
  <2> QED BY <2>1, <2>3, <2>4
<1>4. ASSUME NEW b \in AllButtons, Timeout(b) PROVE DetailInv'
  <2>1. Buttons' = Buttons /\ opened' = opened /\ panelKind' = panelKind /\ opened # NoPanel /\ b \in Buttons
    BY <1>4 DEF Timeout, Buttons, Component
  <2>2. marks' = marks \ {b} /\ timers' = [timers EXCEPT ![b] = timers[b] - 1] /\ timers[b] > 0
    BY <1>4 DEF Timeout
  <2> QED BY <1>4, <2>1, <2>2 DEF Timeout, CopiesWhole
<1>5. CASE UNCHANGED detailVars
  BY <1>5 DEF detailVars, CopiesWhole, Buttons, Component
<1> QED BY <1>1, <1>2, <1>3, <1>4, <1>5 DEF DetailNext

(* Whatever was copied last is the whole text of the field whose button    *)
(* was pressed, and every mark has a timer that will take it away, for any *)
(* number of rows and of timers.                                           *)
THEOREM CopiesAreWhole == DetailSpec => [](DetailTypeOK /\ CopiesWhole)
<1>1. DetailInv => DetailTypeOK /\ CopiesWhole
  BY DEF DetailInv
<1> QED BY <1>1, DetailInitially, DetailStep, PTL DEF DetailSpec

(* The changes an audit line lists are those that turn the value before    *)
(* into the value after, whatever the two values hold.                     *)
THEOREM AuditDiffExact == DiffIsExact
<1> SUFFICES ASSUME NEW before \in Diffs, NEW after \in Diffs
    PROVE LET diff == JsonDiff(before, after)
              same == {k \in DOMAIN diff : ~ diff[k].changed}
              moved == DOMAIN after \cap {k \in DOMAIN diff : diff[k].changed}
          IN /\ same \subseteq DOMAIN before
             /\ same \cup moved = DOMAIN after
             /\ \A k \in same : before[k] = after[k]
             /\ DOMAIN before \ DOMAIN after \subseteq {k \in DOMAIN diff : diff[k].changed}
  BY DEF DiffIsExact
<1> DEFINE diff == JsonDiff(before, after)
<1>1. DOMAIN diff = DOMAIN before \cup DOMAIN after
  BY DEF JsonDiff
<1>2. \A k \in DOMAIN before \cup DOMAIN after :
        diff[k].changed <=> k \notin DOMAIN before \/ k \notin DOMAIN after \/ before[k] # after[k]
  BY DEF JsonDiff
<1> HIDE DEF diff
<1>3. \A k \in DOMAIN diff : ~ diff[k].changed => k \in DOMAIN before /\ k \in DOMAIN after /\ before[k] = after[k]
  BY <1>1, <1>2
<1>4. \A k \in DOMAIN after : k \in DOMAIN diff
  BY <1>1
<1>5. \A k \in DOMAIN before \ DOMAIN after : k \in DOMAIN diff /\ diff[k].changed
  BY <1>1, <1>2
<1> QED BY <1>3, <1>4, <1>5 DEF diff

=============================================================================
