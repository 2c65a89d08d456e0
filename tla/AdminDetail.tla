---------------------------- MODULE AdminDetail -----------------------------
(***************************************************************************)
(* The detail panels of the admin UI, the shortened texts in its tables    *)
(* and the copy buttons of both.  `panelKind` is the component, chosen in  *)
(* the initial state; it is mounted on a row, unmounted, mounted again.  A *)
(* button writes to the clipboard, shows a mark and starts a timer that    *)
(* takes the mark away; timers are never cancelled.                        *)
(***************************************************************************)
EXTENDS Naturals, FiniteSets

CONSTANTS
  PanelKinds,  \* the components considered
  RowIds,      \* the rows they may show
  Diffs,       \* the values `before` and `after` of audit entries
  MaxTimers    \* bound: timers a button has pending

ASSUME PanelAssumption ==
  /\ PanelKinds \subseteq {"tenant", "upstream", "route", "plugin", "provider", "consumer", "rateLimit",
                          "audit", "url", "sha", "key", "newKey"}
  /\ RowIds \subseteq Nat \ {0}
  /\ MaxTimers \in Nat

VARIABLES
  panelKind,
  opened,     \* the row shown, or NoPanel
  marks,      \* the buttons that show a mark
  timers,     \* by button of the mounted component, its pending timers
  clipboard,  \* what was last written, or NoText
  pressed     \* the button that wrote it and the row it stood for

detailVars == <<panelKind, opened, marks, timers, clipboard, pressed>>

NoPanel == 0
NoText == [of |-> "none", row |-> 0, whole |-> FALSE]

(* The text of a field of a row, in full or cut to fit.                    *)
Full(x, r) == [of |-> x, row |-> r, whole |-> TRUE]
Cut(x, r) == [of |-> x, row |-> r, whole |-> FALSE]

-----------------------------------------------------------------------------
(* By component, the fields shown and what its copy buttons write.         *)
TenantDetailPanel(r) ==
  [shows |-> {Full(x, r) : x \in {"id", "name", "slug", "created_at", "updated_at"}},
   copies |-> [id |-> Full("id", r), slug |-> Full("slug", r)]]
UpstreamDetailPanel(r) ==
  [shows |-> {Full(x, r) : x \in {"id", "name", "tenant_id", "created_at", "updated_at", "base_url"}},
   copies |-> [id |-> Full("id", r), tenant_id |-> Full("tenant_id", r), base_url |-> Full("base_url", r)]]
RouteDetailPanel(r) ==
  [shows |-> {Full(x, r) : x \in {"id", "tenant_id", "upstream_id", "host", "created_at", "updated_at", "path_prefix"}},
   copies |-> [id |-> Full("id", r), tenant_id |-> Full("tenant_id", r),
               upstream_id |-> Full("upstream_id", r), path_prefix |-> Full("path_prefix", r)]]
PluginDetailPanel(r) ==
  [shows |-> {Full(x, r) : x \in {"id", "name", "version", "tenant_id", "created_at", "sha256"}},
   copies |-> [id |-> Full("id", r), tenant_id |-> Full("tenant_id", r), sha256 |-> Full("sha256", r)]]
ProviderDetailPanel(r) ==
  [shows |-> {Full(x, r) : x \in {"id", "name", "slug", "tenant_id", "created_at", "updated_at"}},
   copies |-> [id |-> Full("id", r), tenant_id |-> Full("tenant_id", r)]]
(* The key of a consumer is known by its prefix only.                      *)
ConsumerDetailPanel(r) ==
  [shows |-> {Full(x, r) : x \in {"id", "name", "tenant_id", "created_at"}} \cup {Cut("api_key_prefix", r)},
   copies |-> [api_key_prefix |-> Full("api_key_prefix", r)]]
RateLimitDetailPanel(r) ==
  [shows |-> {Full(x, r) : x \in {"id", "tenant_id", "rate_limit", "burst_limit", "window_secs", "created_at"}},
   copies |-> << >>]

UpstreamUrlDisplay(r) == [shows |-> {Cut("base_url", r)}, copies |-> [base_url |-> Full("base_url", r)]]
ApiKeyDisplay(r) ==
  [shows |-> {Cut("api_key_prefix", r)}, copies |-> [api_key_prefix |-> Full("api_key_prefix", r)]]
ApiKeyGenerateModal(r) == [shows |-> {Full("key", r)}, copies |-> [key |-> Full("key", r)]]

PluginShaDisplay(r) == [shows |-> {Cut("sha256", r)}, copies |-> [sha256 |-> Full("sha256", r)]]

JsonDiff(before, after) ==
  [k \in DOMAIN before \cup DOMAIN after |->
     [changed |-> k \notin DOMAIN before \/ k \notin DOMAIN after \/ before[k] # after[k], key |-> k]]
AuditLogDetailPanel(r) ==
  [shows |-> {Full(x, r) : x \in {"actor", "id", "resource_id", "created_at", "changes", "metadata"}},
   copies |-> << >>]

Component(r) ==
  CASE panelKind = "tenant"    -> TenantDetailPanel(r)
    [] panelKind = "upstream"  -> UpstreamDetailPanel(r)
    [] panelKind = "route"     -> RouteDetailPanel(r)
    [] panelKind = "plugin"    -> PluginDetailPanel(r)
    [] panelKind = "provider"  -> ProviderDetailPanel(r)
    [] panelKind = "consumer"  -> ConsumerDetailPanel(r)
    [] panelKind = "rateLimit" -> RateLimitDetailPanel(r)
    [] panelKind = "audit"     -> AuditLogDetailPanel(r)
    [] panelKind = "url"       -> UpstreamUrlDisplay(r)
    [] panelKind = "sha"       -> PluginShaDisplay(r)
    [] panelKind = "key"       -> ApiKeyDisplay(r)
    [] panelKind = "newKey"    -> ApiKeyGenerateModal(r)

Buttons == DOMAIN Component(opened).copies

-----------------------------------------------------------------------------
DetailInit ==
  /\ panelKind \in PanelKinds
  /\ opened = NoPanel
  /\ marks = {}
  /\ timers = << >>
  /\ clipboard = NoText
  /\ pressed = [button |-> "none", row |-> NoPanel]

(* A row is clicked, or its table rendered.                                *)
OpenPanel(r) ==
  /\ opened = NoPanel
  /\ opened' = r
  /\ marks' = {}
  /\ timers' = [b \in DOMAIN Component(r).copies |-> 0]
  /\ UNCHANGED <<panelKind, clipboard, pressed>>

(* The backdrop or the X: the buttons go, with their marks; their timers   *)
(* find nothing to change.                                                 *)
ClosePanel ==
  /\ opened # NoPanel
  /\ opened' = NoPanel
  /\ marks' = {}
  /\ timers' = << >>
  /\ UNCHANGED <<panelKind, clipboard, pressed>>

CopyButton(b) ==
  /\ opened # NoPanel
  /\ b \in Buttons
  /\ timers[b] < MaxTimers
  /\ clipboard' = Component(opened).copies[b]
  /\ pressed' = [button |-> b, row |-> opened]
  /\ marks' = marks \cup {b}
  /\ timers' = [timers EXCEPT ![b] = @ + 1]
  /\ UNCHANGED <<panelKind, opened>>

Timeout(b) ==
  /\ opened # NoPanel
  /\ b \in Buttons
  /\ timers[b] > 0
  /\ timers' = [timers EXCEPT ![b] = @ - 1]
  /\ marks' = marks \ {b}
  /\ UNCHANGED <<panelKind, opened, clipboard, pressed>>

AllButtons == {"id", "slug", "tenant_id", "base_url", "upstream_id", "path_prefix", "sha256", "api_key_prefix", "key"}

DetailNext ==
  \/ \E r \in RowIds : OpenPanel(r)
  \/ ClosePanel
  \/ \E b \in AllButtons : CopyButton(b)
  \/ \E b \in AllButtons : Timeout(b)

(* A timer of the browser fires.                                           *)
DetailFairness == \A b \in AllButtons : WF_detailVars(Timeout(b))

DetailSpec == DetailInit /\ [][DetailNext]_detailVars /\ DetailFairness

-----------------------------------------------------------------------------
(* Every variable holds a value of its kind, and a mark has a timer that   *)
(* will take it away.                                                      *)
DetailTypeOK ==
  /\ panelKind \in PanelKinds
  /\ opened \in RowIds \cup {NoPanel}
  /\ opened # NoPanel => DOMAIN timers = Buttons /\ marks \subseteq Buttons
  /\ opened = NoPanel => marks = {}
  /\ \A b \in DOMAIN timers : timers[b] \in 0..MaxTimers
  /\ \A b \in marks : timers[b] > 0

(* The clipboard holds the whole text of the field whose button was last   *)
(* pressed, also where the table shows it cut ("Copy full SHA256",         *)
(* plugin-sha-display.tsx:34).                                             *)
CopiesWhole == clipboard # NoText => clipboard = Full(pressed.button, pressed.row)

(* The mark of a button goes away, however often it is pressed.            *)
MarkEnds == \A b \in AllButtons : b \in marks ~> b \notin marks

(* The keys a change is shown for are those in which the two values differ:*)
(* carrying them over turns the first into the second                      *)
(* (audit-log-detail-panel.tsx:21-31).                                     *)
DiffIsExact ==
  panelKind = "audit" =>
  \A before, after \in Diffs :
    LET diff == JsonDiff(before, after)
        same == {k \in DOMAIN diff : ~ diff[k].changed}
        moved == DOMAIN after \cap {k \in DOMAIN diff : diff[k].changed}
    IN /\ same \subseteq DOMAIN before
       /\ same \cup moved = DOMAIN after
       /\ \A k \in same : before[k] = after[k]
       /\ DOMAIN before \ DOMAIN after \subseteq {k \in DOMAIN diff : diff[k].changed}

=============================================================================
