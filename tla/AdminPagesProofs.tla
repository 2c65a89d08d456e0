-------------------------- MODULE AdminPagesProofs --------------------------
(***************************************************************************)
(* The resource pages and the frame of the admin UI, for any number of     *)
(* tenants, rows, modals and writes under way.                             *)
(*                                                                         *)
(* That the rows on screen are those of the selected tenant rests on the   *)
(* query keys: a list is cached under the tenant it was asked for, so an   *)
(* answer that comes late goes to the entry of the tenant it belongs to.   *)
(***************************************************************************)
EXTENDS AdminShell, AdminPages, TLAPS

-----------------------------------------------------------------------------
(* The document is never left locked, for any number of modals and rows    *)
(* and in whatever order they open, close and vanish.                      *)
THEOREM DocumentNotLeftLocked == ShellSpec => []ScrollReleased
<1>1. ShellInit => ScrollReleased
  BY DEF ShellInit, ScrollReleased
<1>2. ScrollReleased /\ [ShellNext]_shellVars => ScrollReleased'
  <2> SUFFICES ASSUME ScrollReleased, [ShellNext]_shellVars PROVE ScrollReleased'
    OBVIOUS
  <2> USE DEF ScrollReleased, Lock
  <2>1. ASSUME NEW p, Follow(p) PROVE ScrollReleased'
    BY <2>1 DEF Follow, MountPage
  <2>2. CASE UNCHANGED <<shown, overflow>>
    BY <2>2
  <2>3. CASE Escape
    BY <2>3 DEF Escape
  <2>4. ASSUME NEW m, OpenModal(m) PROVE ScrollReleased'
    BY <2>4 DEF OpenModal
  <2>5. ASSUME NEW m, CloseModal(m) PROVE ScrollReleased'
    BY <2>5 DEF CloseModal
  <2>6. ASSUME NEW R, RowsListed(R) PROVE ScrollReleased'
    BY <2>6 DEF RowsListed
  <2>7. CASE Throw
    BY <2>7 DEF Throw, MountPage
  <2>8. ASSUME NEW g, NEW i, ClickNav(g, i) PROVE ScrollReleased'
    BY <2>8, <2>1 DEF ClickNav
  <2>9. ASSUME NEW p, ClickQuickAction(p) \/ History(p) PROVE ScrollReleased'
    BY <2>9, <2>1 DEF ClickQuickAction, History
  <2>10. CASE PressEnter
    BY <2>10, <2>1 DEF PressEnter, runCommand
  <2>11. ASSUME NEW i, ClickCommand(i) PROVE ScrollReleased'
    BY <2>11, <2>1 DEF ClickCommand, runCommand
  <2>12. CASE ToggleCollapsed \/ OpenPalette \/ TogglePalette \/ ArrowDown \/ ArrowUp \/ ClickBackdrop \/ TryAgain
    BY <2>12, <2>2 DEF ToggleCollapsed, OpenPalette, TogglePalette, ArrowDown, ArrowUp, ClickBackdrop, TryAgain
  <2>13. ASSUME NEW q, TypeQuery(q) PROVE ScrollReleased'
    BY <2>13, <2>2 DEF TypeQuery
  <2>14. ASSUME NEW i, MouseEnter(i) PROVE ScrollReleased'
    BY <2>14, <2>2 DEF MouseEnter
  <2>15. CASE UNCHANGED shellVars
    BY <2>15, <2>2 DEF shellVars
  <2> HIDE DEF ScrollReleased, Lock
  <2> QED BY <2>3, <2>4, <2>5, <2>6, <2>7, <2>8, <2>9, <2>10, <2>11, <2>12, <2>13, <2>14, <2>15 DEF ShellNext
<1> QED BY <1>1, <1>2, PTL DEF ShellSpec

-----------------------------------------------------------------------------
LEMMA NineKinds ==
  Kinds = {"tenants", "upstreams", "routes", "consumers", "rateLimits", "wasmPlugins", "aiProviders",
           "regions", "checkpoints"}
  BY DEF Kinds, Client

(* The key of a page's list is the selected tenant where the kind belongs  *)
(* to one.                                                                 *)
LEMMA ListKey ==
  ASSUME kind \in Kinds, NEW t \in Scopes
  PROVE  Page(t).list.key = (IF kind \in Scoped THEN t ELSE NoTenant)
<1> USE NineKinds DEF Page, PageOf, Query, Scoped
<1>1. CASE kind = "tenants"
  BY <1>1 DEF TenantsPage, useTenants
<1>2. CASE kind = "upstreams"
  BY <1>2 DEF UpstreamsPage, useUpstreams
<1>3. CASE kind = "routes"
  BY <1>3 DEF RoutesPage, useRoutes
<1>4. CASE kind = "consumers"
  BY <1>4 DEF ConsumersPage, useConsumers
<1>5. CASE kind = "rateLimits"
  BY <1>5 DEF RateLimitsPage, useRateLimits
<1>6. CASE kind = "wasmPlugins"
  BY <1>6 DEF WasmPluginsPage, useWasmPlugins
<1>7. CASE kind = "aiProviders"
  BY <1>7 DEF AIProvidersPage, useAiProviders
<1>8. CASE kind = "regions"
  BY <1>8 DEF RegionsPage, useRegions
<1>9. CASE kind = "checkpoints"
  BY <1>9 DEF CheckpointsPage, useCheckpoints
<1> QED BY <1>1, <1>2, <1>3, <1>4, <1>5, <1>6, <1>7, <1>8, <1>9

-----------------------------------------------------------------------------
(* A list belongs to the entry it is in, and so does a fetch under way and *)
(* what it has read.                                                       *)
OwnRows(R, k) == \A i \in R : ScopeOf(i) = k

EntryInv(e, k) ==
  /\ OwnRows(e.data.rows, k)
  /\ e.fetch.phase \in {"sent", "read"} => e.fetch.of = k
  /\ e.fetch.phase = "read" => OwnRows(e.fetch.snap.rows, k)

Lists == [of : Scopes, version : Nat, rows : SUBSET Items, present : BOOLEAN]
Fetches == [phase : {"idle", "sent", "read"}, of : Scopes, snap : Lists]
Entries == [data : Lists, status : {"ok", "invalid", "failed"}, fetch : Fetches]

TenantInv ==
  /\ kind \in Pages /\ tenant \in Scopes
  /\ kind \notin Scoped => tenant = NoTenant
  /\ version \in [Scopes -> Nat]
  /\ cache \in [Scopes -> Entries]
  /\ \A k \in Scopes : EntryInv(cache[k], k)

LEMMA NewEntries ==
  /\ NoTenant \in Scopes /\ EmptyEntry \in Entries /\ Idle \in Fetches /\ Idle.phase = "idle"
  /\ \A k : EntryInv(EmptyEntry, k)
  /\ \A t \in Scopes : Sent(t) \in Fetches /\ Sent(t).phase = "sent" /\ Sent(t).of = t
  BY DEF EmptyEntry, Entries, Lists, Fetches, Idle, Sent, NoData, Scopes, EntryInv, OwnRows

(* A fetch may be started, or an entry marked, in its own entry.           *)
LEMMA EntryChanges ==
  ASSUME NEW e \in Entries, NEW k \in Scopes, EntryInv(e, k), NEW st \in {"ok", "invalid", "failed"}
  PROVE  /\ StartFetch(e, k) \in Entries /\ EntryInv(StartFetch(e, k), k)
         /\ [e EXCEPT !.status = st] \in Entries /\ EntryInv([e EXCEPT !.status = st], k)
<1>1. StartFetch(e, k) \in Entries /\ StartFetch(e, k).data = e.data /\ StartFetch(e, k).fetch = Sent(k)
  BY NewEntries DEF StartFetch, Entries
<1>2. EntryInv(StartFetch(e, k), k)
  BY <1>1, NewEntries DEF EntryInv
<1>3. /\ [e EXCEPT !.status = st] \in Entries
      /\ [e EXCEPT !.status = st].data = e.data /\ [e EXCEPT !.status = st].fetch = e.fetch
  BY DEF Entries
<1> QED BY <1>1, <1>2, <1>3 DEF EntryInv

LEMMA ObserveOwn ==
  ASSUME NEW e \in Entries, NEW k \in Scopes, EntryInv(e, k), NEW stale \in BOOLEAN
  PROVE  Observe(e, k, stale) \in Entries /\ EntryInv(Observe(e, k, stale), k)
  BY EntryChanges DEF Observe

(* The page observes the list of the tenant it has selected and no other.  *)
LEMMA ObservedIsSelected ==
  ASSUME TenantInv, NEW k \in Scopes, Observed(k)
  PROVE  k = tenant
  BY ListKey, ScopesAssumption DEF TenantInv, Observed, Observes

(* One entry of the cache is replaced by one that is its own.              *)
LEMMA ReplaceEntry ==
  ASSUME TenantInv, NEW k \in Scopes, NEW e \in Entries, EntryInv(e, k), cache' = [cache EXCEPT ![k] = e],
         kind' = kind, version' = version, tenant' \in Scopes, kind \notin Scoped => tenant' = NoTenant
  PROVE  TenantInv'
<1>1. \A j \in Scopes : EntryInv(cache'[j], j)
  BY DEF TenantInv
<1>2. \A j, x : OwnRows(x, j) => (\A i \in x : ScopeOf(i)' = j)
  BY DEF OwnRows, ScopeOf
<1>3. cache' \in [Scopes -> Entries]
  BY DEF TenantInv
<1>4. (\A j \in Scopes : EntryInv(cache[j], j))'
  BY <1>1, <1>2 DEF EntryInv, OwnRows
<1> QED BY <1>3, <1>4 DEF TenantInv

LEMMA TenantInitially == PageInit => TenantInv
<1> SUFFICES ASSUME PageInit PROVE TenantInv
  OBVIOUS
<1>1. cache \in [Scopes -> Entries] /\ \A k \in Scopes : EntryInv(cache[k], k)
  BY NewEntries DEF PageInit
<1> QED BY <1>1, NewEntries DEF PageInit, TenantInv

LEMMA TenantStep == TenantInv /\ [PageNext]_pageVars => TenantInv'
<1> SUFFICES ASSUME TenantInv, [PageNext]_pageVars PROVE TenantInv'
  OBVIOUS
<1> USE ScopesAssumption
<1>0. kind \in Kinds
  BY DEF TenantInv
<1>1. ASSUME cache' = cache, kind' = kind, version' \in [Scopes -> Nat], tenant' \in {tenant, NoTenant}
      PROVE  TenantInv'
  <2>1. (\A k \in Scopes : EntryInv(cache[k], k))'
    BY <1>1 DEF TenantInv, EntryInv, OwnRows, ScopeOf
  <2> QED BY <1>1, <2>1, NewEntries DEF TenantInv
<1>2. CASE Enter
  <2>1. PICK stale \in BOOLEAN :
          cache' = IF Page(tenant).list.enabled
                   THEN [cache EXCEPT ![Page(tenant).list.key] = Observe(cache[Page(tenant).list.key], tenant, stale)] ELSE cache
    BY <1>2 DEF Enter
  <2>2. kind' = kind /\ version' = version /\ tenant' = tenant
    BY <1>2 DEF Enter, ServerUnchanged
  <2>3. Page(tenant).list.key = tenant /\ tenant \in Scopes
    BY <1>0, ListKey DEF TenantInv
  <2>4. Observe(cache[tenant], tenant, stale) \in Entries /\ EntryInv(Observe(cache[tenant], tenant, stale), tenant)
    BY <2>3, ObserveOwn DEF TenantInv
  <2>5. CASE cache' = cache
    BY <1>1, <2>2, <2>5 DEF TenantInv
  <2>6. CASE cache' = [cache EXCEPT ![tenant] = Observe(cache[tenant], tenant, stale)]
    BY <2>2, <2>3, <2>4, <2>6, ReplaceEntry DEF TenantInv
  <2> QED BY <2>1, <2>3, <2>5, <2>6
<1>3. ASSUME NEW t \in Scopes, SelectTenant(t) PROVE TenantInv'
  <2>1. PICK stale \in BOOLEAN :
          cache' = IF Page(t).list.enabled
                   THEN [cache EXCEPT ![Page(t).list.key] = Observe(cache[Page(t).list.key], t, stale)] ELSE cache
    BY <1>3 DEF SelectTenant
  <2>2. kind' = kind /\ version' = version /\ tenant' = t /\ kind \in Scoped
    BY <1>3 DEF SelectTenant, ServerUnchanged
  <2>3. Page(t).list.key = t
    BY <1>0, <2>2, ListKey
  <2>4. Observe(cache[t], t, stale) \in Entries /\ EntryInv(Observe(cache[t], t, stale), t)
    BY ObserveOwn DEF TenantInv
  <2>5. CASE cache' = cache
    <3>1. cache' = [cache EXCEPT ![t] = cache[t]] /\ cache[t] \in Entries /\ EntryInv(cache[t], t)
      BY <2>5 DEF TenantInv
    <3> QED BY <2>2, <3>1, ReplaceEntry
  <2>6. CASE cache' = [cache EXCEPT ![t] = Observe(cache[t], t, stale)]
    BY <2>2, <2>4, <2>6, ReplaceEntry
  <2> QED BY <2>1, <2>3, <2>5, <2>6
<1>4. ASSUME NEW k \in Scopes, Refocus(k) PROVE TenantInv'
  <2>1. k = tenant /\ cache' = [cache EXCEPT ![k] = StartFetch(cache[k], k)]
        /\ kind' = kind /\ version' = version /\ tenant' = tenant
    BY <1>4, ObservedIsSelected DEF Refocus, ServerUnchanged
  <2>2. StartFetch(cache[k], k) \in Entries /\ EntryInv(StartFetch(cache[k], k), k)
    BY EntryChanges DEF TenantInv
  <2> QED BY <2>1, <2>2, ReplaceEntry DEF TenantInv
<1>5. ASSUME NEW k \in Scopes, Collect(k) PROVE TenantInv'
  <2>1. cache' = [cache EXCEPT ![k] = EmptyEntry] /\ kind' = kind /\ version' = version /\ tenant' = tenant
    BY <1>5 DEF Collect, ServerUnchanged
  <2> QED BY <2>1, NewEntries, ReplaceEntry DEF TenantInv
<1>6. ASSUME NEW s \in Slots, Settle(s) PROVE TenantInv'
  <2> DEFINE k == muts[s].key
  <2>1. cache' \in {Invalidate(cache, k), cache} /\ kind' = kind /\ version' = version /\ tenant' = tenant
    BY <1>6 DEF Settle
  <2>2. CASE cache' = cache
    BY <1>1, <2>1, <2>2 DEF TenantInv
  <2>3. CASE cache' = Invalidate(cache, k) /\ k \in Scopes
    <3>1. cache[k] \in Entries /\ EntryInv(cache[k], k)
      BY <2>3 DEF TenantInv
    <3> DEFINE marked == [cache[k] EXCEPT !.status = "invalid"]
    <3>2. marked \in Entries /\ EntryInv(marked, k)
      BY <2>3, <3>1, EntryChanges
    <3>3. StartFetch(marked, k) \in Entries /\ EntryInv(StartFetch(marked, k), k)
      BY <2>3, <3>2, EntryChanges
    <3>4. Observed(k) => k = tenant
      BY <2>3, ObservedIsSelected
    <3>5. \E e \in Entries : EntryInv(e, k) /\ cache' = [cache EXCEPT ![k] = e]
      BY <2>3, <3>1, <3>2, <3>3, <3>4 DEF Invalidate
    <3> QED BY <2>1, <2>3, <3>5, ReplaceEntry DEF TenantInv
  <2>4. CASE cache' = Invalidate(cache, k) /\ k \notin Scopes
    <3>1. cache' = cache
      BY <2>4 DEF Invalidate, TenantInv
    <3> QED BY <2>2, <3>1
  <2> QED BY <2>1, <2>2, <2>3, <2>4
<1>7. ASSUME NEW k \in Scopes, FetchRead(k) PROVE TenantInv'
  <2>1. cache[k].fetch.of = k /\ cache[k] \in Entries /\ EntryInv(cache[k], k)
    BY <1>7 DEF FetchRead, TenantInv, EntryInv
  <2>2. Snapshot(k) \in Lists /\ OwnRows(Snapshot(k).rows, k)
    BY DEF Snapshot, Existing, Lists, Rows, OwnRows, TenantInv
  <2> DEFINE e == [cache[k] EXCEPT !.fetch = [phase |-> "read", of |-> k, snap |-> Snapshot(k)]]
  <2>3. e \in Entries /\ EntryInv(e, k)
    BY <2>1, <2>2 DEF Entries, Fetches, EntryInv
  <2>4. cache' = [cache EXCEPT ![k] = e]
    BY <1>7, <2>1 DEF FetchRead
  <2>5. kind' = kind /\ version' = version /\ tenant' = tenant
    BY <1>7 DEF FetchRead
  <2> QED BY <2>3, <2>4, <2>5, ReplaceEntry DEF TenantInv
<1>8. ASSUME NEW k \in Scopes, FetchDone(k) PROVE TenantInv'
  <2> DEFINE e == [data |-> cache[k].fetch.snap, status |-> "ok", fetch |-> Idle]
  <2>1. cache[k] \in Entries /\ OwnRows(cache[k].fetch.snap.rows, k)
    BY <1>8 DEF FetchDone, TenantInv, EntryInv
  <2>2. e \in Entries /\ EntryInv(e, k)
    BY <2>1, NewEntries DEF Entries, Fetches, EntryInv
  <2>3. cache' = [cache EXCEPT ![k] = e] /\ kind' = kind /\ version' = version /\ tenant' = tenant
    BY <1>8 DEF FetchDone, RowsChange
  <2> QED BY <2>2, <2>3, ReplaceEntry DEF TenantInv
<1>9. ASSUME NEW k \in Scopes, FetchFail(k) PROVE TenantInv'
  <2> DEFINE e == [cache[k] EXCEPT !.fetch = Idle, !.status = "failed"]
  <2>1. cache[k] \in Entries /\ EntryInv(cache[k], k)
    BY DEF TenantInv
  <2>2. e \in Entries /\ EntryInv(e, k)
    BY <2>1, NewEntries DEF Entries, Fetches, EntryInv
  <2>3. cache' = [cache EXCEPT ![k] = e]
    BY <1>9 DEF FetchFail
  <2>4. kind' = kind /\ version' = version /\ tenant' = tenant
    BY <1>9 DEF FetchFail, RowsChange
  <2> QED BY <2>2, <2>3, <2>4, ReplaceEntry DEF TenantInv
<1>10. ASSUME NEW s \in Slots, Serve(s) PROVE TenantInv'
  <2>1. cache' = cache /\ kind' = kind /\ tenant' = tenant
    BY <1>10 DEF Serve
  <2>2. version' \in [Scopes -> Nat]
    BY <1>10 DEF Serve, Commit, TenantInv
  <2> QED BY <1>1, <2>1, <2>2
<1>11. ASSUME NEW i \in Rows, OtherWrite(i) PROVE TenantInv'
  <2>1. cache' = cache /\ kind' = kind /\ tenant' = tenant
    BY <1>11 DEF OtherWrite
  <2>2. version' \in [Scopes -> Nat]
    BY <1>11 DEF OtherWrite, Commit, TenantInv
  <2> QED BY <1>1, <2>1, <2>2
<1>12. CASE Leave
  BY <1>1, <1>12 DEF Leave, ServerUnchanged, TenantInv
<1>13. ASSUME PageOnly PROVE TenantInv'
  BY <1>1, <1>13 DEF PageOnly, ServerUnchanged, TenantInv
<1>14. CASE OpenCreate \/ CloseCreate \/ SubmitCreate \/ CloseEdit \/ SubmitEdit \/ CloseRollback \/ ConfirmRollback
  BY <1>13, <1>14 DEF OpenCreate, CloseCreate, SubmitCreate, CloseEdit, SubmitEdit, CloseRollback, ConfirmRollback
<1>15. ASSUME NEW i \in Rows, \/ OpenEdit(i) \/ OpenConfirm(i) \/ CloseConfirm(i) \/ HandleDelete(i)
                              \/ HandleToggle(i) \/ OpenRollback(i)
       PROVE  TenantInv'
  BY <1>13, <1>15 DEF OpenEdit, OpenConfirm, CloseConfirm, HandleDelete, HandleToggle, OpenRollback
<1>16. ASSUME NEW s \in Slots, Refuse(s) PROVE TenantInv'
  BY <1>1, <1>16 DEF Refuse, TenantInv
<1>17. CASE UNCHANGED pageVars
  BY <1>1, <1>17 DEF pageVars, TenantInv
<1> QED BY <1>2, <1>3, <1>4, <1>5, <1>6, <1>7, <1>8, <1>9, <1>10, <1>11, <1>12, <1>14, <1>15, <1>16, <1>17
        DEF PageNext

(* The rows on screen are those of the selected tenant, for any number of  *)
(* tenants and rows and however late the lists asked for before arrive.    *)
THEOREM ScreenShowsSelectedTenant == PageSpec => []RowsOfSelectedTenant
<1>1. TenantInv => RowsOfSelectedTenant
  <2> SUFFICES ASSUME TenantInv, NEW i \in Shown PROVE ScopeOf(i) = tenant
    BY DEF RowsOfSelectedTenant
  <2>1. PICK k \in Scopes : Observed(k) /\ i \in cache[k].data.rows
    BY DEF Shown, ShownIn
  <2>2. k = tenant
    BY <2>1, ObservedIsSelected
  <2> QED BY <2>1, <2>2 DEF TenantInv, EntryInv, OwnRows
<1> QED BY <1>1, TenantInitially, TenantStep, PTL DEF PageSpec

=============================================================================
