----------------------------- MODULE AdminPages -----------------------------
(***************************************************************************)
(* One resource page of the admin UI, over the query cache its hooks share *)
(* and the control API behind it.  The pages differ in their hooks, in the *)
(* controls of a row and in whether a tenant is selected first; `kind` is  *)
(* the page, chosen in the initial state.                                  *)
(*                                                                         *)
(* The cache and the mutations are those of @tanstack/react-query 5, a     *)
(* library, modelled from how the hooks use it.  A list is stale after 30  *)
(* seconds (App.tsx), and time is not modelled, so a list that is looked   *)
(* at again may or may not be fetched again.  Calls and answers are        *)
(* separate steps, so that answers, clicks and writes of other             *)
(* administrators interleave.                                              *)
(***************************************************************************)
EXTENDS AdminApi, Naturals

CONSTANTS
  Tenants,      \* the tenants that exist
  NoTenant,     \* '' : no tenant selected; also the scope of unscoped lists
  Items,        \* the rows that may come to exist, in the order of their creation
  NoItem,
  TenantOf,     \* the tenant of a row, NoTenant for one that only unscoped kinds have
  Pages,        \* the kinds of page considered
  Endpoints,    \* the calls that have a handler
  MaxWrites,    \* bound: writes committed by the control API
  Offered,      \* bound: what is selected in the tenant select, by kind
  Slots,        \* places for the writes of a page under way, numbered from 1
  MaxInFlight   \* bound: how many of them a page uses, by kind

ASSUME ScopesAssumption ==
  /\ NoTenant \notin Tenants
  /\ Items \subseteq Nat /\ NoItem \notin Items
  /\ TenantOf \in [Items -> Tenants \cup {NoTenant}]
  /\ Pages \subseteq Kinds
ASSUME BoundsAssumption ==
  /\ MaxWrites \in Nat
  /\ Slots \subseteq Nat /\ MaxInFlight \in [Pages -> Nat]
  /\ Offered \in [Pages -> SUBSET (Tenants \cup {NoTenant})]

VARIABLES
  kind,      \* the page
  db,        \* the rows of the control API: "new" (none yet), "there", "gone"
  version,   \* number of writes committed in each scope
  mounted,   \* whether the page is shown
  tenant,    \* selectedTenant
  cache,     \* the query cache: one entry per query key
  creating,  \* the create form: "closed", "open", "busy"
  editing,   \* the edit form, and the row it was opened for
  confirm,   \* rows whose delete confirmation is open
  target,    \* rollbackTarget
  muts,      \* the mutations under way
  owed       \* per list, the last write of this page its next display must include

pageVars == <<kind, db, version, mounted, tenant, cache, creating, editing,
              confirm, target, muts, owed>>

Scopes == Tenants \cup {NoTenant}
Rows == {i \in Items : kind \in Scoped => TenantOf[i] # NoTenant}

-----------------------------------------------------------------------------
(* The hooks.  A query is a call, the key its answer is cached under and   *)
(* whether it runs at all; a mutation is a call, the scope it writes in    *)
(* and the key its onSuccess invalidates.                                  *)
Query(call, key, enabled) == [call |-> call, key |-> key, enabled |-> enabled]
Mutation(call, scope, key) == [call |-> call, scope |-> scope, key |-> key]

useTenants == Query(tenants.list, NoTenant, TRUE)
useCreateTenant == Mutation(tenants.create, NoTenant, NoTenant)
useUpdateTenant == Mutation(tenants.update, NoTenant, NoTenant)
useDeleteTenant == Mutation(tenants.delete, NoTenant, NoTenant)

useUpstreams(t) == Query(upstreams.list, t, t # NoTenant)
useCreateUpstream(t) == Mutation(upstreams.create, t, t)
useUpdateUpstream(t) == Mutation(upstreams.update, t, t)
useDeleteUpstream(t) == Mutation(upstreams.delete, t, t)

useRoutes(t) == Query(routes.list, t, t # NoTenant)
useCreateRoute(t) == Mutation(routes.create, t, t)
useUpdateRoute(t) == Mutation(routes.update, t, t)
useDeleteRoute(t) == Mutation(routes.delete, t, t)

useConsumers(t) == Query(consumers.list, t, t # NoTenant)
useCreateConsumer(t) == Mutation(consumers.create, t, t)
useDeleteConsumer(t) == Mutation(consumers.delete, t, t)

(* Slips in the rate limit hooks: a key without the tenant, and another    *)
(* key than the list's invalidated.                                        *)
NoTenantInKey(t) == Query(rateLimitPolicies.list, NoTenant, t # NoTenant)
OtherKey(t) == Mutation(rateLimitPolicies.create, t, NoTenant)

useRateLimits(t) == Query(rateLimitPolicies.list, t, t # NoTenant)
useCreateRateLimit(t) == Mutation(rateLimitPolicies.create, t, t)
useDeleteRateLimit(t) == Mutation(rateLimitPolicies.delete, t, t)

useWasmPlugins(t) == Query(wasmPlugins.list, t, t # NoTenant)
useCreateWasmPlugin(t) == Mutation(wasmPlugins.create, t, t)
useDeleteWasmPlugin(t) == Mutation(wasmPlugins.delete, t, t)

useAiProviders(t) == Query(aiProviders.list, t, t # NoTenant)
useCreateAiProvider(t) == Mutation(aiProviders.create, t, t)
useDeleteAiProvider(t) == Mutation(aiProviders.delete, t, t)

useRegions == Query(regions.list, NoTenant, TRUE)
useCreateRegion == Mutation(regions.create, NoTenant, NoTenant)
useDeleteRegion == Mutation(regions.delete, NoTenant, NoTenant)

useCheckpoints == Query(checkpoints.list, NoTenant, TRUE)
useCreateCheckpoint == Mutation(checkpoints.create, NoTenant, NoTenant)
useRollbackCheckpoint == Mutation(checkpoints.rollback, NoTenant, NoTenant)

-----------------------------------------------------------------------------
(* The pages and the controls of their rows: the hooks each one calls with *)
(* the selected tenant t, and those its rows call with the row's own       *)
(* tenant r.                                                               *)
TenantsPage(t) == [list |-> useTenants, create |-> useCreateTenant, edit |-> useUpdateTenant]
TenantRowActions(r) == [toggle |-> useUpdateTenant, delete |-> useDeleteTenant]

UpstreamsPage(t) ==
  [list |-> useUpstreams(t), create |-> useCreateUpstream(t), edit |-> useUpdateUpstream(t)]
UpstreamRowActions(r) == [toggle |-> useUpdateUpstream(r), delete |-> useDeleteUpstream(r)]

RoutesPage(t) ==
  [list |-> useRoutes(t), create |-> useCreateRoute(t), edit |-> useUpdateRoute(t)]
RouteRowActions(r) == [toggle |-> useUpdateRoute(r), delete |-> useDeleteRoute(r)]

ConsumersPage(t) == [list |-> useConsumers(t), create |-> useCreateConsumer(t)]
ConsumerRowActions(r) == [delete |-> useDeleteConsumer(r)]

RateLimitsPage(t) == [list |-> useRateLimits(t), create |-> useCreateRateLimit(t)]
RateLimitRowActions(r) == [delete |-> useDeleteRateLimit(r)]

WasmPluginsPage(t) == [list |-> useWasmPlugins(t), create |-> useCreateWasmPlugin(t)]
PluginRowActions(r) == [delete |-> useDeleteWasmPlugin(r)]

AIProvidersPage(t) == [list |-> useAiProviders(t), create |-> useCreateAiProvider(t)]
ProviderRowActions(r) == [delete |-> useDeleteAiProvider(r)]

RegionsPage(t) == [list |-> useRegions, create |-> useCreateRegion]
RegionRowActions(r) == [delete |-> useDeleteRegion]

CheckpointsPage(t) ==
  [list |-> useCheckpoints, create |-> useCreateCheckpoint, rollback |-> useRollbackCheckpoint]

(* The page and the row controls of every kind, by tenant.                 *)
PageOf ==
  [tenants     |-> [t \in Scopes |-> TenantsPage(t)],
   upstreams   |-> [t \in Scopes |-> UpstreamsPage(t)],
   routes      |-> [t \in Scopes |-> RoutesPage(t)],
   consumers   |-> [t \in Scopes |-> ConsumersPage(t)],
   rateLimits  |-> [t \in Scopes |-> RateLimitsPage(t)],
   wasmPlugins |-> [t \in Scopes |-> WasmPluginsPage(t)],
   aiProviders |-> [t \in Scopes |-> AIProvidersPage(t)],
   regions     |-> [t \in Scopes |-> RegionsPage(t)],
   checkpoints |-> [t \in Scopes |-> CheckpointsPage(t)]]
Page(t) == PageOf[kind][t]

RowActionsOf ==
  [tenants     |-> [r \in Scopes |-> TenantRowActions(r)],
   upstreams   |-> [r \in Scopes |-> UpstreamRowActions(r)],
   routes      |-> [r \in Scopes |-> RouteRowActions(r)],
   consumers   |-> [r \in Scopes |-> ConsumerRowActions(r)],
   rateLimits  |-> [r \in Scopes |-> RateLimitRowActions(r)],
   wasmPlugins |-> [r \in Scopes |-> PluginRowActions(r)],
   aiProviders |-> [r \in Scopes |-> ProviderRowActions(r)],
   regions     |-> [r \in Scopes |-> RegionRowActions(r)],
   checkpoints |-> [r \in Scopes |-> << >>]]
RowActions(r) == RowActionsOf[kind][r]

-----------------------------------------------------------------------------
(* The query cache.  An entry is "failed" when its last fetch failed and   *)
(* "invalid" when it was invalidated since its last fetch ended.           *)
NoData == [of |-> NoTenant, version |-> 0, rows |-> {}, present |-> FALSE]
Idle == [phase |-> "idle", of |-> NoTenant, snap |-> NoData]
Sent(t) == [Idle EXCEPT !.phase = "sent", !.of = t]
EmptyEntry == [data |-> NoData, status |-> "ok", fetch |-> Idle]

ScopeOf(i) == IF kind \in Scoped THEN TenantOf[i] ELSE NoTenant
Existing(t) == {i \in Rows : ScopeOf(i) = t /\ db[i] = "there"}
Snapshot(t) == [of |-> t, version |-> version[t], rows |-> Existing(t), present |-> TRUE]

(* The key the mounted page observes, if any.                              *)
Observes(on, t, k) == on /\ Page(t).list.enabled /\ Page(t).list.key = k
Observed(k) == Observes(mounted, tenant, k)
Fetching(k) == cache[k].fetch.phase # "idle"

(* Rows on screen.  The AI providers page shows its error instead of them. *)
ShownIn(c) ==
  {i \in Rows : \E k \in Scopes :
     /\ Observed(k)
     /\ i \in c[k].data.rows
     /\ kind = "aiProviders" => c[k].status # "failed"}
Shown == ShownIn(cache)

StartFetch(e, t) == [e EXCEPT !.fetch = Sent(t)]

(* An observer appears on an entry: fetch it when it has no data or was    *)
(* invalidated, and when it has gone stale.  A fetch under way is shared.  *)
Observe(e, t, stale) ==
  IF e.fetch.phase = "idle" /\ (~ e.data.present \/ e.status = "invalid" \/ stale)
  THEN StartFetch(e, t) ELSE e

(* invalidateQueries: the entry is marked, and fetched again at once if it *)
(* is observed.  A fetch under way is replaced, except the very first one, *)
(* which is left to finish.                                                *)
Invalidate(c, k) ==
  LET e == c[k]
      marked == [e EXCEPT !.status = "invalid"]
  IN [c EXCEPT ![k] =
        IF e = EmptyEntry THEN e
        ELSE IF Observed(k) /\ (e.data.present \/ ~ Fetching(k)) THEN StartFetch(marked, tenant)
        ELSE marked]

-----------------------------------------------------------------------------
(* Mutations.  `cur`: the mutation is the one its observer (the hook       *)
(* instance that issued it) now follows, so isPending reflects it and its  *)
(* callbacks are those of the last render.  `page`: the page instance that *)
(* issued it is still mounted.  `form`: so is the form that awaits it.     *)
(* `steady`: its page has kept the tenant it was issued for.               *)
NoMut == [op |-> "none", item |-> NoItem, scope |-> NoTenant, key |-> NoTenant, call |-> Call("", << >>),
          cur |-> FALSE, page |-> FALSE, form |-> FALSE, steady |-> FALSE,
          phase |-> "idle", version |-> 0]

RowOps == {"toggle", "delete"}
SameObserver(m, op, i) == m.op = op /\ (op \in RowOps => m.item = i)
Pending(op, i) == \E s \in Slots : muts[s].cur /\ SameObserver(muts[s], op, i)

(* mutate: a free slot takes the new mutation, and its observer lets go of *)
(* the one before.                                                         *)
Mutate(op, i, hook) ==
  \E s \in Slots :
    /\ s <= MaxInFlight[kind]
    /\ muts[s].op = "none"
    /\ \A r \in Slots : r < s => muts[r].op # "none"
    /\ muts' = [r \in Slots |->
         IF r = s
         THEN [op |-> op, item |-> i, scope |-> hook.scope, key |-> hook.key, call |-> hook.call,
               cur |-> TRUE, page |-> TRUE, form |-> op \in {"create", "edit"},
               steady |-> op \notin RowOps, phase |-> "sent", version |-> 0]
         ELSE [muts[r] EXCEPT !.cur = @ /\ ~ SameObserver(muts[r], op, i)]]

(* The page renders with tenant t and shows rows: hooks of the page adopt  *)
(* t, hooks of rows that went away are gone.                               *)
Rerender(ms, t, rows) ==
  [s \in Slots |->
     LET m == ms[s] IN
     IF m.op \in {"create", "edit"} /\ m.cur THEN [m EXCEPT !.key = Page(t)[m.op].key]
     ELSE IF m.op \in RowOps THEN [m EXCEPT !.cur = @ /\ m.item \in rows]
     ELSE m]

DropForm(ms, op) == [s \in Slots |-> [ms[s] EXCEPT !.form = @ /\ ms[s].op # op]]
Unmount(ms) == [s \in Slots |-> [ms[s] EXCEPT !.cur = FALSE, !.page = FALSE, !.form = FALSE, !.steady = FALSE]]

NoEdit == [item |-> NoItem, form |-> "closed"]

-----------------------------------------------------------------------------
PageInit ==
  /\ kind \in Pages
  /\ db \in {d \in [Rows -> {"new", "there"}] :
              \A i, j \in Rows : i < j /\ d[j] = "there" => d[i] = "there"}
  /\ version = [t \in Scopes |-> 0]
  /\ mounted = FALSE
  /\ tenant = NoTenant
  /\ cache = [k \in Scopes |-> EmptyEntry]
  /\ creating = "closed"
  /\ editing = NoEdit
  /\ confirm = {}
  /\ target = NoItem
  /\ muts = [s \in Slots |-> NoMut]
  /\ owed = [t \in Scopes |-> 0]

(* What a user does to the page leaves the server alone.                   *)
ServerUnchanged == UNCHANGED <<kind, db, version, owed>>

-----------------------------------------------------------------------------
(* Nothing under the backdrop of an open dialog can be clicked.            *)
Uncovered == creating = "closed" /\ editing = NoEdit /\ confirm = {} /\ target = NoItem

(* The page is opened from the navigation, and left.                       *)
Enter ==
  /\ ~ mounted
  /\ mounted' = TRUE
  /\ LET q == Page(tenant).list IN
     \E stale \in BOOLEAN :
       cache' = IF q.enabled THEN [cache EXCEPT ![q.key] = Observe(@, tenant, stale)] ELSE cache
  /\ UNCHANGED <<tenant, creating, editing, confirm, target, muts>>
  /\ ServerUnchanged

Leave ==
  /\ mounted
  /\ mounted' = FALSE
  /\ tenant' = NoTenant
  /\ creating' = "closed"
  /\ editing' = NoEdit
  /\ confirm' = {}
  /\ target' = NoItem
  /\ muts' = Unmount(muts)
  /\ UNCHANGED cache
  /\ ServerUnchanged

(* The tenant select: the list of the new tenant is observed and the rows  *)
(* on screen go away; a write under way is not affected.                   *)
SelectTenant(t) ==
  /\ mounted
  /\ kind \in Scoped
  /\ t \in Offered[kind]
  /\ t # tenant
  /\ Uncovered
  /\ tenant' = t
  /\ LET q == Page(t).list IN
     \E stale \in BOOLEAN :
       cache' = IF q.enabled THEN [cache EXCEPT ![q.key] = Observe(@, t, stale)] ELSE cache
  /\ confirm' = {}
  /\ muts' = LET ms == Rerender(muts, t, {})
             IN [s \in Slots |-> [ms[s] EXCEPT !.steady = FALSE]]
  /\ UNCHANGED <<mounted, creating, editing, target>>
  /\ ServerUnchanged

(* The window regains the focus and the list is stale.                     *)
Refocus(k) ==
  /\ Observed(k)
  /\ ~ Fetching(k)
  /\ cache' = [cache EXCEPT ![k] = StartFetch(@, tenant)]
  /\ UNCHANGED <<mounted, tenant, creating, editing, confirm, target, muts>>
  /\ ServerUnchanged

(* A list nobody observes is dropped from the cache after a while.         *)
Collect(k) ==
  /\ cache[k] # EmptyEntry
  /\ ~ Observed(k)
  /\ ~ Fetching(k)
  /\ cache' = [cache EXCEPT ![k] = EmptyEntry]
  /\ UNCHANGED <<mounted, tenant, creating, editing, confirm, target, muts>>
  /\ ServerUnchanged

-----------------------------------------------------------------------------
(* The forms.  The New button needs a tenant; Escape, the backdrop and the *)
(* close button of the dialog work while a submission is under way, Cancel *)
(* does not.                                                               *)
PageOnly == UNCHANGED <<mounted, tenant, cache>> /\ ServerUnchanged

OpenCreate ==
  /\ mounted
  /\ Uncovered
  /\ kind \in Scoped => tenant # NoTenant
  /\ creating' = "open"
  /\ UNCHANGED <<editing, confirm, target, muts>>
  /\ PageOnly

CloseCreate ==
  /\ creating # "closed"
  /\ creating' = "closed"
  /\ muts' = DropForm(muts, "create")
  /\ UNCHANGED <<editing, confirm, target>>
  /\ PageOnly

(* A slip: the submit button and handler do not look at `loading`.         *)
SubmitAgain ==
  /\ creating # "closed"
  /\ creating' = "busy"
  /\ Mutate("create", NoItem, Page(tenant).create)
  /\ UNCHANGED <<editing, confirm, target>>
  /\ PageOnly

SubmitCreate ==
  /\ creating = "open"
  /\ creating' = "busy"
  /\ Mutate("create", NoItem, Page(tenant).create)
  /\ UNCHANGED <<editing, confirm, target>>
  /\ PageOnly

OpenEdit(i) ==
  /\ i \in Shown
  /\ "edit" \in DOMAIN Page(tenant)
  /\ Uncovered
  /\ editing' = [item |-> i, form |-> "open"]
  /\ UNCHANGED <<creating, confirm, target, muts>>
  /\ PageOnly

CloseEdit ==
  /\ editing.form # "closed"
  /\ editing' = NoEdit
  /\ muts' = DropForm(muts, "edit")
  /\ UNCHANGED <<creating, confirm, target>>
  /\ PageOnly

SubmitEdit ==
  /\ editing.form = "open"
  /\ editing' = [editing EXCEPT !.form = "busy"]
  /\ Mutate("edit", editing.item, Page(tenant).edit)
  /\ UNCHANGED <<creating, confirm, target>>
  /\ PageOnly

-----------------------------------------------------------------------------
(* The controls of a row, and the rollback of a checkpoint that is not the *)
(* latest.  Confirm is disabled while its mutation is pending.             *)
OpenConfirm(i) ==
  /\ i \in Shown
  /\ Uncovered
  /\ "delete" \in DOMAIN RowActions(ScopeOf(i))
  /\ confirm' = confirm \cup {i}
  /\ UNCHANGED <<creating, editing, target, muts>>
  /\ PageOnly

CloseConfirm(i) ==
  /\ i \in confirm
  /\ confirm' = confirm \ {i}
  /\ UNCHANGED <<creating, editing, target, muts>>
  /\ PageOnly

HandleDelete(i) ==
  /\ i \in confirm
  /\ ~ Pending("delete", i)
  /\ Mutate("delete", i, RowActions(ScopeOf(i)).delete)
  /\ UNCHANGED <<creating, editing, confirm, target>>
  /\ PageOnly

HandleToggle(i) ==
  /\ i \in Shown
  /\ Uncovered
  /\ "toggle" \in DOMAIN RowActions(ScopeOf(i))
  /\ ~ Pending("toggle", i)
  /\ Mutate("toggle", i, RowActions(ScopeOf(i)).toggle)
  /\ UNCHANGED <<creating, editing, confirm, target>>
  /\ PageOnly

OpenRollback(i) ==
  /\ kind = "checkpoints"
  /\ Uncovered
  /\ i \in Shown
  /\ \E j \in Shown : j > i
  /\ target' = i
  /\ UNCHANGED <<creating, editing, confirm, muts>>
  /\ PageOnly

CloseRollback ==
  /\ target # NoItem
  /\ target' = NoItem
  /\ UNCHANGED <<creating, editing, confirm, muts>>
  /\ PageOnly

ConfirmRollback ==
  /\ target # NoItem
  /\ ~ Pending("rollback", target)
  /\ Mutate("rollback", target, Page(tenant).rollback)
  /\ UNCHANGED <<creating, editing, confirm, target>>
  /\ PageOnly

-----------------------------------------------------------------------------
(* The control API.  A write needs its row to exist in the scope it names; *)
(* a create takes the next new row.  A rollback is accepted and leaves the *)
(* list as it is.                                                          *)
Fresh(t) == {i \in Rows : db[i] = "new" /\ ScopeOf(i) = t}
Room(t) == version[t] < MaxWrites

Commit(i, st, t) ==
  /\ Room(t)
  /\ db' = [db EXCEPT ![i] = st]
  /\ version' = [version EXCEPT ![t] = @ + 1]

CanServe(m) ==
  /\ m.call \in Endpoints
  /\ IF m.op = "create" THEN Fresh(m.scope) # {} ELSE m.item \in Existing(m.scope)
  /\ m.op # "rollback" => Room(m.scope)

Serve(s) ==
  LET m == muts[s] IN
  /\ m.phase = "sent"
  /\ CanServe(m)
  /\ \/ /\ m.op = "create"
        /\ \E i \in Fresh(m.scope) :
             /\ \A j \in Fresh(m.scope) : i <= j
             /\ Commit(i, "there", m.scope)
     \/ m.op \in {"edit", "toggle"} /\ Commit(m.item, "there", m.scope)
     \/ m.op = "delete" /\ Commit(m.item, "gone", m.scope)
     \/ m.op = "rollback" /\ UNCHANGED <<db, version>>
  /\ muts' = [muts EXCEPT ![s].phase = "ok", ![s].version = version'[m.scope]]
  /\ UNCHANGED <<kind, mounted, tenant, cache, creating, editing, confirm, target, owed>>

(* The call fails, before the write or after it.                           *)
Refuse(s) ==
  LET m == muts[s] IN
  /\ m.phase \in {"sent", "ok"}
  /\ muts' = [muts EXCEPT ![s] = [NoMut EXCEPT !.op = m.op, !.item = m.item, !.cur = m.cur,
                                    !.page = m.page, !.form = m.form, !.phase = "err"]]
  /\ UNCHANGED <<kind, db, version, mounted, tenant, cache, creating, editing, confirm, target, owed>>

(* Another administrator writes.                                           *)
OtherWrite(i) ==
  /\ \/ i \in Fresh(ScopeOf(i)) /\ (\A j \in Fresh(ScopeOf(i)) : i <= j) /\ Commit(i, "there", ScopeOf(i))
     \/ db[i] = "there" /\ (\E st \in {"there", "gone"} : Commit(i, st, ScopeOf(i)))
  /\ UNCHANGED <<kind, mounted, tenant, cache, creating, editing, confirm, target, muts, owed>>

-----------------------------------------------------------------------------
(* A write is answered: onSuccess invalidates its list and closes what the *)
(* page opened for it; an error gives the form that awaits it back to the  *)
(* user, and leaves a confirmation open.                                   *)
Settle(s) ==
  LET m == muts[s]
      done == m.phase = "ok"
      closes(op) == done /\ m.page /\ m.op = op
      fails(op) == m.form /\ m.op = op
      rest == [muts EXCEPT ![s] = NoMut]
      owing == /\ cache[m.scope].data.present
               /\ Observed(m.scope) \/ ~ Fetching(m.scope)
               /\ m.op \in RowOps \/ (m.steady /\ Observed(m.scope))
  IN
  /\ m.phase \in {"ok", "err"}
  /\ cache' = IF done THEN Invalidate(cache, m.key) ELSE cache
  /\ creating' = IF closes("create") THEN "closed" ELSE IF fails("create") THEN "open" ELSE creating
  /\ editing' = IF closes("edit") THEN NoEdit
                ELSE IF fails("edit") THEN [editing EXCEPT !.form = "open"] ELSE editing
  /\ confirm' = IF done /\ m.op = "delete" /\ m.cur THEN confirm \ {m.item} ELSE confirm
  /\ target' = IF closes("rollback") THEN NoItem ELSE target
  /\ muts' = IF closes(m.op) THEN DropForm(rest, m.op) ELSE rest
  /\ owed' = IF done /\ owing /\ owed[m.scope] < m.version
             THEN [owed EXCEPT ![m.scope] = m.version] ELSE owed
  /\ UNCHANGED <<kind, db, version, mounted, tenant>>

-----------------------------------------------------------------------------
(* A list call: the handler reads, the answer arrives, or the call fails.  *)
(* The one retry (App.tsx) is part of the call: a call that fails and then *)
(* succeeds is a slow one.                                                 *)
FetchRead(k) ==
  /\ cache[k].fetch.phase = "sent"
  /\ Page(tenant).list.call \in Endpoints
  /\ cache' = [cache EXCEPT ![k].fetch = [phase |-> "read", of |-> @.of, snap |-> Snapshot(@.of)]]
  /\ UNCHANGED <<kind, db, version, mounted, tenant, creating, editing, confirm, target,
                 muts, owed>>

RowsChange ==
  /\ confirm' = confirm \cap ShownIn(cache')
  /\ muts' = Rerender(muts, tenant, ShownIn(cache'))
  /\ UNCHANGED <<kind, db, version, mounted, tenant, creating, editing, target, owed>>

FetchDone(k) ==
  /\ cache[k].fetch.phase = "read"
  /\ cache' = [cache EXCEPT ![k] = [data |-> cache[k].fetch.snap, status |-> "ok", fetch |-> Idle]]
  /\ RowsChange

FetchFail(k) ==
  /\ Fetching(k)
  /\ cache' = [cache EXCEPT ![k] = [@ EXCEPT !.fetch = Idle, !.status = "failed"]]
  /\ RowsChange

-----------------------------------------------------------------------------
PageNext ==
  \/ Enter \/ Leave
  \/ \E t \in Scopes : SelectTenant(t)
  \/ \E k \in Scopes : Refocus(k)
  \/ \E k \in Scopes : Collect(k)
  \/ OpenCreate \/ CloseCreate \/ SubmitCreate
  \/ \E i \in Rows : OpenEdit(i)
  \/ CloseEdit \/ SubmitEdit
  \/ \E i \in Rows : OpenConfirm(i)
  \/ \E i \in Rows : CloseConfirm(i)
  \/ \E i \in Rows : HandleDelete(i)
  \/ \E i \in Rows : HandleToggle(i)
  \/ \E i \in Rows : OpenRollback(i)
  \/ CloseRollback \/ ConfirmRollback
  \/ \E s \in Slots : Serve(s)
  \/ \E s \in Slots : Refuse(s)
  \/ \E s \in Slots : Settle(s)
  \/ \E i \in Rows : OtherWrite(i)
  \/ \E k \in Scopes : FetchRead(k)
  \/ \E k \in Scopes : FetchDone(k)
  \/ \E k \in Scopes : FetchFail(k)

PageSpec == PageInit /\ [][PageNext]_pageVars

-----------------------------------------------------------------------------
Datum == [of : Scopes, version : 0..MaxWrites, rows : SUBSET Rows, present : BOOLEAN]

(* Every variable holds a value of its kind; a write is followed by a form *)
(* or a hook only while the page that issued it is mounted.                *)
PageTypeOK ==
  /\ kind \in Pages
  /\ db \in [Rows -> {"new", "there", "gone"}]
  /\ version \in [Scopes -> 0..MaxWrites]
  /\ mounted \in BOOLEAN
  /\ tenant \in Scopes
  /\ \A k \in Scopes :
       /\ cache[k].data \in Datum
       /\ cache[k].status \in {"ok", "invalid", "failed"}
       /\ cache[k].fetch.phase \in {"idle", "sent", "read"}
       /\ cache[k].fetch.snap \in Datum
  /\ creating \in {"closed", "open", "busy"}
  /\ editing.item \in Rows \cup {NoItem}
  /\ confirm \subseteq Rows
  /\ target \in Rows \cup {NoItem}
  /\ \A s \in Slots : muts[s].cur \/ muts[s].form => muts[s].page /\ mounted
  /\ owed \in [Scopes -> 0..MaxWrites]

(* The rows on screen are those of the selected tenant, however late the   *)
(* lists of the tenants selected before it arrive: the query keys of the   *)
(* hooks name the tenant (use-rate-limits.ts:4).                           *)
RowsOfSelectedTenant == \A i \in Shown : ScopeOf(i) = tenant

(* An acknowledged write of this page is on screen once the list it was    *)
(* made in is at rest: onSuccess refetches, and a list read before the     *)
(* write never replaces one read after it (use-rate-limits.ts:19).       *)
(* Waived: a list whose last fetch failed, which says so; a write          *)
(* acknowledged before the list was first loaded, or while another tenant  *)
(* was selected.                                                           *)
OwnWritesShown ==
  \A k \in Scopes :
    Observed(k) /\ cache[k].data.present /\ ~ Fetching(k) /\ cache[k].status # "failed"
      => cache[k].data.version >= owed[k]

(* A form that is busy has exactly one request under way and no other form *)
(* has any, through closing, reopening and late answers; and a page never  *)
(* has two rollbacks under way, whichever checkpoints they are for         *)
(* (CheckpointsPage.tsx:158, loading).                                     *)
BusyMeansOne ==
  /\ (creating = "busy") = (\E s \in Slots : muts[s].form /\ muts[s].op = "create")
  /\ (editing.form = "busy") = (\E s \in Slots : muts[s].form /\ muts[s].op = "edit")
  /\ \A r, s \in Slots :
       /\ muts[r].form /\ muts[s].form /\ muts[r].op = muts[s].op => r = s
       /\ muts[r].op = "rollback" /\ muts[s].op = "rollback" /\ muts[r].page /\ muts[s].page => r = s

(* "Typed API client for the Barqium control-api" (client.ts:1-3): every   *)
(* call the pages make has a handler in the router of the control API.     *)
CallsAreServed ==
  /\ \A s \in Slots : muts[s].phase = "sent" => muts[s].call \in Endpoints
  /\ \A k \in Scopes : Observed(k) /\ Fetching(k) => Page(tenant).list.call \in Endpoints

=============================================================================
