---------------------------- MODULE ControlPlane ----------------------------
(***************************************************************************)
(* services/control-api: the handlers for tenants, upstreams and routes,   *)
(* and the three tables they share.  A table is the set of its rows; a     *)
(* statement is atomic and keeps the foreign keys, and every id is a fresh *)
(* random UUID.  The route handlers issue several statements with no       *)
(* transaction around them, so between two statements of a request any     *)
(* other request may run.                                                  *)
(*                                                                         *)
(* A request that a handler refuses, or that a constraint rejects (the     *)
(* unique slug, the unique route), changes no row; the columns that only   *)
(* decide whether this happens are left out.                               *)
(***************************************************************************)
EXTENDS Naturals

CONSTANTS
  TenantIds, UpstreamIds, RouteIds,  \* the UUIDs the database may generate
  Requests,                          \* handlers running at the same time
  NoId

ASSUME NoIdAssumption == NoId \notin TenantIds \union UpstreamIds \union RouteIds

VARIABLES
  tenants,    \* ids of the tenants
  upstreams,  \* rows [id, tenant]
  routes,     \* rows [id, tenant, upstream]
  issued,     \* every UUID generated so far
  req         \* what each running route request has read and checked

vars == <<tenants, upstreams, routes, issued, req>>

Upstream == [id : UpstreamIds, tenant : TenantIds]
Route == [id : RouteIds, tenant : TenantIds, upstream : UpstreamIds]
Idle == [op |-> "idle", tenant |-> NoId, route |-> NoId, upstream |-> NoId]
Pending ==
  [op : {"insert", "patch", "update"}, tenant : TenantIds,
   route : RouteIds \union {NoId}, upstream : UpstreamIds]

TypeOK ==
  /\ tenants \in SUBSET TenantIds
  /\ upstreams \in SUBSET Upstream
  /\ routes \in SUBSET Route
  /\ issued \in SUBSET (TenantIds \union UpstreamIds \union RouteIds)
  /\ req \in [Requests -> Pending \union {Idle}]

Init ==
  /\ tenants = {} /\ upstreams = {} /\ routes = {} /\ issued = {}
  /\ req = [q \in Requests |-> Idle]

-----------------------------------------------------------------------------
(* GetUpstream: the row with this id in this tenant.                       *)
HasUpstream(u, t) == [id |-> u, tenant |-> t] \in upstreams

(* routes.upstream_id REFERENCES upstreams (id), in whatever tenant.       *)
ForeignKey(u) == \E row \in upstreams : row.id = u

createTenant(t) ==
  /\ t \notin issued
  /\ tenants' = tenants \union {t}
  /\ issued' = issued \union {t}
  /\ UNCHANGED <<upstreams, routes, req>>

(* A slip in the schema: routes.tenant_id without ON DELETE CASCADE.       *)
deleteTenantKeepingRoutes(t) ==
  /\ t \in tenants
  /\ tenants' = tenants \ {t}
  /\ upstreams' = {u \in upstreams : u.tenant # t}
  /\ UNCHANGED <<routes, issued, req>>

(* ON DELETE CASCADE takes the tenant's upstreams and routes with it.  The *)
(* key from routes to upstreams does not cascade: it is checked at the end *)
(* of the statement, and a route left without its upstream would fail it.  *)
deleteTenant(t) ==
  /\ t \in tenants
  /\ tenants' = tenants \ {t}
  /\ upstreams' = {u \in upstreams : u.tenant # t}
  /\ routes' = {r \in routes : r.tenant # t}
  /\ \A r \in routes' : \E u \in upstreams' : u.id = r.upstream
  /\ UNCHANGED <<issued, req>>

createUpstream(t, u) ==
  /\ t \in tenants /\ u \notin issued
  /\ upstreams' = upstreams \union {[id |-> u, tenant |-> t]}
  /\ issued' = issued \union {u}
  /\ UNCHANGED <<tenants, routes, req>>

(* The foreign key of a route that still uses the upstream rejects it.     *)
deleteUpstream(t, u) ==
  /\ HasUpstream(u, t)
  /\ \A r \in routes : r.upstream # u
  /\ upstreams' = upstreams \ {[id |-> u, tenant |-> t]}
  /\ UNCHANGED <<tenants, routes, issued, req>>

deleteRoute(t, r) ==
  /\ \E row \in routes : row.id = r /\ row.tenant = t /\ routes' = routes \ {row}
  /\ UNCHANGED <<tenants, upstreams, issued, req>>

-----------------------------------------------------------------------------
(* checkUpstreamInTenant: a separate statement before the write.           *)
checkUpstreamInTenant(u, t) == HasUpstream(u, t)

(* createRoute up to the check of its upstream.                            *)
createRoute(q, t, u) ==
  /\ req[q] = Idle
  /\ checkUpstreamInTenant(u, t)
  /\ req' = [req EXCEPT ![q] = [op |-> "insert", tenant |-> t, route |-> NoId, upstream |-> u]]
  /\ UNCHANGED <<tenants, upstreams, routes, issued>>

(* The INSERT of createRoute.                                              *)
insertRoute(q, r) ==
  /\ req[q].op = "insert"
  /\ r \notin issued
  /\ req[q].tenant \in tenants /\ ForeignKey(req[q].upstream)
  /\ routes' = routes \union
       {[id |-> r, tenant |-> req[q].tenant, upstream |-> req[q].upstream]}
  /\ issued' = issued \union {r}
  /\ req' = [req EXCEPT ![q] = Idle]
  /\ UNCHANGED <<tenants, upstreams>>

(* updateRoute reads the row; the request keeps that copy of it.           *)
updateRoute(q, t, r) ==
  /\ req[q] = Idle
  /\ \E row \in routes :
       /\ row.id = r /\ row.tenant = t
       /\ req' = [req EXCEPT ![q] =
                    [op |-> "patch", tenant |-> t, route |-> r, upstream |-> row.upstream]]
  /\ UNCHANGED <<tenants, upstreams, routes, issued>>

(* The body names a new upstream, which is checked like in createRoute.    *)
patchUpstream(q, u) ==
  /\ req[q].op = "patch"
  /\ checkUpstreamInTenant(u, req[q].tenant)
  /\ req' = [req EXCEPT ![q].op = "update", ![q].upstream = u]
  /\ UNCHANGED <<tenants, upstreams, routes, issued>>

(* A slip: an UPSERT where the code has an UPDATE.                         *)
upsertPatch(q) ==
  /\ req[q].op \in {"patch", "update"}
  /\ req[q].tenant \in tenants /\ ForeignKey(req[q].upstream)
  /\ routes' = {row \in routes : row.id # req[q].route} \union
       {[id |-> req[q].route, tenant |-> req[q].tenant, upstream |-> req[q].upstream]}
  /\ req' = [req EXCEPT ![q] = Idle]
  /\ UNCHANGED <<tenants, upstreams, issued>>

(* The UPDATE of updateRoute writes every column, from the copy where the  *)
(* body named none.                                                        *)
writePatch(q) ==
  /\ req[q].op \in {"patch", "update"}
  /\ ForeignKey(req[q].upstream)
  /\ \E row \in routes :
       /\ row.id = req[q].route /\ row.tenant = req[q].tenant
       /\ routes' = (routes \ {row}) \union {[row EXCEPT !.upstream = req[q].upstream]}
  /\ req' = [req EXCEPT ![q] = Idle]
  /\ UNCHANGED <<tenants, upstreams, issued>>

(* The check of the body's upstream, or the write itself, fails: 422, 409  *)
(* or 500, and nothing is changed.                                         *)
refuse(q) ==
  /\ req[q] # Idle
  /\ req' = [req EXCEPT ![q] = Idle]
  /\ UNCHANGED <<tenants, upstreams, routes, issued>>

RouteRequest(q) ==
  \/ \E t \in TenantIds, u \in UpstreamIds : createRoute(q, t, u)
  \/ \E t \in TenantIds, r \in RouteIds : updateRoute(q, t, r)
  \/ \E r \in RouteIds : insertRoute(q, r)
  \/ \E u \in UpstreamIds : patchUpstream(q, u)
  \/ writePatch(q)
  \/ refuse(q)

Next ==
  \/ \E t \in TenantIds : createTenant(t) \/ deleteTenant(t)
  \/ \E t \in TenantIds, u \in UpstreamIds : createUpstream(t, u) \/ deleteUpstream(t, u)
  \/ \E t \in TenantIds, r \in RouteIds : deleteRoute(t, r)
  \/ \E q \in Requests : RouteRequest(q)

Spec == Init /\ [][Next]_vars

-----------------------------------------------------------------------------
(* A route's upstream exists and belongs to the route's own, existing      *)
(* tenant, although the check of the tenant (route.go:79, 212) and the     *)
(* write are separate statements and the foreign key ignores the tenant.   *)
RouteInTenant ==
  \A r \in routes : r.tenant \in tenants /\ HasUpstream(r.upstream, r.tenant)

(* DELETE of a tenant is never rejected because of another tenant's rows:  *)
(* the cascade always leaves every remaining route with its upstream       *)
(* (001_initial_schema.sql:65, 71).                                        *)
TenantDeletable ==
  \A t \in tenants : \A r \in routes :
    r.tenant # t => \E u \in upstreams : u.id = r.upstream /\ u.tenant # t

(* A PATCH that was reading while the route was deleted never brings the   *)
(* row back: a UUID no longer in a table is never in it again.             *)
NoResurrection ==
  [][/\ \A r \in RouteIds \cap issued :
          (\A row \in routes : row.id # r) => \A row \in routes' : row.id # r
     /\ \A u \in UpstreamIds \cap issued : ~ForeignKey(u) => ~ForeignKey(u)']_vars

=============================================================================
