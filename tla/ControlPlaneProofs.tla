------------------------- MODULE ControlPlaneProofs -------------------------
(***************************************************************************)
(* RouteInTenant for any number of tenants, upstreams, routes and          *)
(* concurrent requests.  It is not inductive: a request writes an upstream *)
(* that it checked earlier.  What carries the check over to the write is   *)
(* that a UUID names one upstream for ever, so that the upstream is either *)
(* gone by then (and the foreign key rejects the write) or still belongs   *)
(* to the tenant it was found in.                                          *)
(***************************************************************************)
EXTENDS ControlPlane, TLAPS

(* The rows carry issued ids, one row per upstream id, in live tenants.    *)
RowsInv ==
  /\ \A u \in upstreams : u.id \in issued /\ u.tenant \in tenants
  /\ \A u, v \in upstreams : u.id = v.id => u = v
  /\ \A r \in routes : r.id \in issued

(* What a running request may still rely on.                               *)
RequestInv ==
  \A q \in Requests : req[q] # Idle =>
    /\ req[q].upstream \in issued
    /\ \A u \in upstreams : u.id = req[q].upstream => u.tenant = req[q].tenant

IInv == TypeOK /\ RowsInv /\ RequestInv /\ RouteInTenant

-----------------------------------------------------------------------------
(* The empty database satisfies the invariant.                             *)
LEMMA InitInv == Init => IInv
  BY DEF Init, IInv, TypeOK, RowsInv, RequestInv, RouteInTenant

(* Every statement of every handler keeps the types of rows and requests.  *)
LEMMA TypeStep == TypeOK /\ [Next]_vars => TypeOK'
<1> SUFFICES ASSUME TypeOK, [Next]_vars PROVE TypeOK'
  OBVIOUS
<1> USE DEF TypeOK, Upstream, Route, Pending, HasUpstream, checkUpstreamInTenant
<1>1. ASSUME NEW t \in TenantIds, createTenant(t) PROVE TypeOK'
  BY <1>1 DEF createTenant
<1>2. ASSUME NEW t \in TenantIds, deleteTenant(t) PROVE TypeOK'
  BY <1>2 DEF deleteTenant
<1>3. ASSUME NEW t \in TenantIds, NEW u \in UpstreamIds, createUpstream(t, u) PROVE TypeOK'
  BY <1>3 DEF createUpstream
<1>4. ASSUME NEW t \in TenantIds, NEW u \in UpstreamIds, deleteUpstream(t, u) PROVE TypeOK'
  BY <1>4 DEF deleteUpstream
<1>5. ASSUME NEW t \in TenantIds, NEW r \in RouteIds, deleteRoute(t, r) PROVE TypeOK'
  BY <1>5 DEF deleteRoute
<1>6. ASSUME NEW q \in Requests, RouteRequest(q) PROVE TypeOK'
  <2>1. ASSUME NEW t \in TenantIds, NEW u \in UpstreamIds, createRoute(q, t, u) PROVE TypeOK'
    BY <2>1 DEF createRoute
  <2>2. ASSUME NEW t \in TenantIds, NEW r \in RouteIds, updateRoute(q, t, r) PROVE TypeOK'
    BY <2>2 DEF updateRoute
  <2>3. ASSUME NEW r \in RouteIds, insertRoute(q, r) PROVE TypeOK'
    <3>1. req[q] \in Pending
      BY <2>3 DEF insertRoute, Idle
    <3> QED BY <2>3, <3>1 DEF insertRoute
  <2>4. ASSUME NEW u \in UpstreamIds, patchUpstream(q, u) PROVE TypeOK'
    <3>1. req[q] \in Pending
      BY <2>4 DEF patchUpstream, Idle
    <3>2. [[req[q] EXCEPT !.op = "update"] EXCEPT !.upstream = u] \in Pending
      BY <3>1
    <3> QED BY <2>4, <3>1, <3>2 DEF patchUpstream
  <2>5. CASE writePatch(q)
    <3>1. req[q] \in Pending
      BY <2>5 DEF writePatch, Idle
    <3>2. routes' \in SUBSET Route
      BY <2>5, <3>1 DEF writePatch
    <3> QED BY <2>5, <3>2 DEF writePatch
  <2>6. CASE refuse(q)
    BY <2>6 DEF refuse
  <2> QED BY <1>6, <2>1, <2>2, <2>3, <2>4, <2>5, <2>6 DEF RouteRequest
<1>7. CASE UNCHANGED vars
  BY <1>7 DEF vars
<1> QED BY <1>1, <1>2, <1>3, <1>4, <1>5, <1>6, <1>7 DEF Next

(* The handlers of tenants and upstreams, and deleteRoute, keep the rest.  *)
LEMMA TableStep ==
  ASSUME IInv,
         \/ \E t \in TenantIds : createTenant(t) \/ deleteTenant(t)
         \/ \E t \in TenantIds, u \in UpstreamIds : createUpstream(t, u) \/ deleteUpstream(t, u)
         \/ \E t \in TenantIds, r \in RouteIds : deleteRoute(t, r)
  PROVE  RowsInv' /\ RequestInv' /\ RouteInTenant'
<1> USE DEF IInv, TypeOK, RowsInv, RequestInv, RouteInTenant, HasUpstream
<1>1. ASSUME NEW t \in TenantIds, createTenant(t)
      PROVE  RowsInv' /\ RequestInv' /\ RouteInTenant'
  BY <1>1 DEF createTenant
<1>2. ASSUME NEW t \in TenantIds, deleteTenant(t)
      PROVE  RowsInv' /\ RequestInv' /\ RouteInTenant'
  <2>1. RowsInv' /\ RequestInv'
    BY <1>2 DEF deleteTenant
  <2>2. RouteInTenant'
    BY <1>2 DEF deleteTenant
  <2> QED BY <2>1, <2>2
<1>3. ASSUME NEW t \in TenantIds, NEW u \in UpstreamIds, createUpstream(t, u)
      PROVE  RowsInv' /\ RequestInv' /\ RouteInTenant'
  <2>1. RowsInv'
    BY <1>3 DEF createUpstream, Upstream
  <2>2. RequestInv'
    BY <1>3 DEF createUpstream
  <2>3. RouteInTenant'
    BY <1>3 DEF createUpstream
  <2> QED BY <2>1, <2>2, <2>3
<1>4. ASSUME NEW t \in TenantIds, NEW u \in UpstreamIds, deleteUpstream(t, u)
      PROVE  RowsInv' /\ RequestInv' /\ RouteInTenant'
  BY <1>4 DEF deleteUpstream
<1>5. ASSUME NEW t \in TenantIds, NEW r \in RouteIds, deleteRoute(t, r)
      PROVE  RowsInv' /\ RequestInv' /\ RouteInTenant'
  BY <1>5 DEF deleteRoute
<1> QED BY <1>1, <1>2, <1>3, <1>4, <1>5

(* So does every step of createRoute and updateRoute.                      *)
LEMMA RequestStep ==
  ASSUME IInv, NEW q \in Requests, RouteRequest(q)
  PROVE  RowsInv' /\ RequestInv' /\ RouteInTenant'
<1> USE DEF IInv, TypeOK, RowsInv, RequestInv, RouteInTenant, HasUpstream,
            checkUpstreamInTenant
<1>1. ASSUME NEW t \in TenantIds, NEW u \in UpstreamIds, createRoute(q, t, u)
      PROVE  RowsInv' /\ RequestInv' /\ RouteInTenant'
  BY <1>1 DEF createRoute, Upstream
<1>2. ASSUME NEW t \in TenantIds, NEW r \in RouteIds, updateRoute(q, t, r)
      PROVE  RowsInv' /\ RequestInv' /\ RouteInTenant'
  <2>1. PICK row \in routes :
          /\ row.id = r /\ row.tenant = t
          /\ req' = [req EXCEPT ![q] =
               [op |-> "patch", tenant |-> t, route |-> r, upstream |-> row.upstream]]
    BY <1>2 DEF updateRoute
  <2> DEFINE found == [id |-> row.upstream, tenant |-> t]
  <2>4. found \in upstreams /\ found.id = row.upstream /\ found.tenant = t
    BY <2>1
  <2>2. \A u \in upstreams : u.id = row.upstream => u.tenant = t
    BY <2>4
  <2>3. row.upstream \in issued
    BY <2>4
  <2> QED BY <1>2, <2>1, <2>2, <2>3 DEF updateRoute
<1>3. ASSUME NEW r \in RouteIds, insertRoute(q, r)
      PROVE  RowsInv' /\ RequestInv' /\ RouteInTenant'
  <2>1. PICK u \in upstreams : u.id = req[q].upstream
    BY <1>3 DEF insertRoute, ForeignKey
  <2>2. u = [id |-> req[q].upstream, tenant |-> req[q].tenant]
    BY <1>3, <2>1 DEF insertRoute, Idle, Upstream
  <2> QED BY <1>3, <2>1, <2>2 DEF insertRoute
<1>4. ASSUME NEW u \in UpstreamIds, patchUpstream(q, u)
      PROVE  RowsInv' /\ RequestInv' /\ RouteInTenant'
  <2>1. req[q] \in Pending
    BY <1>4 DEF patchUpstream, Idle
  <2>2. /\ req'[q].upstream = u /\ req'[q].tenant = req[q].tenant
        /\ \A p \in Requests : p # q => req'[p] = req[p]
    BY <1>4, <2>1 DEF patchUpstream, Pending
  <2> QED BY <1>4, <2>2 DEF patchUpstream, Upstream
<1>5. CASE writePatch(q)
  <2>1. PICK u \in upstreams : u.id = req[q].upstream
    BY <1>5 DEF writePatch, ForeignKey
  <2>2. u = [id |-> req[q].upstream, tenant |-> req[q].tenant]
    BY <1>5, <2>1 DEF writePatch, Idle, Upstream
  <2>3. PICK row \in routes :
          /\ row.id = req[q].route /\ row.tenant = req[q].tenant
          /\ routes' = (routes \ {row}) \union {[row EXCEPT !.upstream = req[q].upstream]}
    BY <1>5 DEF writePatch
  <2>4. \A r \in routes' : r \in routes \/
          (r.id = row.id /\ r.tenant = req[q].tenant /\ r.upstream = req[q].upstream)
    BY <2>3 DEF Route
  <2> QED BY <1>5, <2>1, <2>2, <2>3, <2>4 DEF writePatch
<1>6. CASE refuse(q)
  BY <1>6 DEF refuse
<1> QED BY <1>1, <1>2, <1>3, <1>4, <1>5, <1>6 DEF RouteRequest

-----------------------------------------------------------------------------
(* The invariant holds in every reachable state.                           *)
THEOREM ControlPlaneInvariance == Spec => []IInv
<1>1. ASSUME IInv, [Next]_vars PROVE IInv'
  <2>1. CASE UNCHANGED vars
    BY <1>1, <2>1, TypeStep DEF IInv, RowsInv, RequestInv, RouteInTenant, HasUpstream, vars
  <2>2. CASE Next
    <3>1. CASE \E q \in Requests : RouteRequest(q)
      BY <1>1, <3>1, RequestStep, TypeStep DEF IInv
    <3>2. CASE ~ \E q \in Requests : RouteRequest(q)
      BY <1>1, <2>2, <3>2, TableStep, TypeStep DEF IInv, Next
    <3> QED BY <3>1, <3>2
  <2> QED BY <1>1, <2>1, <2>2
<1> QED BY <1>1, InitInv, PTL DEF Spec

(* A route's upstream exists in the route's own tenant, for every number   *)
(* of concurrent createRoute and updateRoute requests.                     *)
THEOREM RoutesStayInTenant == Spec => []RouteInTenant
<1>1. IInv => RouteInTenant
  BY DEF IInv
<1> QED BY <1>1, ControlPlaneInvariance, PTL

(* Deleting a tenant is never rejected by the routes of another one.       *)
THEOREM TenantsStayDeletable == Spec => []TenantDeletable
<1>1. IInv => TenantDeletable
  BY DEF IInv, RouteInTenant, TenantDeletable, HasUpstream
<1> QED BY <1>1, ControlPlaneInvariance, PTL

(* A deleted route or upstream never comes back, whatever a PATCH that     *)
(* read it before the deletion writes afterwards.                          *)
THEOREM DeletedStaysDeleted == Spec => NoResurrection
<1> DEFINE Kept ==
      /\ \A r \in RouteIds \cap issued :
           (\A row \in routes : row.id # r) => \A row \in routes' : row.id # r
      /\ \A u \in UpstreamIds \cap issued : ~ForeignKey(u) => ~ForeignKey(u)'
<1>1. ASSUME IInv, [Next]_vars PROVE [Kept]_vars
  <2> USE <1>1 DEF ForeignKey
  <2>1. CASE UNCHANGED vars
    BY <2>1 DEF vars
  <2>2. ASSUME NEW t \in TenantIds, createTenant(t) \/ deleteTenant(t) PROVE Kept
    BY <2>2 DEF createTenant, deleteTenant
  <2>3. ASSUME NEW t \in TenantIds, NEW u \in UpstreamIds,
               createUpstream(t, u) \/ deleteUpstream(t, u)
        PROVE  Kept
    BY <2>3 DEF createUpstream, deleteUpstream
  <2>4. ASSUME NEW t \in TenantIds, NEW r \in RouteIds, deleteRoute(t, r) PROVE Kept
    BY <2>4 DEF deleteRoute
  <2>5. ASSUME NEW q \in Requests, RouteRequest(q) PROVE Kept
    <3>1. CASE writePatch(q)
      <4>1. PICK row \in routes :
              routes' = (routes \ {row}) \union {[row EXCEPT !.upstream = req[q].upstream]}
        BY <3>1 DEF writePatch
      <4>2. \A new \in routes' : \E old \in routes : new.id = old.id
        BY <4>1 DEF IInv, TypeOK, Route
      <4> QED BY <3>1, <4>2 DEF writePatch
    <3>2. ASSUME NEW r \in RouteIds, insertRoute(q, r) PROVE Kept
      BY <3>2 DEF insertRoute
    <3>3. CASE UNCHANGED <<routes, upstreams>>
      BY <3>3
    <3> QED BY <2>5, <3>1, <3>2, <3>3 DEF RouteRequest, createRoute, updateRoute,
                                           patchUpstream, refuse
  <2> QED BY <2>1, <2>2, <2>3, <2>4, <2>5 DEF Next
<1> QED BY <1>1, ControlPlaneInvariance, PTL DEF Spec, NoResurrection

=============================================================================
