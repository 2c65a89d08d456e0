------------------------------ MODULE AdminApi ------------------------------
(***************************************************************************)
(* ui/admin/src/api/client.ts, the typed client of the admin UI, and the   *)
(* routes and request bodies of the control API it talks to.  A call is a  *)
(* method and a path below /api/v1; a path is a sequence of segments, and  *)
(* a segment that is a parameter is written "{id}" on both sides.          *)
(***************************************************************************)
EXTENDS Sequences

Call(method, path) == [method |-> method, path |-> path]
InTenant(path) == <<"tenants", "{id}">> \o path
Id == <<"{id}">>

(* A collection with the five operations, and one without get and update.  *)
FullClient(path) ==
  [list   |-> Call("GET", path),        get    |-> Call("GET", path \o Id),
   create |-> Call("POST", path),       update |-> Call("PATCH", path \o Id),
   delete |-> Call("DELETE", path \o Id)]
PlainClient(path) ==
  [list |-> Call("GET", path), create |-> Call("POST", path), delete |-> Call("DELETE", path \o Id)]

tenants == FullClient(<<"tenants">>)
upstreams == FullClient(InTenant(<<"upstreams">>))
routes == FullClient(InTenant(<<"routes">>))
aiProviders == PlainClient(InTenant(<<"ai-providers">>))
rateLimitPolicies == PlainClient(InTenant(<<"rate-limit-policies">>))
wasmPlugins == PlainClient(InTenant(<<"wasm-plugins">>))
consumers == PlainClient(InTenant(<<"consumers">>))
regions == PlainClient(<<"regions">>)
checkpoints ==
  [list     |-> Call("GET", <<"checkpoints">>),
   create   |-> Call("POST", <<"checkpoints">>),
   rollback |-> Call("POST", <<"checkpoints", "{id}", "rollback">>)]

Client ==
  [tenants |-> tenants, upstreams |-> upstreams, routes |-> routes,
   aiProviders |-> aiProviders, rateLimits |-> rateLimitPolicies,
   wasmPlugins |-> wasmPlugins, consumers |-> consumers, regions |-> regions,
   checkpoints |-> checkpoints]

Kinds == DOMAIN Client
ClientCalls == UNION {{Client[k][op] : op \in DOMAIN Client[k]} : k \in Kinds}

(* The kinds whose list and writes are those of one tenant.                *)
Scoped == Kinds \ {"tenants", "regions", "checkpoints"}

-----------------------------------------------------------------------------
(* The control API: what each handler file mounts, and where main mounts   *)
(* it.                                                                     *)
Mount(prefix, calls) == {Call(c.method, prefix \o c.path) : c \in calls}

Crud ==
  {Call("POST", << >>), Call("GET", << >>), Call("GET", Id),
   Call("PATCH", Id), Call("DELETE", Id)}
Checkpoints == {Call("POST", << >>), Call("GET", << >>), Call("POST", <<"rollback">>)}

Router ==
  UNION {Mount(<<"regions">>, Crud),
         Mount(<<"tenants">>, Crud),
         Mount(InTenant(<<"upstreams">>), Crud),
         Mount(InTenant(<<"routes">>), Crud),
         Mount(InTenant(<<"config", "checkpoints">>), Checkpoints),
         Mount(InTenant(<<"ai", "providers">>), Crud),
         Mount(InTenant(<<"rate-limit-policies">>), Crud),
         Mount(InTenant(<<"wasm-plugins">>), Crud)}

=============================================================================
