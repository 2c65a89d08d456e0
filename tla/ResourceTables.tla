--------------------------- MODULE ResourceTables ---------------------------
(***************************************************************************)
(* services/control-api: create, PATCH and delete of the resources whose   *)
(* rows stand alone: tenants, upstreams, regions, AI providers and model   *)
(* policies, rate-limit policies, WASM plugins and checkpoints.            *)
(*                                                                         *)
(* A PATCH reads the row, overlays the fields its body names and writes    *)
(* the WHOLE row back: two statements, no transaction, so other requests   *)
(* run in between.  A field that is absent, null or (for text) empty is    *)
(* not named by the body.                                                  *)
(*                                                                         *)
(* No statement here touches two of the tables, so a behaviour is about    *)
(* one of them, chosen at the start, and about the rows of one tenant.  A  *)
(* row keeps the columns its table's constraints mention and one other.    *)
(***************************************************************************)
EXTENDS Integers, FiniteSets

CONSTANTS
  Tables,      \* the tables a behaviour may be about
  Ids,         \* the UUIDs the database may generate
  Requests,    \* PATCH requests running at the same time
  Names, Urls, \* texts
  Limits,      \* rates, bursts and sequence numbers
  Null

ASSUME LimitsAssumption == Limits \subseteq Int /\ Null \notin Limits

VARIABLES
  table,   \* the table this behaviour is about
  rows,    \* its rows, by id
  issued,  \* every UUID generated so far
  req,     \* the copy of its row each running PATCH has read
  named    \* the columns the last UPDATE's request body named

tableVars == <<table, rows, issued, req, named>>

Idle == [id |-> Null]

(* A plugin's binary: none, a file of zero bytes, or code.                 *)
Binaries == {Null, "empty", "code"}

Columns(t) ==
  CASE t = "tenants" -> [slug : Names, enabled : BOOLEAN]
    [] t = "upstreams" -> [name : Names, url : Urls]
    [] t = "regions" -> [name : Names, is_primary : BOOLEAN]
    [] t = "ai_providers" -> [name : Names, base_url : Urls \union {Null}]
    [] t = "ai_model_policies" -> [model : Names, enabled : BOOLEAN]
    [] t = "rate_limit_policies" ->
         [name : Names, rate_limit : Limits, burst_limit : Limits \union {Null}]
    [] t = "wasm_plugins" ->
         [name : Names, sha256 : {"digest", "storage-backed"},
          storage_url : Urls \union {Null}, wasm_binary : Binaries]
    [] t = "config_checkpoints" -> [sequence : Limits]

TableInit ==
  /\ table \in Tables
  /\ rows = [id \in {} |-> Null]
  /\ issued = {} /\ named = {}
  /\ req = [q \in Requests |-> Idle]

-----------------------------------------------------------------------------
(* The unique columns of each table, within a tenant.  A plugin's name     *)
(* stands for its name and version, a model for its provider and model.    *)
Key(row) ==
  CASE table = "tenants" -> row.slug
    [] table = "ai_model_policies" -> row.model
    [] table = "config_checkpoints" -> row.sequence
    [] OTHER -> row.name

(* A slip: the migrations leave the CHECK constraints out.                 *)
NoCheck(row) == TRUE

(* The CHECK constraints of rate_limit_policies and wasm_plugins.          *)
Check(row) ==
  /\ table = "rate_limit_policies" =>
       /\ row.rate_limit > 0
       /\ row.burst_limit # Null => row.burst_limit >= row.rate_limit
  /\ table = "wasm_plugins" =>
       (row.storage_url = Null) # (row.wasm_binary = Null)

Accepts(id, row) ==
  /\ Check(row)
  /\ \A other \in DOMAIN rows \ {id} : Key(rows[other]) # Key(row)

Insert(id, row) ==
  /\ id \notin issued
  /\ Accepts(id, row)
  /\ rows' = [i \in DOMAIN rows \union {id} |-> IF i = id THEN row ELSE rows[i]]
  /\ issued' = issued \union {id}
  /\ named' = {}
  /\ UNCHANGED <<table, req>>

Delete(id) ==
  /\ id \in DOMAIN rows
  /\ rows' = [i \in DOMAIN rows \ {id} |-> rows[i]]
  /\ named' = {}
  /\ UNCHANGED <<table, issued, req>>

(* The SELECT of a PATCH; checkpoints have no PATCH.                       *)
Get(q, id) ==
  /\ table # "config_checkpoints"
  /\ req[q] = Idle /\ id \in DOMAIN rows
  /\ req' = [req EXCEPT ![q] = [id |-> id, existing |-> rows[id]]]
  /\ named' = {}
  /\ UNCHANGED <<table, rows, issued>>

(* The request bodies for these columns: any of them, with any value.      *)
Bodies(columns) ==
  UNION {{b \in [C -> UNION {columns[c] : c \in C}] : \A c \in C : b[c] \in columns[c]} :
           C \in SUBSET DOMAIN columns}

(* "Patch: only override fields that are provided."                        *)
Overlay(existing, body) ==
  [c \in DOMAIN existing |-> IF c \in DOMAIN body THEN body[c] ELSE existing[c]]

(* The UPDATE of a PATCH.                                                  *)
Update(q, body) ==
  /\ req[q] # Idle
  /\ LET id == req[q].id
         row == Overlay(req[q].existing, body)
     IN  /\ id \in DOMAIN rows
         /\ Accepts(id, row)
         /\ rows' = [rows EXCEPT ![id] = row]
  /\ named' = DOMAIN body
  /\ req' = [req EXCEPT ![q] = Idle]
  /\ UNCHANGED <<table, issued>>

(* 4xx or 500: the body is refused, the row is gone, or a constraint       *)
(* rejects the new one.                                                    *)
Refuse(q) ==
  /\ req[q] # Idle
  /\ req' = [req EXCEPT ![q] = Idle]
  /\ named' = {}
  /\ UNCHANGED <<table, rows, issued>>

-----------------------------------------------------------------------------
createTenant(id) ==
  table = "tenants" /\ \E row \in Columns("tenants") : Insert(id, row)
updateTenant(q) ==
  /\ table = "tenants"
  /\ \E body \in Bodies([slug |-> Names, enabled |-> BOOLEAN]) : Update(q, body)
deleteTenant(id) == table = "tenants" /\ Delete(id)

createUpstream(id) ==
  table = "upstreams" /\ \E row \in Columns("upstreams") : Insert(id, row)
updateUpstream(q) ==
  /\ table = "upstreams"
  /\ \E body \in Bodies([name |-> Names, url |-> Urls]) : Update(q, body)
deleteUpstream(id) == table = "upstreams" /\ Delete(id)

createRegion(id) ==
  table = "regions" /\ \E row \in Columns("regions") : Insert(id, row)
updateRegion(q) ==
  /\ table = "regions"
  /\ \E body \in Bodies([name |-> Names, is_primary |-> BOOLEAN]) : Update(q, body)
deleteRegion(id) == table = "regions" /\ Delete(id)

createAiProvider(id) ==
  table = "ai_providers" /\ \E row \in Columns("ai_providers") : Insert(id, row)
updateAiProvider(q) ==
  /\ table = "ai_providers"
  /\ \E body \in Bodies([name |-> Names, base_url |-> Urls]) : Update(q, body)
deleteAiProvider(id) == table = "ai_providers" /\ Delete(id)

createAiModelPolicy(id) ==
  table = "ai_model_policies" /\ \E row \in Columns("ai_model_policies") : Insert(id, row)
updateAiModelPolicy(q) ==
  /\ table = "ai_model_policies"
  /\ \E body \in Bodies([model |-> Names, enabled |-> BOOLEAN]) : Update(q, body)
deleteAiModelPolicy(id) == table = "ai_model_policies" /\ Delete(id)

(* validateRateLimitRequest looks at the rate but not at the burst.        *)
createRateLimitPolicy(id) ==
  /\ table = "rate_limit_policies"
  /\ \E row \in Columns("rate_limit_policies") : row.rate_limit > 0 /\ Insert(id, row)
(* A rate that is not positive is not an override.                         *)
updateRateLimitPolicy(q) ==
  /\ table = "rate_limit_policies"
  /\ \E body \in Bodies([name |-> Names, rate_limit |-> {n \in Limits : n > 0},
                         burst_limit |-> Limits]) : Update(q, body)
deleteRateLimitPolicy(id) == table = "rate_limit_policies" /\ Delete(id)

(* Multipart carries a file, which may be empty; JSON a storage_url.       *)
createWasmPlugin(id) ==
  /\ table = "wasm_plugins"
  /\ \E name \in Names :
       \/ \E file \in Binaries \ {Null} :
            Insert(id, [name |-> name, storage_url |-> Null, wasm_binary |-> file,
                        sha256 |-> IF file = "empty" THEN "storage-backed" ELSE "digest"])
       \/ \E url \in Urls :
            Insert(id, [name |-> name, storage_url |-> url, wasm_binary |-> Null,
                        sha256 |-> "storage-backed"])

(* A slip: a storage_url replaces the uploaded binary but not its digest.  *)
updateWasmPluginDroppingBinary(q) ==
  /\ table = "wasm_plugins"
  /\ \E body \in Bodies([name |-> Names, storage_url |-> Urls, wasm_binary |-> {Null}]) :
       Update(q, body)
(* storage_url may be named, the binary and its digest never are.          *)
updateWasmPlugin(q) ==
  /\ table = "wasm_plugins"
  /\ \E body \in Bodies([name |-> Names, storage_url |-> Urls]) : Update(q, body)
deleteWasmPlugin(id) == table = "wasm_plugins" /\ Delete(id)

createCheckpoint(id) ==
  /\ table = "config_checkpoints"
  /\ \E row \in Columns("config_checkpoints") : row.sequence > 0 /\ Insert(id, row)

-----------------------------------------------------------------------------
Create(id) ==
  \/ createTenant(id) \/ createUpstream(id) \/ createRegion(id)
  \/ createAiProvider(id) \/ createAiModelPolicy(id)
  \/ createRateLimitPolicy(id) \/ createWasmPlugin(id) \/ createCheckpoint(id)

Patch(q) ==
  \/ updateTenant(q) \/ updateUpstream(q) \/ updateRegion(q)
  \/ updateAiProvider(q) \/ updateAiModelPolicy(q)
  \/ updateRateLimitPolicy(q) \/ updateWasmPlugin(q)

RemoveRow(id) ==
  \/ deleteTenant(id) \/ deleteUpstream(id) \/ deleteRegion(id)
  \/ deleteAiProvider(id) \/ deleteAiModelPolicy(id)
  \/ deleteRateLimitPolicy(id) \/ deleteWasmPlugin(id)

TableNext ==
  \/ \E id \in Ids : Create(id) \/ RemoveRow(id)
  \/ \E q \in Requests : Patch(q) \/ Refuse(q) \/ \E id \in Ids : Get(q, id)

TableSpec == TableInit /\ [][TableNext]_tableVars

-----------------------------------------------------------------------------
(* The burst of a rate-limit policy is never below its rate, although      *)
(* updateRateLimitPolicy never compares the two and one PATCH may raise    *)
(* the rate while another lowers the burst (006_rate_limit_policies.sql:18)*)
BurstCoversRate ==
  table = "rate_limit_policies" =>
    \A id \in DOMAIN rows :
      rows[id].burst_limit = Null \/ rows[id].burst_limit >= rows[id].rate_limit

(* A plugin keeps its kind of source, its binary and its digest for life:  *)
(* a PATCH racing with others never leaves a digest beside a binary it was *)
(* not computed from, or an uploaded plugin without its binary             *)
(* (wasm.go:254-337).                                                      *)
SourceKept ==
  [][table = "wasm_plugins" =>
       \A id \in DOMAIN rows \cap DOMAIN rows' :
         /\ rows'[id].wasm_binary = rows[id].wasm_binary
         /\ rows'[id].sha256 = rows[id].sha256
         /\ (rows'[id].storage_url = Null) = (rows[id].storage_url = Null)]_tableVars

(* A PATCH that read a row before it was deleted does not bring it back.   *)
DeletedStaysDeleted ==
  [][(issued \ DOMAIN rows) \cap DOMAIN rows' = {}]_tableVars

(* "Patch: only override fields that are provided." (tenant.go:193): a     *)
(* PATCH changes no column its body does not name.                         *)
OnlyProvidedFields ==
  [][\A id \in DOMAIN rows \cap DOMAIN rows' : \A c \in DOMAIN rows[id] :
       rows'[id][c] # rows[id][c] => c \in named']_tableVars

=============================================================================
