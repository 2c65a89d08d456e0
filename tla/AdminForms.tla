----------------------------- MODULE AdminForms -----------------------------
(***************************************************************************)
(* The forms of the admin UI: what typing does to their state, what they   *)
(* let through, the request body they build, and what the handler of the   *)
(* control API makes of it.  `formKind` is the form, chosen in the initial *)
(* state; it is opened on nothing (create) or on the stored row (edit),    *)
(* and may be opened several times.                                        *)
(*                                                                         *)
(* A text is a sequence of characters, or of larger tokens where only they *)
(* matter; a number field holds what the browser reads in it and what      *)
(* parseInt makes of it, which differ for "1e3".                           *)
(***************************************************************************)
EXTENDS Integers, Sequences, SequencesExt, TLC

CONSTANTS
  FormKinds,    \* the forms considered
  Inputs,       \* by kind, the pairs <<field, value>> a user may enter
  StoredRows,   \* by kind, rows the control API may already hold
  MaxEdits,     \* bound: entries per opening of the form
  MaxOpenings   \* bound: openings of the form

VARIABLES
  formKind,
  row,        \* the stored row, or NoRow
  initial,    \* the row the form was opened on, or NoRow
  open,       \* whether the form is mounted
  fields,     \* the values of its inputs
  fieldError, \* whether the error of the checked field is shown
  error,      \* whether a failed request is reported
  loading,
  request,    \* the form's request under way (its fields, when sent), or NoForm
  entered,    \* the fields entered by the user, or stored and not to be derived again
  edits, openings

formVars == <<formKind, row, initial, open, fields, fieldError, error, loading, request,
              entered, edits, openings>>

NoRow == [none |-> TRUE]
NoForm == [none |-> TRUE]
NaN == -1

(* String.trim, and the values of a number field.                          *)
Trim(s) ==
  LET solid == {i \in DOMAIN s : s[i] # " "}
  IN IF solid = {} THEN << >> ELSE SubSeq(s, Min(solid), Max(solid))
Blank(s) == Trim(s) = << >>
Number(n) == [value |-> n, parses |-> n]
NoNumber == Number(NaN)
ParsedOr(x, default) == IF x.parses \in {NaN, 0} THEN default ELSE x.parses

-----------------------------------------------------------------------------
(* TenantForm.                                                             *)
Letters == {"a", "b"}
Lower(c) == IF c = "A" THEN "a" ELSE c

(* A slip: runs are replaced but the ends are not trimmed.                 *)
slugifyUntrimmed(s) ==
  LET dash(t, c) == IF Lower(c) \in Letters THEN Append(t, Lower(c))
                    ELSE IF t # << >> /\ Last(t) = "-" THEN t ELSE Append(t, "-")
  IN FoldLeft(dash, << >>, s)

slugify(s) ==
  LET dash(t, c) == IF Lower(c) \in Letters THEN Append(t, Lower(c))
                    ELSE IF t # << >> /\ Last(t) = "-" THEN t ELSE Append(t, "-")
      dashed == FoldLeft(dash, << >>, s)
      kept == {i \in DOMAIN dashed : dashed[i] # "-"}
  IN IF kept = {} THEN << >> ELSE SubSeq(dashed, Min(kept), Max(kept))

TenantForm(r) ==
  IF r = NoRow THEN [name |-> << >>, slug |-> << >>, enabled |-> TRUE, slugEdited |-> FALSE]
  ELSE [name |-> r.name, slug |-> r.slug, enabled |-> r.enabled, slugEdited |-> r.slug # << >>]

(* A slip: a slug that was edited, or was stored, still follows the name.  *)
nameAlwaysSlugs(g, v) == [g EXCEPT !.name = v, !.slug = slugify(v)]
handleName(g, v) ==
  [g EXCEPT !.name = v, !.slug = IF g.slugEdited THEN @ ELSE slugify(v)]

TenantChange(g, x, v) ==
  CASE x = "name" -> handleName(g, v)
    [] x = "slug" -> [g EXCEPT !.slug = v, !.slugEdited = TRUE]
    [] x = "enabled" -> [g EXCEPT !.enabled = v]

(* The submit button, and the constraints the browser checks: both fields  *)
(* are required and the slug has a pattern.                                *)
TenantReady(g) ==
  /\ ~ Blank(g.name)
  /\ g.slug # << >> /\ g.slug[1] \in Letters
  /\ \A i \in DOMAIN g.slug : g.slug[i] \in Letters \cup {"-"}

TenantSubmit(g) == [name |-> Trim(g.name), slug |-> Trim(g.slug), enabled |-> g.enabled]

-----------------------------------------------------------------------------
(* UpstreamForm.  The tokens of a URL are its scheme, its host, a path and *)
(* a slash; a scheme alone does not parse.                                 *)
validateUpstreamUrl(u) ==
  LET t == Trim(u)
      parses == Len(t) > 1 /\ t[2] = "host"
  IN /\ t # << >>
     /\ t[1] \in {"http://", "https://"}
     /\ parses
     /\ t[Len(t)] = "/" => Len(t) = 3

UpstreamForm(r) ==
  IF r = NoRow THEN [name |-> << >>, baseUrl |-> << >>, timeoutMs |-> Number(5000), enabled |-> TRUE]
  ELSE [name |-> r.name, baseUrl |-> << >>, timeoutMs |-> Number(r.timeout_ms), enabled |-> r.enabled]

UpstreamReady(g) ==
  /\ ~ Blank(g.name)
  /\ g.baseUrl # << >>
  /\ g.timeoutMs.value # NaN =>
       g.timeoutMs.value \in 100..300000 /\ g.timeoutMs.value % 100 = 0

UpstreamSubmit(g) ==
  [name |-> Trim(g.name), base_url |-> Trim(g.baseUrl),
   timeout_ms |-> ParsedOr(g.timeoutMs, 5000), enabled |-> g.enabled]

-----------------------------------------------------------------------------
(* RouteForm.                                                              *)
PathChars == Letters \cup {"A", "/", "-", "*"}
validatePathPrefix(p) ==
  LET t == Trim(p) IN
  /\ t # << >>
  /\ t[1] = "/"
  /\ \A i \in DOMAIN t : t[i] \in PathChars

normalizeMethod(m) == IF m \in {"*", ""} THEN "ANY" ELSE m

RouteForm(r) ==
  IF r = NoRow
  THEN [method |-> "ANY", pathPrefix |-> <<"/">>, host |-> << >>, upstreamId |-> "", enabled |-> TRUE]
  ELSE [method |-> normalizeMethod(r.method), pathPrefix |-> r.path_prefix, host |-> r.host,
        upstreamId |-> r.upstream_id, enabled |-> r.enabled]

RouteReady(g) == g.upstreamId # "" /\ g.pathPrefix # << >>

(* A slip: the label of the select is sent as the method.                  *)
RouteSubmitLabel(g) ==
  [method |-> g.method, path_prefix |-> Trim(g.pathPrefix), host |-> Trim(g.host),
   upstream_id |-> g.upstreamId, enabled |-> g.enabled]

(* A host that is blank is left out of the body.                           *)
RouteSubmit(g) ==
  [method |-> IF g.method = "ANY" THEN "*" ELSE g.method, path_prefix |-> Trim(g.pathPrefix),
   host |-> Trim(g.host), upstream_id |-> g.upstreamId, enabled |-> g.enabled]

-----------------------------------------------------------------------------
(* ConsumerForm.                                                           *)
ConsumerForm(r) == [name |-> << >>, enabled |-> TRUE]
ConsumerReady(g) == ~ Blank(g.name)
ConsumerSubmit(g) == [name |-> Trim(g.name), enabled |-> g.enabled]

-----------------------------------------------------------------------------
(* RateLimitForm.                                                          *)
PRESETS ==
  [strict     |-> [name |-> <<"Strict">>, rate |-> 10, window |-> 60, burst |-> 15, algorithm |-> "sliding_window"],
   normal     |-> [name |-> <<"Normal">>, rate |-> 100, window |-> 60, burst |-> 150, algorithm |-> "token_bucket"],
   permissive |-> [name |-> <<"Permissive">>, rate |-> 500, window |-> 60, burst |-> 750, algorithm |-> "fixed_window"]]

RateLimitForm(r) ==
  [name |-> << >>, scope |-> "tenant", algorithm |-> "token_bucket", rateLimit |-> Number(100),
   windowSecs |-> Number(60), burstLimit |-> NoNumber, enabled |-> TRUE]

applyPreset(g, preset) ==
  LET p == PRESETS[preset] IN
  [g EXCEPT !.name = IF @ = << >> THEN p.name ELSE @, !.rateLimit = Number(p.rate),
            !.windowSecs = Number(p.window), !.burstLimit = Number(p.burst),
            !.algorithm = p.algorithm]

RateLimitReady(g) ==
  /\ ~ Blank(g.name)
  /\ g.rateLimit.value >= 1
  /\ g.windowSecs.value >= 1
  /\ g.burstLimit.value # NaN => g.burstLimit.value >= 1

RateLimitSubmit(g) ==
  [name |-> Trim(g.name), scope |-> g.scope, algorithm |-> g.algorithm,
   rate_limit |-> ParsedOr(g.rateLimit, 100), window_secs |-> ParsedOr(g.windowSecs, 60),
   burst_limit |-> g.burstLimit.parses, enabled |-> g.enabled]

-----------------------------------------------------------------------------
(* PluginForm.  A digest is its length and whether it is hexadecimal; the  *)
(* digest is checked and left out of the body.                             *)
NoDigest == [length |-> 0, hex |-> TRUE]
validateSha256(d) == d.length = 0 \/ (d.length = 64 /\ d.hex)

PluginForm(r) ==
  [name |-> << >>, version |-> <<"b">>, trigger |-> "on_request", storageUrl |-> << >>,
   sha256 |-> NoDigest, enabled |-> TRUE]

PluginReady(g) == ~ Blank(g.name) /\ ~ Blank(g.version) /\ g.sha256.length <= 64

PluginSubmit(g) ==
  [name |-> Trim(g.name), version |-> Trim(g.version), trigger |-> g.trigger,
   storage_url |-> Trim(g.storageUrl), enabled |-> g.enabled]

-----------------------------------------------------------------------------
(* ProviderForm: the display name follows the provider until it is edited. *)
Capitalised(slug) == IF slug = "openai" THEN <<"Openai">> ELSE <<"Gemini">>

ProviderForm(r) ==
  [name |-> << >>, slug |-> "openai", baseUrl |-> << >>, apiKeyEnv |-> << >>, enabled |-> TRUE,
   nameEdited |-> FALSE]

handleSlugChange(g, v) ==
  [g EXCEPT !.slug = v, !.name = IF g.nameEdited THEN @ ELSE Capitalised(v)]

ProviderChange(g, x, v) ==
  CASE x = "slug" -> handleSlugChange(g, v)
    [] x = "name" -> [g EXCEPT !.name = v, !.nameEdited = TRUE]
    [] OTHER -> [g EXCEPT ![x] = v]

ProviderReady(g) == ~ Blank(g.name)
ProviderSubmit(g) ==
  [name |-> Trim(g.name), slug |-> g.slug, base_url |-> Trim(g.baseUrl),
   api_key_env |-> Trim(g.apiKeyEnv), enabled |-> g.enabled]

-----------------------------------------------------------------------------
(* RegionForm and CheckpointForm, which do not show an error.              *)
RegionForm(r) == [name |-> << >>, kafkaBrokers |-> << >>, isPrimary |-> FALSE]
RegionReady(g) == ~ Blank(g.name) /\ ~ Blank(g.kafkaBrokers)
RegionSubmit(g) ==
  [name |-> Trim(g.name), kafka_brokers |-> Trim(g.kafkaBrokers), is_primary |-> g.isPrimary]

CheckpointForm(r) == [note |-> << >>]
CheckpointSubmit(g) == [note |-> Trim(g.note)]

-----------------------------------------------------------------------------
(* The form of each kind.                                                  *)
FormOn(r) ==
  CASE formKind = "tenants"     -> TenantForm(r)
    [] formKind = "upstreams"   -> UpstreamForm(r)
    [] formKind = "routes"      -> RouteForm(r)
    [] formKind = "consumers"   -> ConsumerForm(r)
    [] formKind = "rateLimits"  -> RateLimitForm(r)
    [] formKind = "wasmPlugins" -> PluginForm(r)
    [] formKind = "aiProviders" -> ProviderForm(r)
    [] formKind = "regions"     -> RegionForm(r)
    [] formKind = "checkpoints" -> CheckpointForm(r)

Changed(g, x, v) ==
  CASE formKind = "tenants"     -> TenantChange(g, x, v)
    [] formKind = "aiProviders" -> ProviderChange(g, x, v)
    [] x = "preset"             -> applyPreset(g, v)
    [] OTHER                    -> [g EXCEPT ![x] = v]

Ready(g) ==
  CASE formKind = "tenants"     -> TenantReady(g)
    [] formKind = "upstreams"   -> UpstreamReady(g)
    [] formKind = "routes"      -> RouteReady(g)
    [] formKind = "consumers"   -> ConsumerReady(g)
    [] formKind = "rateLimits"  -> RateLimitReady(g)
    [] formKind = "wasmPlugins" -> PluginReady(g)
    [] formKind = "aiProviders" -> ProviderReady(g)
    [] formKind = "regions"     -> RegionReady(g)
    [] formKind = "checkpoints" -> TRUE

(* The field that is checked on every change and again on submit.          *)
CheckedField ==
  CASE formKind = "upstreams" -> "baseUrl" [] formKind = "routes" -> "pathPrefix"
    [] formKind = "wasmPlugins" -> "sha256" [] OTHER -> "none"
FieldValid(g) ==
  CASE formKind = "upstreams"   -> validateUpstreamUrl(g.baseUrl)
    [] formKind = "routes"      -> validatePathPrefix(g.pathPrefix)
    [] formKind = "wasmPlugins" -> validateSha256(g.sha256)
    [] OTHER -> TRUE

Body(g) ==
  CASE formKind = "tenants"     -> TenantSubmit(g)
    [] formKind = "upstreams"   -> UpstreamSubmit(g)
    [] formKind = "routes"      -> RouteSubmit(g)
    [] formKind = "consumers"   -> ConsumerSubmit(g)
    [] formKind = "rateLimits"  -> RateLimitSubmit(g)
    [] formKind = "wasmPlugins" -> PluginSubmit(g)
    [] formKind = "aiProviders" -> ProviderSubmit(g)
    [] formKind = "regions"     -> RegionSubmit(g)
    [] formKind = "checkpoints" -> CheckpointSubmit(g)

Editable == formKind \in {"tenants", "upstreams", "routes"}

-----------------------------------------------------------------------------
(* The handlers of the control API.  A field that is missing from the body *)
(* reads as the empty text; an update takes only the fields that are not.  *)
(* Upstreams are read under `url`, so that what the form calls base_url    *)
(* never arrives.  The last three kinds have no handler at the paths used. *)
slugRe(t) ==
  /\ t # << >>
  /\ t[1] \in Letters /\ t[Len(t)] \in Letters
  /\ \A i \in DOMAIN t : t[i] \in Letters \cup {"-"}

Patched(old, new) == IF new = << >> THEN old ELSE new

CanCreate(b) ==
  CASE formKind = "tenants"     -> b.name # << >> /\ slugRe(b.slug)
    [] formKind = "routes"      -> b.path_prefix # << >>
    [] formKind = "rateLimits"  -> b.name # << >> /\ b.rate_limit > 0 /\ b.window_secs > 0
    [] formKind = "wasmPlugins" -> b.name # << >> /\ b.storage_url # << >>
    [] formKind = "regions"     -> b.name # << >> /\ b.kafka_brokers # << >>
    [] OTHER                    -> FALSE

CanUpdate(b) == formKind = "tenants" /\ b.slug # << >> => slugRe(b.slug)

Updated(r, b) ==
  CASE formKind = "tenants" ->
         [name |-> Patched(r.name, b.name), slug |-> Patched(r.slug, b.slug), enabled |-> b.enabled]
    [] formKind = "upstreams" ->
         [name |-> Patched(r.name, b.name), url |-> r.url,
          timeout_ms |-> IF b.timeout_ms > 0 THEN b.timeout_ms ELSE r.timeout_ms, enabled |-> b.enabled]
    [] formKind = "routes" ->
         [method |-> b.method, path_prefix |-> Patched(r.path_prefix, b.path_prefix),
          host |-> Patched(r.host, b.host), upstream_id |-> b.upstream_id, enabled |-> b.enabled]

-----------------------------------------------------------------------------
FormInit ==
  /\ formKind \in FormKinds
  /\ row \in StoredRows[formKind] \cup {NoRow}
  /\ initial = NoRow
  /\ open = FALSE
  /\ fields = NoForm
  /\ fieldError = FALSE
  /\ error = FALSE
  /\ loading = FALSE
  /\ request = NoForm
  /\ entered = << >>
  /\ edits = 0
  /\ openings = 0

(* The form is mounted anew each time: for a new row, or for the stored    *)
(* one.  One request is followed at a time.                                *)
Open(r) ==
  /\ ~ open
  /\ request = NoForm
  /\ r \in {row, NoRow}
  /\ r # NoRow => Editable
  /\ r = NoRow => row = NoRow
  /\ openings < MaxOpenings
  /\ openings' = openings + 1
  /\ open' = TRUE
  /\ initial' = r
  /\ fields' = FormOn(r)
  /\ fieldError' = FALSE
  /\ error' = FALSE
  /\ loading' = FALSE
  /\ entered' = IF r # NoRow /\ formKind = "tenants" THEN [slug |-> r.slug] ELSE << >>
  /\ edits' = 0
  /\ UNCHANGED <<formKind, row, request>>

(* The form is unmounted, and its state with it.                           *)
Forget ==
  /\ open' = FALSE
  /\ fields' = NoForm
  /\ fieldError' = FALSE
  /\ error' = FALSE
  /\ entered' = << >>
  /\ edits' = 0

(* What the user means to keep: a preset is chosen for its numbers, and an *)
(* emptied field may be filled again.                                      *)
Keeps(e, x, v) ==
  LET gone == IF x = "preset" THEN {"rateLimit", "windowSecs", "burstLimit", "algorithm"} ELSE {x}
      kept == [y \in DOMAIN e \ gone |-> e[y]]
  IN IF x = "preset" \/ (x = "name" /\ v = << >>) THEN kept ELSE kept @@ (x :> v)

(* Inputs stay editable while a request is under way.                      *)
Change(x, v) ==
  /\ open
  /\ edits < MaxEdits
  /\ edits' = edits + 1
  /\ fields' = Changed(fields, x, v)
  /\ entered' = Keeps(entered, x, v)
  /\ fieldError' = IF x = CheckedField THEN ~ FieldValid(fields') ELSE fieldError
  /\ UNCHANGED <<formKind, row, initial, open, error, loading, request, openings>>

(* handleSubmit, when the button is enabled and the browser is satisfied.  *)
Submit ==
  /\ open
  /\ ~ loading
  /\ ~ fieldError
  /\ Ready(fields)
  /\ IF FieldValid(fields)
     THEN /\ error' = FALSE
          /\ loading' = TRUE
          /\ request' = fields
          /\ UNCHANGED fieldError
     ELSE /\ fieldError' = TRUE
          /\ UNCHANGED <<error, loading, request>>
  /\ UNCHANGED <<formKind, row, initial, open, fields, entered, edits, openings>>

(* The handler accepts; the page closes the form.  A form that was closed  *)
(* meanwhile learns nothing.                                               *)
Accept ==
  LET b == Body(request) IN
  /\ request # NoForm
  /\ IF initial = NoRow THEN CanCreate(b) ELSE CanUpdate(b)
  /\ row' = IF initial = NoRow THEN b ELSE Updated(row, b)
  /\ request' = NoForm
  /\ loading' = FALSE
  /\ Forget
  /\ UNCHANGED <<formKind, initial, openings>>

(* The request is refused, or lost.                                        *)
Reject ==
  /\ request # NoForm
  /\ request' = NoForm
  /\ loading' = FALSE
  /\ error' = (error \/ (open /\ formKind \notin {"regions", "checkpoints"}))
  /\ UNCHANGED <<formKind, row, initial, open, fields, fieldError, entered, edits, openings>>

(* Cancel is disabled while a request is under way; Escape is not.         *)
Close ==
  /\ open
  /\ Forget
  /\ UNCHANGED <<formKind, row, initial, loading, request, openings>>

FormNext ==
  \/ \E r \in {row, NoRow} : Open(r)
  \/ \E i \in Inputs[formKind] : Change(i[1], i[2])
  \/ Submit
  \/ Accept
  \/ Reject
  \/ Close

FormSpec == FormInit /\ [][FormNext]_formVars

-----------------------------------------------------------------------------
(* A form that is busy shows no error, and waits for exactly one request;  *)
(* the error under a field is about what the field holds now               *)
(* (route-form.tsx:43).                                                    *)
FormTypeOK ==
  /\ formKind \in FormKinds
  /\ open \in BOOLEAN /\ fieldError \in BOOLEAN /\ error \in BOOLEAN
  /\ edits \in 0..MaxEdits /\ openings \in 0..MaxOpenings
  /\ loading = (request # NoForm)
  /\ loading => ~ error
  /\ open /\ fieldError => ~ FieldValid(fields)

(* What the user entered, and the slug of a stored tenant, is never        *)
(* replaced by a derived value: the slug made from the name, the name made *)
(* from the provider, the name of a preset (tenant-form.tsx:26,            *)
(* provider-form.tsx:28, rate-limit-form.tsx:34).                          *)
EnteredIsKept == open => \A x \in DOMAIN entered : fields[x] = entered[x]

(* Nothing the check of a field refuses is sent, and a request the form    *)
(* lets through passes the checks of the handler that creates the row,     *)
(* provided the slug of a tenant is the suggested one and a plugin names   *)
(* its storage (tenant-form.tsx:13, tenant.go:18).                         *)
CheckedBeforeSent ==
  /\ request # NoForm => FieldValid(request)
  /\ request # NoForm /\ initial = NoRow =>
    CASE formKind = "tenants"     -> request.slugEdited \/ CanCreate(Body(request))
      [] formKind = "wasmPlugins" -> Blank(request.storageUrl) \/ CanCreate(Body(request))
      [] formKind \in {"routes", "rateLimits", "regions"} -> CanCreate(Body(request))
      [] OTHER -> TRUE

(* Opening a stored row and saving it untouched changes nothing, through   *)
(* the conversions to and from the inputs, unless its texts were stored    *)
(* with blanks around them (route-form.tsx:27-28, 54).                     *)
Tidy(r) ==
  CASE formKind = "tenants" -> Trim(r.name) = r.name
    [] formKind = "routes"  -> Trim(r.path_prefix) = r.path_prefix /\ Trim(r.host) = r.host
    [] OTHER -> TRUE
UntouchedSaveIsNoop ==
  [][initial # NoRow /\ request # NoForm /\ Accept /\ Tidy(row) /\ request = FormOn(row) => row' = row]_formVars

=============================================================================
