------------------------------ MODULE MCAdminUI -----------------------------
(* Four parts of the admin UI, one at a time: the shell, the pages with    *)
(* their cache of what the control API holds, the forms, and the lists.    *)
(* What a form submits and what a list shows are chosen freely, so each    *)
(* part is checked against anything the others may do.  `part` says which  *)
(* one moves.                                                              *)
EXTENDS AdminShell, AdminPages, AdminForms, AdminLists

VARIABLE part

MCQueries == {NoQuery, {"/tenants", "/upstreams", "/routes"}, {"/ai-providers"}, {}}

-----------------------------------------------------------------------------
(* Every page of the UI; two tenants, the first with a row, and one row of *)
(* the pages that have no tenant.                                          *)
MCItems == 1..2
MCTenantOf == [i \in MCItems |-> IF i = 1 THEN "a" ELSE "none"]
MCTenants == {"a", "b"}
MCPages == Kinds
MCMaxInFlight == [k \in MCPages |-> IF k = "checkpoints" THEN 2 ELSE 1]
MCOffered == [k \in MCPages |-> IF k = "rateLimits" THEN MCTenants ELSE {"a", "none"}]
MCEndpoints == Router \cup ClientCalls

-----------------------------------------------------------------------------
(* Texts of at most three characters, a few numbers, one stored row or two *)
(* of each kind that can be edited.                                        *)
MCFormKinds == {"tenants", "upstreams", "routes", "consumers", "rateLimits", "wasmPlugins",
            "aiProviders", "regions", "checkpoints"}
Names == {<<c>> : c \in {"A", "-", " "}} \cup {<<"a", c>> : c \in {"A", "-", " "}} \cup
         {<<c, "a">> : c \in {"-", " "}} \cup {<<"a", " ", "A">>}
Switch == {<<"enabled", FALSE>>}
Texts(x) == {<<x, << >>>>, <<x, <<" ">>>>, <<x, <<"a">>>>, <<x, <<" ", "a">>>>}

MCInputs ==
  [tenants     |-> ({"name"} \X Names) \cup {<<"slug", <<"a", "-">>>>, <<"slug", <<"b">>>>, <<"slug", << >>>>} \cup Switch,
   upstreams   |-> Texts("name") \cup Switch \cup
                   ({"baseUrl"} \X {<<"http://">>, <<"host">>, <<"http://", "host">>, <<"http://", "host", "/">>,
                                    <<" ", "https://", "host", "path">>, <<"http://", "host", "path", "/">>}) \cup
                   ({"timeoutMs"} \X {NoNumber, Number(0), Number(150), Number(200)}),
   routes      |-> ({"pathPrefix"} \X {<<"/", "a">>, <<" ", "/">>, <<"a">>, <<"/", " ", "a">>, <<"/", "?">>}) \cup
                   Texts("host") \cup {<<"method", "GET">>, <<"method", "ANY">>, <<"upstreamId", "u">>} \cup Switch,
   consumers   |-> Texts("name") \cup Switch,
   rateLimits  |-> Texts("name") \cup ({"preset"} \X DOMAIN PRESETS) \cup
                   ({"rateLimit", "windowSecs", "burstLimit"} \X
                      {NoNumber, Number(0), Number(7), [value |-> 1000, parses |-> 1]}) \cup
                   {<<"scope", "ip">>},
   wasmPlugins |-> Texts("name") \cup Texts("storageUrl") \cup
                   ({"sha256"} \X {NoDigest, [length |-> 63, hex |-> TRUE], [length |-> 64, hex |-> TRUE],
                                   [length |-> 64, hex |-> FALSE]}),
   aiProviders |-> Texts("name") \cup ({"slug"} \X {"openai", "gemini"}) \cup Texts("baseUrl"),
   regions     |-> Texts("name") \cup Texts("kafkaBrokers") \cup {<<"isPrimary", TRUE>>},
   checkpoints |-> Texts("note")]

MCStoredRows ==
  [k \in MCFormKinds |->
     CASE k = "tenants"   -> {[name |-> <<"a">>, slug |-> <<"b">>, enabled |-> TRUE]}
       [] k = "upstreams" -> {[name |-> <<"a">>, url |-> <<"http://", "host">>, timeout_ms |-> 250, enabled |-> TRUE]}
       [] k = "routes"    -> {[method |-> m, path_prefix |-> p, host |-> h, upstream_id |-> "u", enabled |-> TRUE] :
                                m \in {"*", "GET"}, p \in {<<"/">>, <<"/", " ">>}, h \in {<< >>, <<"b">>}}
       [] OTHER -> {}]

-----------------------------------------------------------------------------
(* Five rows of each kind and pages of two: three pages, the last one half *)
(* full.  The texts tell every searched field apart.                       *)
MCListKinds == Tables \cup {"aiProviders", "regions", "checkpoints"}
Text(i) == CASE i = 1 -> <<"A">> [] i = 2 -> <<"b">> [] i = 3 -> <<"b", "a">> [] OTHER -> <<"c">>
Odd(i) == i % 2 = 1

MCPool ==
  [tenants     |-> [i \in 1..5 |-> [id |-> i, name |-> Text(i), slug |-> IF i = 5 THEN <<"a">> ELSE <<"d">>, enabled |-> Odd(i)]],
   upstreams   |-> [i \in 1..5 |-> [id |-> i, name |-> Text(i), base_url |-> IF i = 5 THEN <<"a">> ELSE <<"d">>, enabled |-> Odd(i)]],
   routes      |-> [i \in 1..5 |-> [id |-> i, path_prefix |-> Text(i), host |-> IF i = 5 THEN <<"a">> ELSE << >>,
                                    enabled |-> Odd(i), method |-> IF i <= 3 THEN "*" ELSE "GET"]],
   consumers   |-> [i \in 1..5 |-> [id |-> i, name |-> Text(i), enabled |-> Odd(i), api_key_prefix |-> IF i = 1 THEN "bq" ELSE ""]],
   rateLimits  |-> [i \in 1..5 |-> [id |-> i, name |-> Text(i), scope |-> IF Odd(i) THEN "tenant" ELSE "ip",
                                    algorithm |-> IF i <= 3 THEN "token_bucket" ELSE "fixed_window"]],
   wasmPlugins |-> [i \in 1..5 |-> [id |-> i, name |-> Text(i), trigger |-> IF Odd(i) THEN "on_request" ELSE "both"]],
   auditLog    |-> <<[id |-> 1, event_type |-> <<"a", ",">>, resource_type |-> <<"\"">>, resource_id |-> << >>, actor |-> <<"b", "\n">>,
                      actor_type |-> <<"\"">>, created_at |-> <<"d1">>],
                     [id |-> 2, event_type |-> <<",">>, resource_type |-> <<"a", "\"", "\"">>, resource_id |-> <<"c">>, actor |-> << >>,
                      created_at |-> <<"d1">>],
                     [id |-> 3, event_type |-> <<"\"", ",", "\"">>, resource_type |-> <<"c">>, resource_id |-> <<"\n">>, actor |-> <<"A">>,
                      actor_type |-> <<"a">>, created_at |-> <<"d2">>]>>,
   aiProviders |-> [i \in 1..2 |-> [id |-> i]],
   regions     |-> [i \in 1..3 |-> [id |-> i, is_primary |-> Odd(i)]],
   checkpoints |-> [i \in 1..5 |-> [id |-> i, sequence |-> <<2, 5, 1, 4, 3>>[i]]]]

MCSearches == {<< >>, <<"A">>, <<"b">>}
MCOptions ==
  [status |-> {"all", "active", "inactive"}, method |-> {"all", "any", "GET"},
   scope |-> {"all", "tenant"}, algorithm |-> {"all", "token_bucket"},
   trigger |-> {"all", "on_request"}, eventType |-> {"all", "create"}, actor |-> {"all", "a"},
   dateFrom |-> {"all", "d1"}, dateTo |-> {"all", "d2"}]

-----------------------------------------------------------------------------
(* The parts that do not move have one initial state.                      *)
UIInit ==
  /\ part \in {"shell", "pages", "forms", "lists"}
  /\ ShellInit /\ (part # "shell" => pathname = "/")
  /\ PageInit /\ (part # "pages" => kind = "tenants" /\ \A i \in Rows : db[i] = "new")
  /\ FormInit /\ (part # "forms" => formKind = "checkpoints")
  /\ ListInit /\ (part # "lists" => listKind = "aiProviders")

UINext ==
  \/ part = "shell" /\ ShellNext /\ UNCHANGED <<part, pageVars, formVars, listVars>>
  \/ part = "pages" /\ PageNext /\ UNCHANGED <<part, shellVars, formVars, listVars>>
  \/ part = "forms" /\ FormNext /\ UNCHANGED <<part, shellVars, pageVars, listVars>>
  \/ part = "lists" /\ ListNext /\ UNCHANGED <<part, shellVars, pageVars, formVars>>

UISpec == UIInit /\ [][UINext]_<<part, shellVars, pageVars, formVars, listVars>>

(* Every variable of the four parts holds a value of its kind, with what   *)
(* each part says of its own beside that: links lead to pages, the command *)
(* marked is listed, a form is busy exactly while it waits, the error of a *)
(* field is about what it holds, a tenant's rows go with the tenant.       *)
UITypeOK == ShellTypeOK /\ PageTypeOK /\ FormTypeOK /\ ListTypeOK

=============================================================================
