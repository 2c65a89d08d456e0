----------------------------- MODULE AdminLists -----------------------------
(***************************************************************************)
(* The list pages of the admin UI as functions of the list they were       *)
(* given: filters, pages of a table, the counts above it, and what is said *)
(* when there is nothing to show.  `listKind` is the page, chosen in the   *)
(* initial state.  A text is a sequence of characters.                     *)
(***************************************************************************)
EXTENDS Integers, Sequences, SequencesExt, FiniteSets, TLC

CONSTANTS
  ListKinds,     \* the pages considered
  Pool,          \* by kind, the sequence of the rows that may exist
  Searches,      \* the texts a user may search for
  Options,       \* by filter, the options of its select
  ListTenants,   \* the tenants of the select
  PAGE_SIZE,
  MaxPage        \* bound: past the last page, Next is never disabled

ASSUME PageSizeAssumption == PAGE_SIZE \in Nat \ {0}

VARIABLES
  listKind,
  chosen,    \* the tenant selected, or ""
  search,
  filter,    \* the selects of the page
  page,
  data,      \* the rows of the list query
  query,     \* "loading" (first load), "ok" or "error"
  expanded   \* the checkpoint whose diff is open, or 0

listVars == <<listKind, chosen, search, filter, page, data, query, expanded>>

TenantPages == {"upstreams", "routes", "consumers", "rateLimits", "wasmPlugins", "aiProviders"}
Tables == {"tenants", "upstreams", "routes", "consumers", "rateLimits", "wasmPlugins", "auditLog"}

(* toLowerCase and includes.                                               *)
LowerText(s) == [i \in DOMAIN s |-> IF s[i] = "A" THEN "a" ELSE s[i]]
Includes(s, q) == \E i \in 0..(Len(s) - Len(q)) : SubSeq(s, i + 1, i + Len(q)) = q
Has(s, q) == Includes(LowerText(s), LowerText(q))

-----------------------------------------------------------------------------
(* The filters of each page; "all" and the empty search let every row pass.*)
Passes(r, x) == filter[x] = "all" \/ r[x] = filter[x]
StatusPasses(r) ==
  /\ filter.status = "active" => r.enabled
  /\ filter.status = "inactive" => ~ r.enabled

TenantsFiltered(d) ==
  SelectSeq(d, LAMBDA t :
    /\ search # << >> => Has(t.name, search) \/ Includes(t.slug, LowerText(search))
    /\ StatusPasses(t))

UpstreamsFiltered(d) ==
  SelectSeq(d, LAMBDA u :
    /\ search # << >> => Has(u.name, search) \/ Has(u.base_url, search)
    /\ StatusPasses(u))

RoutesFiltered(d) ==
  LET normal(r) == IF r.method = "*" THEN "any" ELSE r.method IN
  SelectSeq(d, LAMBDA r :
    /\ search # << >> => Has(r.path_prefix, search) \/ Has(r.host, search)
    /\ StatusPasses(r)
    /\ filter.method # "all" => normal(r) = filter.method)

ConsumersFiltered(d) ==
  SelectSeq(d, LAMBDA c : (search # << >> => Has(c.name, search)) /\ StatusPasses(c))

RateLimitsFiltered(d) ==
  SelectSeq(d, LAMBDA p :
    (search # << >> => Has(p.name, search)) /\ Passes(p, "scope") /\ Passes(p, "algorithm"))

WasmPluginsFiltered(d) ==
  SelectSeq(d, LAMBDA p : (search # << >> => Has(p.name, search)) /\ Passes(p, "trigger"))

(* The other filters of the audit log are parameters of its query.         *)
AuditLogFiltered(d) ==
  SelectSeq(d, LAMBDA e :
    search # << >> => \E x \in {"resource_type", "resource_id", "event_type", "actor"} : Has(e[x], search))

Filtered(d) ==
  CASE listKind = "tenants"     -> TenantsFiltered(d)
    [] listKind = "upstreams"   -> UpstreamsFiltered(d)
    [] listKind = "routes"      -> RoutesFiltered(d)
    [] listKind = "consumers"   -> ConsumersFiltered(d)
    [] listKind = "rateLimits"  -> RateLimitsFiltered(d)
    [] listKind = "wasmPlugins" -> WasmPluginsFiltered(d)
    [] listKind = "auditLog"    -> AuditLogFiltered(d)
    [] OTHER                    -> d

FilterFields ==
  CASE listKind \in {"tenants", "upstreams", "consumers"} -> {"status"}
    [] listKind = "routes"      -> {"status", "method"}
    [] listKind = "rateLimits"  -> {"scope", "algorithm"}
    [] listKind = "wasmPlugins" -> {"trigger"}
    [] listKind = "auditLog"    -> {"eventType", "actor", "dateFrom", "dateTo"}
    [] OTHER                    -> {}
NoFilter == [x \in FilterFields |-> "all"]
Unfiltered == search = << >> /\ filter = NoFilter

-----------------------------------------------------------------------------
(* The table: filtered.slice((page - 1) * PAGE_SIZE, page * PAGE_SIZE).    *)
Slice(list, p) == SubSeq(list, (p - 1) * PAGE_SIZE + 1, (IF p * PAGE_SIZE < Len(list) THEN p * PAGE_SIZE ELSE Len(list)))

DataTable(rows) ==
  IF query = "loading" THEN "skeleton" ELSE IF rows = << >> THEN "empty" ELSE "rows"

(* Slips: the last, incomplete page is not counted; the ellipsis comes one *)
(* page late.                                                              *)
TotalPagesFloor(total) == total \div PAGE_SIZE
TotalPages(total) == (total + PAGE_SIZE - 1) \div PAGE_SIZE

Gap == 0
PageList(p, pages) ==
  LET lo == IF p - 1 > 2 THEN p - 1 ELSE 2
      hi == IF p + 1 < pages - 1 THEN p + 1 ELSE pages - 1
  IN IF pages <= 7 THEN [i \in 1..pages |-> i]
     ELSE <<1>> \o (IF p > 3 THEN <<Gap>> ELSE << >>)
            \o (IF hi < lo THEN << >> ELSE [i \in 1..(hi - lo + 1) |-> lo + i - 1])
            \o (IF p < pages - 2 THEN <<Gap>> ELSE << >>) \o <<pages>>

(* The pages the buttons lead to; one page has no buttons.                 *)
Pagination(p, total) ==
  LET pages == TotalPages(total) IN
  IF pages <= 1 THEN {}
  ELSE (ToSet(PageList(p, pages)) \ {Gap})
         \cup (IF p = 1 THEN {} ELSE {p - 1}) \cup (IF p = pages THEN {} ELSE {p + 1})

-----------------------------------------------------------------------------
(* The counts above the table, of all the rows of the list.                *)
Count(d, P(_)) == Len(SelectSeq(d, P))
Enabled(r) == r.enabled

TenantStatsBar(d) == [total |-> Len(d), active |-> Count(d, Enabled), inactive |-> Len(d) - Count(d, Enabled)]
UpstreamStatsBar(d) == [total |-> Len(d), active |-> Count(d, Enabled), inactive |-> Len(d) - Count(d, Enabled)]
ConsumerStatsBar(d) ==
  LET keyed(c) == c.api_key_prefix # "" IN
  [total |-> Len(d), active |-> Count(d, Enabled), inactive |-> Len(d) - Count(d, Enabled),
   withKeys |-> Count(d, keyed)]
(* The count of a method is shown for the four most frequent; of methods   *)
(* as frequent, those met first.                                           *)
RouteStatsBar(d) ==
  LET label(r) == IF r.method = "*" THEN "any" ELSE r.method
      rows(m) == {i \in DOMAIN d : label(d[i]) = m}
      methods == {label(d[i]) : i \in DOMAIN d}
      count(m) == Cardinality(rows(m))
      before(m, n) == count(m) > count(n) \/ (count(m) = count(n) /\ Min(rows(m)) < Min(rows(n)))
      top == {m \in methods : Cardinality({n \in methods : before(n, m)}) < 4}
  IN [total |-> Len(d), active |-> Count(d, Enabled), inactive |-> Len(d) - Count(d, Enabled),
      methods |-> [m \in top |-> count(m)]]
RegionStatsBar(d) ==
  LET primary(r) == r.is_primary IN
  [total |-> Len(d), primary |-> Count(d, primary), secondary |-> Len(d) - Count(d, primary)]

StatsBar(d) ==
  CASE listKind = "tenants"   -> TenantStatsBar(d)
    [] listKind = "upstreams" -> UpstreamStatsBar(d)
    [] listKind = "consumers" -> ConsumerStatsBar(d)
    [] listKind = "routes"    -> RouteStatsBar(d)
    [] listKind = "regions"   -> RegionStatsBar(d)
    [] OTHER                  -> [total |-> Len(d)]

-----------------------------------------------------------------------------
(* CheckpointsPage: the latest first; every other one can be rolled back   *)
(* to, and a diff is with the one below.                                   *)
CheckpointTimeline(d) == SortSeq(d, LAMBDA a, b : a.sequence > b.sequence)
CheckpointCard(d, i) == [checkpoint |-> CheckpointTimeline(d)[i], isLatest |-> i = 1, onRollback |-> i # 1]

(* A slip: the neighbour above is taken.                                   *)
getNext(d, cp) ==
  LET sorted == CheckpointTimeline(d)
      idx == CHOOSE i \in DOMAIN sorted : sorted[i].id = cp.id
  IN IF idx = 1 THEN 0 ELSE sorted[idx - 1].sequence
getPrevious(d, cp) ==
  LET sorted == CheckpointTimeline(d)
      idx == CHOOSE i \in DOMAIN sorted : sorted[i].id = cp.id
  IN IF idx = Len(sorted) THEN 0 ELSE sorted[idx + 1].sequence
CheckpointDiffViewer(d, cp) == [from |-> getPrevious(d, cp), to |-> cp.sequence]

-----------------------------------------------------------------------------
(* What each page shows: what stands in for the list, the message when no  *)
(* row is in the table and whether it offers to create one.                *)
TablePage(title, stats) ==
  LET rows == Filtered(data) IN
  [placeholder |-> FALSE, stats |-> stats /\ data # << >>, failed |-> query = "error",
   body |-> DataTable(Slice(rows, page)), title |-> title, offer |-> Unfiltered,
   pager |-> Pagination(page, Len(rows))]
SelectTenantFirst ==
  [placeholder |-> TRUE, stats |-> FALSE, failed |-> FALSE, body |-> "none", title |-> "none",
   offer |-> FALSE, pager |-> {}]
CardPage(failed, stats) ==
  [placeholder |-> FALSE, stats |-> stats /\ data # << >>, failed |-> failed,
   body |-> DataTable(data), title |-> "none yet", offer |-> TRUE, pager |-> {}]

TenantsView == TablePage(IF Unfiltered THEN "none yet" ELSE "no match", TRUE)
UpstreamsView ==
  IF chosen = "" THEN SelectTenantFirst
  ELSE TablePage(IF Unfiltered THEN "none yet" ELSE "no match", TRUE)
RoutesView ==
  IF chosen = "" THEN SelectTenantFirst
  ELSE TablePage(IF Unfiltered THEN "none yet" ELSE "no match", TRUE)
ConsumersView == IF chosen = "" THEN SelectTenantFirst ELSE TablePage("none yet", TRUE)
RateLimitsView == IF chosen = "" THEN SelectTenantFirst ELSE TablePage("none", FALSE)
WasmPluginsView == IF chosen = "" THEN SelectTenantFirst ELSE TablePage("none", FALSE)
AuditLogView ==
  [TablePage(IF Unfiltered THEN "none yet" ELSE "no match", FALSE) EXCEPT !.offer = FALSE]
(* A failure takes the place of the cards.                                 *)
AIProvidersView ==
  IF chosen = "" THEN SelectTenantFirst
  ELSE IF query = "error" THEN [CardPage(TRUE, FALSE) EXCEPT !.body = "none"]
  ELSE CardPage(FALSE, FALSE)
RegionsView == CardPage(query = "error", TRUE)
CheckpointsView == CardPage(query = "error", FALSE)

View ==
  CASE listKind = "tenants"     -> TenantsView
    [] listKind = "upstreams"   -> UpstreamsView
    [] listKind = "routes"      -> RoutesView
    [] listKind = "consumers"   -> ConsumersView
    [] listKind = "rateLimits"  -> RateLimitsView
    [] listKind = "wasmPlugins" -> WasmPluginsView
    [] listKind = "auditLog"    -> AuditLogView
    [] listKind = "aiProviders" -> AIProvidersView
    [] listKind = "regions"     -> RegionsView
    [] listKind = "checkpoints" -> CheckpointsView

-----------------------------------------------------------------------------
(* The export of the audit log: a line of headers and one per entry.  A    *)
(* slip: quotes inside a text stay single.                                 *)
CsvHeaders == <<"id", "event_type", "resource_type", "resource_id", "actor", "actor_type", "created_at">>
CsvText(e, h) ==
  CASE h \notin DOMAIN e -> << >>
    [] h = "id"          -> <<ToString(e.id)>>
    [] OTHER             -> e[h]
Special == {",", "\"", "\n"}
Join(texts, separator) ==
  FoldLeft(LAMBDA acc, t : IF acc.first THEN [first |-> FALSE, text |-> t]
                           ELSE [first |-> FALSE, text |-> acc.text \o <<separator>> \o t],
           [first |-> TRUE, text |-> << >>], texts).text
CellUnescaped(s) == IF \E i \in DOMAIN s : s[i] \in Special THEN <<"\"">> \o s \o <<"\"">> ELSE s
Cell(s) ==
  LET doubled == FoldLeft(LAMBDA acc, c : IF c = "\"" THEN acc \o <<c, c>> ELSE Append(acc, c), << >>, s)
  IN IF \E i \in DOMAIN s : s[i] \in Special THEN <<"\"">> \o doubled \o <<"\"">> ELSE s
toCsv(entries) ==
  LET headers == Join([h \in DOMAIN CsvHeaders |-> <<CsvHeaders[h]>>], ",")
      line(e) == Join([h \in DOMAIN CsvHeaders |-> Cell(CsvText(e, CsvHeaders[h]))], ",")
  IN Join(<<headers>> \o [i \in DOMAIN entries |-> line(entries[i])], "\n")

-----------------------------------------------------------------------------
ListInit ==
  /\ listKind \in ListKinds
  /\ chosen = ""
  /\ search = << >>
  /\ filter = NoFilter
  /\ page = 1
  /\ data = << >>
  /\ query = "loading"
  /\ expanded = 0

(* The tenant select.  The list of another tenant is loaded; two pages     *)
(* also clear the filters, the page without a table has none.              *)
OnTenant(t) ==
  /\ listKind \in TenantPages
  /\ chosen # t
  /\ chosen' = t
  /\ page' = 1
  /\ IF listKind \in {"upstreams", "routes"}
     THEN search' = << >> /\ filter' = NoFilter
     ELSE UNCHANGED <<search, filter>>
  /\ data' = << >>
  /\ query' = "loading"
  /\ UNCHANGED <<listKind, expanded>>

(* A slip: the page is kept.                                               *)
OnSearchSamePage(q) ==
  /\ listKind \in Tables /\ ~ View.placeholder
  /\ search' = q
  /\ UNCHANGED <<listKind, chosen, filter, page, data, query, expanded>>

OnSearch(q) ==
  /\ listKind \in Tables /\ ~ View.placeholder
  /\ search' = q
  /\ page' = 1
  /\ UNCHANGED <<listKind, chosen, filter, data, query, expanded>>

(* A filter of the audit log makes another query.                          *)
OnFilter(x, v) ==
  /\ x \in FilterFields
  /\ ~ View.placeholder
  /\ filter[x] # v
  /\ filter' = [filter EXCEPT ![x] = v]
  /\ page' = 1
  /\ IF listKind = "auditLog" THEN data' = << >> /\ query' = "loading" ELSE UNCHANGED <<data, query>>
  /\ UNCHANGED <<listKind, chosen, search, expanded>>

OnPageChange(p) ==
  /\ p \in View.pager
  /\ p <= MaxPage
  /\ page' = p
  /\ UNCHANGED <<listKind, chosen, search, filter, data, query, expanded>>

ToggleDiff(i) ==
  /\ listKind = "checkpoints"
  /\ \E k \in DOMAIN data : data[k].id = i
  /\ expanded' = IF expanded = i THEN 0 ELSE i
  /\ UNCHANGED <<listKind, chosen, search, filter, page, data, query>>

(* The list query is answered: after the first load a row at a time comes  *)
(* or goes.  A missing audit endpoint reads as an empty log.               *)
SubPool(ids) == SelectSeq(Pool[listKind], LAMBDA r : r.id \in ids)
Ids(d) == {d[i].id : i \in DOMAIN d}
AllIds == Ids(Pool[listKind])
Observing == listKind \in TenantPages => chosen # ""

Listed(ids) ==
  /\ Observing
  /\ query # "loading" => Cardinality((ids \ Ids(data)) \cup (Ids(data) \ ids)) <= 1
  /\ data' = SubPool(ids)
  /\ query' = "ok"
  /\ UNCHANGED <<listKind, chosen, search, filter, page, expanded>>

ListFailed(status) ==
  /\ Observing
  /\ query' = IF listKind = "auditLog" /\ status = 404 THEN "ok" ELSE "error"
  /\ data' = IF listKind = "auditLog" /\ status = 404 THEN << >> ELSE data
  /\ UNCHANGED <<listKind, chosen, search, filter, page, expanded>>

UserStep ==
  \/ \E t \in ListTenants \cup {""} : OnTenant(t)
  \/ \E q \in Searches : OnSearch(q)
  \/ \E x \in FilterFields : \E v \in Options[x] : OnFilter(x, v)
  \/ \E p \in View.pager : OnPageChange(p)
  \/ \E i \in AllIds : ToggleDiff(i)

ListNext ==
  \/ UserStep
  \/ \E ids \in SUBSET AllIds : Listed(ids)
  \/ \E status \in {404, 500} : ListFailed(status)

ListSpec == ListInit /\ [][ListNext]_listVars

-----------------------------------------------------------------------------
(* Every variable holds a value of its kind; filters are set only where a  *)
(* page has them.                                                          *)
ListTypeOK ==
  /\ listKind \in ListKinds
  /\ chosen \in ListTenants \cup {""}
  /\ search \in Searches
  /\ \A x \in FilterFields : filter[x] \in Options[x]
  /\ page \in 1..MaxPage
  /\ data = SubPool(Ids(data))
  /\ query \in {"loading", "ok", "error"}
  /\ data # << >> => query # "loading" /\ Observing
  /\ expanded \in AllIds \cup {0}

(* A table becomes empty while rows match only because the list changed    *)
(* under the page shown: nothing a user clicks leads past the last page    *)
(* (TenantsPage.tsx:107, pagination.tsx:64).                               *)
PastEnd == data # << >> /\ Filtered(data) # << >> /\ View.body = "empty"
ClicksStayInRange == [][~ PastEnd /\ PastEnd' => data' # data]_listVars

(* The pages the pagination counts hold every matching row, once and in    *)
(* order; and for every page of up to twelve the first, the last and the   *)
(* neighbours of the page have a button, in order, with an ellipsis        *)
(* exactly where pages are left out (pagination.tsx:13, 19-28).            *)
PagesCoverMatches ==
  /\ LET rows == Filtered(data) IN
     FlattenSeq([p \in 1..TotalPages(Len(rows)) |-> Slice(rows, p)]) = rows
  /\ query = "ok" =>
     \A pages \in 2..12 : \A p \in 1..pages :
       LET list == PageList(p, pages)
           near == {q \in 1..pages : pages <= 7 \/ q \in {1, pages, p - 1, p, p + 1}}
       IN /\ ToSet(list) \ {Gap} = near
          /\ \A i \in 1..(Len(list) - 1) :
               IF list[i] = Gap THEN list[i + 1] > list[i - 1] + 1
               ELSE list[i + 1] \in {Gap, list[i] + 1}

(* What stands beside a list agrees with it: the counts above a table with *)
(* what its filters select; the buttons and the diff of a checkpoint, in   *)
(* whatever order the list came, with its place in time.  It can be rolled *)
(* back to unless it is the latest, and is compared with the newest one    *)
(* older than it (tenant-stats-bar.tsx:9, RoutesPage.tsx:70,               *)
(* CheckpointsPage.tsx:35, 85).                                            *)
CountsAgree ==
  LET bar == StatsBar(data)
      shown == Len(Filtered(data))
      only(x, v) == search = << >> /\ filter = [NoFilter EXCEPT ![x] = v]
  IN /\ "status" \in FilterFields =>
          /\ only("status", "all") => shown = bar.total
          /\ only("status", "active") => shown = bar.active
          /\ only("status", "inactive") => shown = bar.inactive
     /\ listKind = "routes" =>
          \A m \in DOMAIN bar.methods : only("method", m) => shown = bar.methods[m]
TimelineIsOrdered ==
  listKind = "checkpoints" =>
    \A i \in DOMAIN data :
      LET card == CheckpointCard(data, i)
          older == {data[k].sequence : k \in {k \in DOMAIN data : data[k].sequence < card.checkpoint.sequence}}
      IN /\ card.onRollback = (\E k \in DOMAIN data : data[k].sequence > card.checkpoint.sequence)
         /\ CheckpointDiffViewer(data, card.checkpoint).from = (IF older = {} THEN 0 ELSE Max(older))
SummariesAgree == CountsAgree /\ TimelineIsOrdered

(* A reader of comma-separated values finds in the export the texts that   *)
(* are in the log, commas, quotes and line ends included                   *)
(* (log-export-button.tsx:9-21).                                           *)
Ascending(P(_), n) == SelectSeq([i \in 1..n |-> i], P)
QuotesIn(text, i) == Cardinality({k \in 1..i : text[k] = "\""})
Pieces(text, separator) ==
  LET ends == {i \in DOMAIN text : text[i] = separator /\ QuotesIn(text, i) % 2 = 0}
      cuts == <<0>> \o Ascending(LAMBDA i : i \in ends, Len(text)) \o <<Len(text) + 1>>
  IN [k \in 1..(Len(cuts) - 1) |-> SubSeq(text, cuts[k] + 1, cuts[k + 1] - 1)]
Unquoted(cell) ==
  LET inner == SubSeq(cell, 2, Len(cell) - 1)
      kept == Ascending(LAMBDA i : inner[i] = "\"" => QuotesIn(inner, i) % 2 = 1, Len(inner))
  IN IF cell = << >> \/ cell[1] # "\"" THEN cell ELSE [k \in DOMAIN kept |-> inner[kept[k]]]
ReadCsv(text) ==
  LET rows == Pieces(text, "\n") IN
  [i \in DOMAIN rows |->
     LET cells == Pieces(rows[i], ",") IN [h \in DOMAIN cells |-> Unquoted(cells[h])]]
CsvRoundTrips ==
  LET entries == Filtered(data) IN
  listKind = "auditLog" /\ entries # << >> =>
    Tail(ReadCsv(toCsv(entries))) =
      [i \in DOMAIN entries |-> [h \in DOMAIN CsvHeaders |-> CsvText(entries[i], CsvHeaders[h])]]

=============================================================================
