----------------------------- MODULE AdminShell -----------------------------
(***************************************************************************)
(* The frame of the admin UI: the router of App.tsx, the sidebar of        *)
(* AppLayout, the command palette, the modals of the mounted page with     *)
(* their lock on the scrolling of the document, and the error boundary     *)
(* around all of it.                                                       *)
(*                                                                         *)
(* A page keeps the modals of its own forms mounted, closed or not, and    *)
(* every row of its list brings a confirmation modal that comes and goes   *)
(* with the row.  All of them write the same property of the document.     *)
(***************************************************************************)
EXTENDS Integers, Sequences, SequencesExt

CONSTANTS
  RowModals,  \* the rows that may be listed
  PageModals, \* the modals of a page's own forms
  Queries     \* the texts entered into the palette

VARIABLES
  pathname,   \* the location
  collapsed,  \* of the sidebar
  palette,    \* [open, query, active] of the command palette
  modals,     \* the modals mounted
  shown,      \* those of them that are open
  overflow,   \* document.body.style.overflow
  crashed     \* the error boundary shows its fallback

shellVars == <<pathname, collapsed, palette, modals, shown, overflow, crashed>>

-----------------------------------------------------------------------------
Routes ==
  {"/", "/tenants", "/upstreams", "/routes", "/metrics", "/consumers", "/ai-providers", "/rate-limits",
   "/wasm-plugins", "/audit", "/checkpoints", "/regions", "/policies"}

navGroups ==
  << <<"/", "/metrics">>,
     <<"/tenants", "/upstreams", "/routes", "/consumers">>,
     <<"/ai-providers", "/rate-limits", "/wasm-plugins">>,
     <<"/audit", "/checkpoints", "/regions", "/policies">> >>

PAGE_TITLES ==
  {"/", "/metrics", "/tenants", "/upstreams", "/routes", "/consumers", "/ai-providers", "/rate-limits",
   "/wasm-plugins", "/audit", "/checkpoints", "/regions", "/policies"}

QuickActions == {"/tenants", "/upstreams", "/routes", "/ai-providers"}

PAGE_COMMANDS ==
  <<"/", "/tenants", "/upstreams", "/routes", "/consumers", "/ai-providers", "/rate-limits",
    "/wasm-plugins", "/audit", "/checkpoints", "/regions", "/metrics", "/policies">>

(* The commands that match a query, which stands for the set of those that *)
(* contain it; an empty query matches all.                                 *)
filtered(query) == SelectSeq(PAGE_COMMANDS, LAMBDA c : c \in query)

NoQuery == Routes
Closed == [open |-> FALSE, query |-> NoQuery, active |-> 0]

-----------------------------------------------------------------------------
(* What the effect of a modal leaves in the document: the last one to run  *)
(* counts, whichever modal it belongs to.                                  *)
Lock(open) == IF open THEN "hidden" ELSE ""

(* A slip: a modal that is unmounted leaves the document as it is.         *)
MountPageUncleaned(p) ==
  /\ pathname' = p
  /\ modals' = PageModals
  /\ shown' = {}
  /\ UNCHANGED overflow

(* The modals of the page mounted at p: its own, closed; no row yet.       *)
MountPage(p) ==
  /\ pathname' = p
  /\ modals' = PageModals
  /\ shown' = {}
  /\ overflow' = Lock(FALSE)

ShellInit ==
  /\ pathname \in Routes
  /\ collapsed = FALSE
  /\ palette = Closed
  /\ modals = PageModals
  /\ shown = {}
  /\ overflow = ""
  /\ crashed = FALSE

(* A link of the sidebar, of the quick actions or of the history.  A link  *)
(* to the present page changes nothing.                                    *)
Follow(p) ==
  IF p = pathname
  THEN UNCHANGED <<pathname, modals, shown, overflow>>
  ELSE MountPage(p)

Covered == palette.open \/ shown # {}

ClickNav(g, i) ==
  /\ ~ crashed /\ ~ Covered
  /\ Follow(navGroups[g][i])
  /\ UNCHANGED <<collapsed, palette, crashed>>

ClickQuickAction(p) ==
  /\ ~ crashed /\ ~ Covered
  /\ pathname = "/"
  /\ Follow(p)
  /\ UNCHANGED <<collapsed, palette, crashed>>

ToggleCollapsed ==
  /\ ~ crashed /\ ~ Covered
  /\ collapsed' = ~ collapsed
  /\ UNCHANGED <<pathname, palette, modals, shown, overflow, crashed>>

(* Back and forward: the location changes under an open palette too.       *)
History(p) ==
  /\ ~ crashed
  /\ Follow(p)
  /\ UNCHANGED <<collapsed, palette, crashed>>

-----------------------------------------------------------------------------
(* The buttons that open the palette, and its effect on opening.           *)
OpenPalette ==
  /\ ~ crashed /\ ~ Covered
  /\ palette' = [Closed EXCEPT !.open = TRUE]
  /\ UNCHANGED <<pathname, collapsed, modals, shown, overflow, crashed>>

(* Cmd+K, also over a modal.                                               *)
TogglePalette ==
  /\ ~ crashed
  /\ palette' = IF palette.open THEN [palette EXCEPT !.open = FALSE]
                ELSE [Closed EXCEPT !.open = TRUE]
  /\ UNCHANGED <<pathname, collapsed, modals, shown, overflow, crashed>>

(* A slip: the command marked stays where it was in the longer list.       *)
TypeQueryKept(q) ==
  /\ ~ crashed /\ palette.open
  /\ palette' = [palette EXCEPT !.query = q]
  /\ UNCHANGED <<pathname, collapsed, modals, shown, overflow, crashed>>

TypeQuery(q) ==
  /\ ~ crashed /\ palette.open
  /\ palette' = [palette EXCEPT !.query = q,
                                !.active = IF q = palette.query THEN palette.active ELSE 0]
  /\ UNCHANGED <<pathname, collapsed, modals, shown, overflow, crashed>>

ArrowDown ==
  /\ ~ crashed /\ palette.open
  /\ palette' = [palette EXCEPT !.active = Min({@ + 1, Len(filtered(palette.query)) - 1})]
  /\ UNCHANGED <<pathname, collapsed, modals, shown, overflow, crashed>>

ArrowUp ==
  /\ ~ crashed /\ palette.open
  /\ palette' = [palette EXCEPT !.active = Max({@ - 1, 0})]
  /\ UNCHANGED <<pathname, collapsed, modals, shown, overflow, crashed>>

MouseEnter(i) ==
  /\ ~ crashed /\ palette.open
  /\ i \in DOMAIN filtered(palette.query)
  /\ palette' = [palette EXCEPT !.active = i - 1]
  /\ UNCHANGED <<pathname, collapsed, modals, shown, overflow, crashed>>

runCommand(c) ==
  /\ palette' = [palette EXCEPT !.open = FALSE]
  /\ Follow(c)
  /\ UNCHANGED <<collapsed, crashed>>

PressEnter ==
  /\ ~ crashed /\ palette.open
  /\ palette.active + 1 \in DOMAIN filtered(palette.query)
  /\ runCommand(filtered(palette.query)[palette.active + 1])

ClickCommand(i) ==
  /\ ~ crashed /\ palette.open
  /\ i \in DOMAIN filtered(palette.query)
  /\ runCommand(filtered(palette.query)[i])

ClickBackdrop ==
  /\ ~ crashed /\ palette.open
  /\ palette' = [palette EXCEPT !.open = FALSE]
  /\ UNCHANGED <<pathname, collapsed, modals, shown, overflow, crashed>>

(* The palette hears the key in its input, every open modal at the         *)
(* document: one key closes all of them.                                   *)
Escape ==
  /\ ~ crashed /\ Covered
  /\ palette' = [palette EXCEPT !.open = FALSE]
  /\ shown' = {}
  /\ overflow' = IF shown # {} THEN Lock(FALSE) ELSE overflow
  /\ UNCHANGED <<pathname, collapsed, modals, crashed>>

-----------------------------------------------------------------------------
OpenModal(m) ==
  /\ ~ crashed /\ ~ Covered
  /\ m \in modals
  /\ shown' = shown \cup {m}
  /\ overflow' = Lock(TRUE)
  /\ UNCHANGED <<pathname, collapsed, palette, modals, crashed>>

(* The backdrop, the X, Cancel, or the success of what the modal sent,     *)
(* which may come while the palette is open.                               *)
CloseModal(m) ==
  /\ ~ crashed
  /\ m \in shown
  /\ shown' = shown \ {m}
  /\ overflow' = Lock(FALSE)
  /\ UNCHANGED <<pathname, collapsed, palette, modals, crashed>>

(* A list answer: rows come, closed, and go, with an open modal or not.    *)
RowsListed(R) ==
  LET now == PageModals \cup R
  IN /\ ~ crashed
     /\ now # modals
     /\ modals' = now
     /\ shown' = shown \cap now
     /\ overflow' = Lock(FALSE)
     /\ UNCHANGED <<pathname, collapsed, palette, crashed>>

(* A render throws: React unmounts everything below the boundary.          *)
Throw ==
  /\ ~ crashed
  /\ crashed' = TRUE
  /\ collapsed' = FALSE
  /\ palette' = Closed
  /\ MountPage(pathname)

(* "Try again": all is mounted afresh at the same location.                *)
TryAgain ==
  /\ crashed
  /\ crashed' = FALSE
  /\ UNCHANGED <<pathname, collapsed, palette, modals, shown, overflow>>

ShellNext ==
  \/ \E g \in DOMAIN navGroups : \E i \in DOMAIN navGroups[g] : ClickNav(g, i)
  \/ \E p \in QuickActions : ClickQuickAction(p)
  \/ ToggleCollapsed
  \/ \E p \in Routes : History(p)
  \/ OpenPalette
  \/ TogglePalette
  \/ \E q \in Queries : TypeQuery(q)
  \/ ArrowDown
  \/ ArrowUp
  \/ \E i \in DOMAIN PAGE_COMMANDS : MouseEnter(i)
  \/ PressEnter
  \/ \E i \in DOMAIN PAGE_COMMANDS : ClickCommand(i)
  \/ ClickBackdrop
  \/ Escape
  \/ \E m \in PageModals \cup RowModals : OpenModal(m)
  \/ \E m \in PageModals \cup RowModals : CloseModal(m)
  \/ \E R \in SUBSET RowModals : RowsListed(R)
  \/ Throw
  \/ TryAgain

ShellSpec == ShellInit /\ [][ShellNext]_shellVars

-----------------------------------------------------------------------------
(* Every variable holds a value of its kind; no link of the sidebar, of    *)
(* the palette or of the quick actions leads to a location without a page  *)
(* or a title (App.tsx:82-94 has no catch-all); and the command marked in  *)
(* the palette is one of those listed, whatever was typed, pointed at or   *)
(* skipped before: Enter always has a command to run when any is listed    *)
(* (command-palette.tsx:66, 80).                                           *)
ShellTypeOK ==
  /\ pathname \in Routes \cap PAGE_TITLES
  /\ collapsed \in BOOLEAN /\ crashed \in BOOLEAN
  /\ shown \subseteq modals
  /\ modals \subseteq PageModals \cup RowModals
  /\ overflow \in {"", "hidden"}
  /\ palette.query \in Queries \cup {NoQuery}
  /\ palette.open /\ filtered(palette.query) # << >> =>
       palette.active + 1 \in DOMAIN filtered(palette.query)

(* The document is never left locked: with no modal open its scrolling is  *)
(* free, though open modals vanish with their row, with their page or with *)
(* the tree that threw (modal.tsx:32-35).                                  *)
ScrollReleased == shown = {} => overflow = ""

=============================================================================
