--------------------------- MODULE AdminProviders ---------------------------
(***************************************************************************)
(* The two providers around the whole admin UI: the theme and the toasts.  *)
(*                                                                         *)
(* The theme is kept in the browser's storage, resolved against the colour *)
(* scheme of the system, and applied as a class of the document by effects *)
(* that React runs only when what they depend on has changed since the     *)
(* last render.                                                            *)
(*                                                                         *)
(* A toast starts a timer when it is mounted.  The function it is given to *)
(* dismiss itself is new at every render of the list, and the effect       *)
(* depends on it: whenever the list changes, all timers start again.       *)
(***************************************************************************)
EXTENDS Naturals, Sequences, SequencesExt

CONSTANTS
  Duration,  \* of a toast, in ticks
  MaxToasts  \* bound: toasts raised

ASSUME DurationAssumption == Duration \in Nat \ {0}

VARIABLES
  theme,      \* the state of ThemeProvider
  stored,     \* localStorage[STORAGE_KEY], or "none"
  systemDark, \* what matchMedia answers
  rendered,   \* resolvedTheme at the last render
  rootClass,  \* the class of the document
  toasts,     \* the list of ToastProvider, by the number of the toast
  ages,       \* by toast shown, ticks since its timer was started
  since,      \* by toast shown, ticks since it appeared, up to Duration
  raised      \* toasts raised so far

themeVars == <<theme, stored, systemDark, rendered, rootClass>>
toastVars == <<toasts, ages, since, raised>>
providerVars == <<theme, stored, systemDark, rendered, rootClass, toasts, ages, since, raised>>

Themes == {"light", "dark", "system"}

-----------------------------------------------------------------------------
resolvedTheme(t, dark) ==
  IF t = "system" THEN (IF dark THEN "dark" ELSE "light") ELSE t

(* A render with theme t, and the effect on [resolvedTheme].               *)
RenderTheme(t) ==
  /\ theme' = t
  /\ rendered' = resolvedTheme(t, systemDark)
  /\ rootClass' = IF rendered' # rendered THEN rendered' ELSE rootClass

(* Setting the state to the value it has renders nothing.                  *)
setTheme(t) ==
  /\ stored' = t
  /\ IF t = theme THEN UNCHANGED <<theme, rendered, rootClass>> ELSE RenderTheme(t)
  /\ UNCHANGED systemDark

(* The sidebar offers all three, collapsed only the other of two.          *)
ChooseTheme(t) == setTheme(t) /\ UNCHANGED toastVars
ToggleTheme == setTheme(IF theme = "dark" THEN "light" ELSE "dark") /\ UNCHANGED toastVars

(* The listener is there only while the theme is "system"; it changes the  *)
(* class and renders nothing.                                              *)
SystemChange ==
  /\ systemDark' = ~ systemDark
  /\ rootClass' = IF theme = "system" THEN resolvedTheme("system", systemDark') ELSE rootClass
  /\ UNCHANGED <<theme, stored, rendered>>
  /\ UNCHANGED toastVars

ThemeProviderInit ==
  /\ stored \in Themes \cup {"none"}
  /\ systemDark \in BOOLEAN
  /\ theme = IF stored = "none" THEN "system" ELSE stored
  /\ rendered = resolvedTheme(theme, systemDark)
  /\ rootClass = rendered

(* The page is loaded again: both providers start over.                    *)
Reload ==
  /\ theme' = IF stored = "none" THEN "system" ELSE stored
  /\ rendered' = resolvedTheme(theme', systemDark)
  /\ rootClass' = rendered'
  /\ UNCHANGED <<stored, systemDark>>
  /\ toasts' = << >>
  /\ ages' = << >>
  /\ since' = << >>
  /\ UNCHANGED raised

-----------------------------------------------------------------------------
ToastProviderInit == toasts = << >> /\ ages = << >> /\ since = << >> /\ raised = 0

(* A slip: the new toast takes over a timer that has been running.         *)
RenderToastsShared(ts) ==
  /\ toasts' = ts
  /\ ages' = [t \in ToSet(ts) |-> IF ages = << >> THEN 0 ELSE ages[CHOOSE u \in DOMAIN ages : TRUE]]
  /\ since' = [t \in ToSet(ts) |-> IF t \in DOMAIN since THEN since[t] ELSE 0]

(* The list was set to ts: what is still in it starts a timer anew.        *)
RenderToasts(ts) ==
  /\ toasts' = ts
  /\ ages' = [t \in ToSet(ts) |-> 0]
  /\ since' = [t \in ToSet(ts) |-> IF t \in DOMAIN since THEN since[t] ELSE 0]

toast ==
  /\ raised < MaxToasts
  /\ raised' = raised + 1
  /\ RenderToasts(Append(toasts, raised + 1))
  /\ UNCHANGED themeVars

(* A slip: the number of the toast is taken for its place in the list.     *)
dismissAt(t) == RenderToasts(IF t \in DOMAIN toasts THEN RemoveAt(toasts, t) ELSE toasts)

dismiss(t) == RenderToasts(SelectSeq(toasts, LAMBDA u : u # t))

(* The X of a toast.                                                       *)
ClickDismiss(t) ==
  /\ t \in DOMAIN ages
  /\ dismiss(t)
  /\ UNCHANGED raised
  /\ UNCHANGED themeVars

(* The timer of a toast.                                                   *)
ToastTimeout(t) ==
  /\ t \in DOMAIN ages
  /\ ages[t] = Duration
  /\ dismiss(t)
  /\ UNCHANGED raised
  /\ UNCHANGED themeVars

(* Time passes, up to the next timer.                                      *)
ToastTick ==
  /\ toasts # << >>
  /\ \A t \in DOMAIN ages : ages[t] < Duration
  /\ ages' = [t \in DOMAIN ages |-> ages[t] + 1]
  /\ since' = [t \in DOMAIN since |-> IF since[t] < Duration THEN since[t] + 1 ELSE since[t]]
  /\ UNCHANGED <<toasts, raised>>
  /\ UNCHANGED themeVars

ProviderInit == ThemeProviderInit /\ ToastProviderInit

ProviderNext ==
  \/ \E t \in Themes : ChooseTheme(t)
  \/ ToggleTheme
  \/ SystemChange
  \/ Reload
  \/ toast
  \/ \E t \in 1..MaxToasts : ClickDismiss(t)
  \/ \E t \in 1..MaxToasts : ToastTimeout(t)
  \/ ToastTick

(* Time goes on and the timers of the browser fire.                        *)
ProviderFairness ==
  /\ WF_providerVars(ToastTick)
  /\ \A t \in 1..MaxToasts : WF_providerVars(ToastTimeout(t))

ProviderSpec == ProviderInit /\ [][ProviderNext]_providerVars /\ ProviderFairness

-----------------------------------------------------------------------------
(* A toast no one dismissed is shown for its whole duration, whatever      *)
(* comes and goes beside it (toast.tsx:47-50).                             *)
ShownInFull ==
  [][\A t \in 1..MaxToasts : t \in DOMAIN since /\ ToastTimeout(t) => since[t] = Duration]_providerVars

(* No toast stays for ever once no more are raised: the timers that start  *)
(* again with every change of the list do run out.                         *)
ToastsGo == \A t \in 1..MaxToasts : (t \in DOMAIN ages) ~> (t \notin DOMAIN ages)

(* The document wears the theme that was chosen, resolved against the      *)
(* system's colour scheme when it is "system".                             *)
ThemeApplied == rootClass = resolvedTheme(theme, systemDark)

=============================================================================
