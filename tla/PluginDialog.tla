----------------------------- MODULE PluginDialog -----------------------------
(* What the plugin dialogs of the Linux and the Windows shell have in common:  *)
(* their state, the threads that work for them, and the runs of dsh plugin,    *)
(* which read the profile's package.json and write it back some time later.    *)
(* LinuxPlugins and WindowsPlugins add the handlers of each shell.             *)
(*                                                                             *)
(* One handler of the UI thread is one step; SetEnabled reads the file and     *)
(* writes it in one step too. A dialog is modal, so at most one is open. Texts *)
(* of the status line, and the two buttons that change no state of the dialog  *)
(* (open a page, restart the server), are left out.                            *)
EXTENDS PluginMarket

CONSTANTS Dialog,      \* bound: dialogs in memory at a time
          Worker,      \* bound: threads of the dialogs at a time
          Sessions,    \* the shell, package.json at first, bound: acts of the user
          Package,     \* names of packages
          Registry,    \* the package that each spec names: a function
          Searches,    \* what the user may search the market for
          Depends,     \* what each package in node_modules depends on
          None

ASSUME PluginAssumption ==
    /\ Dialog \cup Worker \cup {s.acts : s \in Sessions} \subseteq Nat
    /\ IsFiniteSet(Worker)
    /\ None \notin Dialog

VARIABLES port,      \* which shell: "linux" or "windows"
          file,      \* package.json
          worker,    \* the threads: pc, dialog, verb, spec, ok
          left,      \* how often the user still acts
          seen,      \* the file as the dsh plugin of a thread has read it, if it has
          overlap,   \* history: the open dialog came up while dsh plugin still ran
          phase,     \* of each dialog's memory: none, open, closed
          pending,   \* pendingWorkers
          open,      \* the dialog on the screen
          busy, page, sel, data, rows, filter,
          can,       \* Linux: the buttons that are sensitive, and the search box
          chooser,   \* Linux: the file chooser is up
          loaded     \* Windows: marketLoaded

uiVars == <<open, busy, page, sel, data, rows, filter, can, chooser, loaded>>
vars == <<port, file, worker, left, seen, overlap, phase, pending, uiVars>>

Page == {"installed", "enabled", "market"}
NoSel == [installed |-> None, enabled |-> None, market |-> None]
NoData == [installed |-> <<>>, enabled |-> <<>>, market |-> <<>>]
NoRows == [installed |-> {}, enabled |-> <<>>, market |-> {}]
Free == [pc |-> "free", dialog |-> None, verb |-> "market", spec |-> "", ok |-> FALSE]

Blank == /\ busy = FALSE /\ page = "installed" /\ sel = NoSel /\ data = NoData
         /\ rows = NoRows /\ filter = "" /\ can = {} /\ chooser = FALSE /\ loaded = FALSE
Blanked == /\ busy' = FALSE /\ page' = "installed" /\ sel' = NoSel /\ data' = NoData
           /\ rows' = NoRows /\ filter' = "" /\ can' = {} /\ chooser' = FALSE
           /\ loaded' = FALSE

Init == /\ \E s \in Sessions : port = s.port /\ file = s.file /\ left = s.acts
        /\ worker = [w \in Worker |-> Free]
        /\ seen = [w \in Worker |-> {}]
        /\ overlap = FALSE
        /\ phase = [d \in Dialog |-> "none"]
        /\ pending = [d \in Dialog |-> 0]
        /\ open = None /\ Blank

---------------------------------------------------------------------------
(* dsh plugin. *)

UserActs == left > 0 /\ left' = left - 1

Running(w) == worker[w].pc \in {"check", "npx", "cli"}

\* A thread is started on the first free slot
Start(d, pc, verb, spec) ==
    \E w \in Worker :
        /\ worker[w] = Free /\ \A v \in Worker : v < w => worker[v] # Free
        /\ worker' = [worker EXCEPT ![w] =
                        [pc |-> pc, dialog |-> d, verb |-> verb, spec |-> spec, ok |-> FALSE]]

Becomes(w, pc, ok) == worker' = [worker EXCEPT ![w].pc = pc, ![w].ok = ok]

Bundles(v) == Elements(Get(Get(Get(v, "dsh"), "profile"), "bundles"))
WithBundles(v, b) ==
    LET dsh == Get(v, "dsh") IN
    Put(v, "dsh", Put(dsh, "profile", Put(Get(dsh, "profile"), "bundles", Arr(b))))
Names(e) == LET strings == SelectSeq(e, LAMBDA x : x.t = "str")
            IN [i \in DOMAIN strings |-> strings[i].v]

With(s, x) == IF Contains(s, x) THEN s ELSE Append(s, x)
Drop(v, key) == Obj(SelectSeq(Members(v), LAMBDA m : m.k # key))

\* pnpm adds or removes the dependency; dsh reconciles the bundles with it: a
\* package that is a plugin is enabled when it is added
Reconciled(v, verb, spec) ==
    LET deps == Get(v, "dependencies")
        name == IF verb = "add" THEN Registry[spec] ELSE spec
        more == Put(v, "dependencies", Put(deps, name, Str("1")))
    IN IF verb = "add"
       THEN {more, WithBundles(more, With(Bundles(v), Str(name)))}
       ELSE {LET less == Put(v, "dependencies", Drop(deps, name)) IN
             IF Contains(Bundles(v), Str(name))
             THEN WithBundles(less, RemoveFirst(Bundles(v), Str(name))) ELSE less}

Possible(v, verb, spec) ==
    IF verb = "add" THEN spec \in DOMAIN Registry
    ELSE Contains(Keys(Get(v, "dependencies")), spec)

CliReads(w) == /\ worker[w].pc = "npx"
               /\ Becomes(w, "cli", FALSE)
               /\ seen' = [seen EXCEPT ![w] = {file}]
               /\ UNCHANGED <<port, file, left, overlap, phase, pending, uiVars>>
CliWrites(w) ==
    /\ worker[w].pc = "cli"
    /\ \E doc \in seen[w] : \E v \in Parse(doc) :
         /\ Possible(v, worker[w].verb, worker[w].spec)
         /\ \E more \in Reconciled(v, worker[w].verb, worker[w].spec) : file' = Text(more)
    /\ Becomes(w, "done", TRUE)
    /\ seen' = [seen EXCEPT ![w] = {}]
    /\ UNCHANGED <<port, left, overlap, phase, pending, uiVars>>
CliFails(w) == /\ worker[w].pc \in {"npx", "cli"}
               /\ Becomes(w, "done", FALSE)
               /\ seen' = [seen EXCEPT ![w] = {}]
               /\ UNCHANGED <<port, file, left, overlap, phase, pending, uiVars>>
MarketArrives(w) == /\ worker[w].pc = "fetch"
                    /\ \E ok \in BOOLEAN : Becomes(w, "done", ok)
                    /\ UNCHANGED <<port, file, left, seen, overlap, phase, pending, uiVars>>
ThreadStep == \E w \in Worker :
                 CliReads(w) \/ CliWrites(w) \/ CliFails(w) \/ MarketArrives(w)

---------------------------------------------------------------------------
(* The dependency tree, as the set of its rows. *)

\* The packages below name, four levels down at most, and those met on the way
BuildNode(name, depth, met) ==
    LET build[n \in Package, d \in Nat, m \in SUBSET Package] ==
          IF d >= 4 \/ n \in m THEN [below |-> {}, met |-> m]
          ELSE FoldLeft(LAMBDA acc, dep : LET r == build[dep, d + 1, acc.met] IN
                                          [below |-> acc.below \cup {dep} \cup r.below, met |-> r.met],
                        [below |-> {}, met |-> m \cup {n}], Depends[n])
    IN build[name, depth, met]

\* A row is a root that is installed, a template bundle, or a dependency
DependencyTree(installed, enabled) ==
    {[name |-> n, flag |-> "root"] : n \in ToSet(installed)}
    \cup {[name |-> n, flag |-> "builtin"] : n \in ToSet(enabled) \ ToSet(installed)}
    \cup {[name |-> n, flag |-> "dep"] :
            n \in UNION {BuildNode(r, 0, {}).below : r \in ToSet(installed)}}

Matches(market, text) == {i \in DOMAIN market : text \in {"", market[i].name}}

=============================================================================
