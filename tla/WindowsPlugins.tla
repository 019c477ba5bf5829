---------------------------- MODULE WindowsPlugins ----------------------------
(* The plugins dialog of the Windows shell, windows/src/plugins_manager.cpp.   *)
(* busy covers the market thread too, and a result is posted to the dialog's   *)
(* window: when that is gone, the result is lost. A dialog's memory goes with  *)
(* its window, for no thread holds it.                                         *)
EXTENDS PluginDialog

---------------------------------------------------------------------------
(* The data layer: package.json, scanned. *)

InstalledPackages(doc) ==
    LET r == ValueRange(doc, "dependencies") IN ObjectKeys(doc, r.from, r.to)

ProfileRange(doc) == ValueRangeAt(doc, ValueRange(doc, "dsh"), "profile")
EnabledBundles(doc) == GetStringArray(doc, ProfileRange(doc), "bundles")

\* The new text, the old one if nothing is to change, or <<>>: there is no
\* dsh.profile.bundles to change
SetEnabled(doc, name, on) ==
    LET old == EnabledBundles(doc)
        new == IF on THEN Append(old, name) ELSE RemoveFirst(old, name)
    IN IF ProfileRange(doc) = NoSpan THEN <<>>
       ELSE IF on = Contains(old, name) THEN doc
       ELSE ReplaceStringArray(doc, ProfileRange(doc), "bundles", new)

---------------------------------------------------------------------------
(* What is shown. A list is filled when it is shown, so that a hidden one may  *)
(* be behind. LoadLocal reads the file, FillInstalledTree and FillEnabledList  *)
(* show what it read.                                                          *)

LoadLocal == data' = [data EXCEPT !.installed = InstalledPackages(file'),
                                  !.enabled = EnabledBundles(file')]

Fill(lists, text) ==
    /\ LET full == [installed |-> DependencyTree(data'.installed, data'.enabled),
                    enabled |-> data'.enabled,
                    market |-> Matches(data'.market, text)]
       IN rows' = [v \in Page |-> IF v \in lists THEN full[v] ELSE rows[v]]
    /\ sel' = [v \in Page |-> IF v \in lists THEN None ELSE sel[v]]

Acts == UserActs /\ open # None
Ready == Acts /\ ~busy
Still == UNCHANGED <<port, overlap, seen, pending, can, chooser>>

\* RefreshMarket, when the dialog is not busy
RefreshMarket == busy' = TRUE /\ Start(open', "fetch", "market", "")

\* WM_INITDIALOG. A window handle is not used anew while a thread has it.
Show ==
    /\ UserActs /\ open = None
    /\ \E d \in Dialog : /\ \A w \in Worker : worker[w].dialog # d
                         /\ open' = d /\ phase' = [phase EXCEPT ![d] = "open"]
    /\ overlap' = \E w \in Worker : Running(w)
    /\ RefreshMarket
    /\ UNCHANGED <<port, file, seen, pending, page, filter, can, chooser, loaded>>
    /\ LoadLocal /\ Fill({"installed"}, filter)

\* WM_DESTROY
Destroy == /\ Acts
           /\ phase' = [phase EXCEPT ![open] = "none"]
           /\ open' = None
           /\ Blanked
           /\ UNCHANGED <<port, file, worker, seen, overlap, pending>>

---------------------------------------------------------------------------
(* The commands. *)

StartPluginCmd(verb, spec) ==
    /\ busy' = TRUE /\ Start(open, "npx", verb, spec)
    /\ UNCHANGED <<file, phase, open, page, sel, data, rows, filter, loaded>>
    /\ Still

Crash == /\ phase' = [phase EXCEPT ![open] = "none"]
         /\ open' = None
         /\ Blanked
         /\ UNCHANGED <<port, worker, seen, overlap, pending>>

\* After the change the handler still uses what LoadLocal has freed or, on the
\* list of bundles, a pointer made of a label and an index: it goes on or crashes
AfterChange(lists) ==
    /\ \/ /\ LoadLocal /\ Fill(lists, filter)
          /\ UNCHANGED <<worker, phase, open, busy, page, filter, loaded>>
          /\ Still
       \/ Crash

\* Any row of the tree can be changed, a dependency too
ToggleSelectedEnabled(on) ==
    /\ Ready /\ page = "installed" /\ sel.installed # None
    /\ LET text == SetEnabled(file, sel.installed.name, on) IN text # <<>> /\ file' = text
    /\ AfterChange({"installed"})
\* A change that fails is told by the same pointer
DisableSelectedEnabled ==
    /\ Ready /\ page = "enabled" /\ sel.enabled # None
    /\ \/ /\ LET text == SetEnabled(file, sel.enabled, FALSE) IN text # <<>> /\ file' = text
          /\ AfterChange({"enabled", "installed"})
       \/ /\ UNCHANGED file
          /\ \/ /\ UNCHANGED <<worker, phase, open, busy, page, sel, data, rows, filter, loaded>>
                /\ Still
             \/ Crash

\* PnpmAvailable is asked on the UI thread before; without pnpm nothing happens
UninstallSelected ==
    /\ Ready /\ page = "installed" /\ sel.installed # None
    /\ sel.installed.flag # "builtin"
    /\ StartPluginCmd("remove", sel.installed.name)
InstallMarketSelected ==
    /\ Ready /\ page = "market" /\ sel.market # None
    /\ data.market[sel.market].spec # ""
    /\ StartPluginCmd("add", data.market[sel.market].spec)

\* The file dialog runs a loop of its own, but a dialog that is not busy has no
\* result to wait for
PickLocalInstall == Ready /\ StartPluginCmd("add", "path")

Refresh == /\ Ready
           /\ UNCHANGED <<file, phase, open, page, filter, loaded>>
           /\ LoadLocal /\ Fill({"installed", "enabled"}, filter)
           /\ RefreshMarket
           /\ Still

\* Faulty form of SwitchTab: a list filled before is shown as it is.
SwitchTabOnly(p) ==
    /\ Acts /\ p # page /\ page' = p
    /\ UNCHANGED <<file, phase, open, data, filter, loaded>>
    /\ Fill({v \in {p} : rows[v] = NoRows[v]}, filter)
    /\ UNCHANGED <<busy, worker>>
    /\ Still

SwitchTab(p) ==
    /\ Acts /\ p # page /\ page' = p
    /\ UNCHANGED <<file, phase, open, data, filter, loaded>>
    /\ Fill(IF p = "market" /\ ~loaded THEN {} ELSE {p}, filter)
    /\ IF p = "market" /\ ~loaded /\ ~busy THEN RefreshMarket ELSE UNCHANGED <<busy, worker>>
    /\ Still

SearchChanges(text) ==
    /\ Acts /\ page = "market" /\ filter' = text
    /\ UNCHANGED <<file, worker, phase, open, busy, page, data, loaded>>
    /\ Fill(IF loaded THEN {"market"} ELSE {}, text)
    /\ Still
Select ==
    /\ Acts
    /\ \E r \in IF page = "enabled" THEN ToSet(rows.enabled) ELSE rows[page] :
         sel' = [sel EXCEPT ![page] = r]
    /\ UNCHANGED <<file, worker, phase, open, busy, page, data, rows, filter, loaded>>
    /\ Still

---------------------------------------------------------------------------
(* The results of the threads. *)

Posted(w) == worker[w].pc = "done" /\ worker' = [worker EXCEPT ![w] = Free]
Lost(w) == /\ Posted(w) /\ worker[w].dialog # open
           /\ UNCHANGED <<port, file, left, seen, overlap, phase, pending, uiVars>>
Arrived(w, what) == /\ Posted(w) /\ worker[w].dialog = open /\ what
                    /\ busy' = FALSE
                    /\ UNCHANGED <<file, left, phase, open, page, filter>>
                    /\ Still

\* A load that fails counts as loaded, with no plugins
MarketDone(w) ==
    /\ Arrived(w, worker[w].verb = "market")
    /\ loaded' = TRUE
    /\ data' = [data EXCEPT !.market = IF worker[w].ok THEN WindowsMarket ELSE <<>>]
    /\ Fill({page} \cap {"market"}, filter)
PluginDone(w) ==
    /\ Arrived(w, worker[w].verb # "market")
    /\ UNCHANGED loaded
    /\ LoadLocal
    /\ Fill({"installed", "enabled"} \cup IF loaded THEN {page} \cap {"market"} ELSE {}, filter)

WindowsNext ==
    /\ port = "windows"
    /\ \/ Show \/ Destroy \/ Refresh \/ Select
       \/ ToggleSelectedEnabled(TRUE) \/ ToggleSelectedEnabled(FALSE) \/ DisableSelectedEnabled
       \/ UninstallSelected \/ InstallMarketSelected \/ PickLocalInstall
       \/ \E p \in Page : SwitchTab(p)
       \/ \E text \in Searches : SearchChanges(text)
       \/ \E w \in Worker : Lost(w) \/ MarketDone(w) \/ PluginDone(w)
=============================================================================
