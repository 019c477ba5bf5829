----------------------------- MODULE LinuxPlugins -----------------------------
(* The plugins dialog of the Linux shell, linux/src/plugins_manager.cpp.       *)
EXTENDS PluginDialog

---------------------------------------------------------------------------
(* The data layer: package.json, parsed. *)

InstalledPackages(doc) == Keys(Get(Document(doc), "dependencies"))
EnabledBundles(doc) == Names(Bundles(Document(doc)))

NewBundles(v, name, on) ==
    IF on THEN With(Bundles(v), Str(name)) ELSE RemoveFirst(Bundles(v), Str(name))

\* Faulty form of SetEnabled: dsh and profile are made anew.
SetEnabledAnew(doc, name, on) ==
    {Stringify(Put(v, "dsh", Put(Missing, "profile",
                   Put(Missing, "bundles", Arr(NewBundles(v, name, on)))))) : v \in Parse(doc)}

\* The new text, if the file can be read. A missing dsh, profile or bundles is
\* created.
SetEnabled(doc, name, on) ==
    {Stringify(WithBundles(v, NewBundles(v, name, on))) : v \in Parse(doc)}

Installable(p) == NpmPackage(p) # "" \/ GitSpec(p) # ""

---------------------------------------------------------------------------
(* What is shown. *)

\* Faulty form of Buttons: a running operation disables nothing.
ButtonsAlways(b, p, s, d) ==
    {"refresh", "local"}
    \cup (IF p = "installed" /\ s.installed # None /\ s.installed.flag = "root"
          THEN {"uninstall", IF Contains(d.enabled, s.installed.name) THEN "disable" ELSE "enable"}
          ELSE {})
    \cup (IF p = "enabled" /\ s.enabled # None THEN {"disable"} ELSE {})
    \cup (IF p = "market" /\ s.market # None /\ Installable(d.market[s.market])
          THEN {"install"} ELSE {})

\* The buttons UpdateButtons makes sensitive: only a root can be changed
Buttons(b, p, s, d) ==
    IF b THEN {} ELSE
    {"refresh", "local"}
    \cup (IF p = "installed" /\ s.installed # None /\ s.installed.flag = "root"
          THEN {"uninstall", IF Contains(d.enabled, s.installed.name) THEN "disable" ELSE "enable"}
          ELSE {})
    \cup (IF p = "enabled" /\ s.enabled # None THEN {"disable"} ELSE {})
    \cup (IF p = "market" /\ s.market # None /\ Installable(d.market[s.market])
          THEN {"install"} ELSE {})

Search == {"search"} \cap can
UpdateButtons == can' = Search \cup Buttons(busy', page', sel', data')

\* RefreshLocalData: both lists are read from the file and shown; a list that is
\* filled anew has no selection
RefreshLocalData ==
    LET installed == InstalledPackages(file')
        enabled == EnabledBundles(file')
    IN /\ data' = [data EXCEPT !.installed = installed, !.enabled = enabled]
       /\ rows' = [rows EXCEPT !.installed = DependencyTree(installed, enabled),
                               !.enabled = enabled]
       /\ sel' = [sel EXCEPT !.installed = None, !.enabled = None]

FillMarket(text) == /\ rows' = [rows EXCEPT !.market = Matches(data'.market, text)]
                    /\ sel' = [sel EXCEPT !.market = None]

---------------------------------------------------------------------------
(* The handlers. *)

Acts == UserActs /\ open # None /\ ~chooser

\* ShowDialog, up to the loop of the dialog: the lists are read, the market asked for
ShowDialog ==
    /\ UserActs /\ open = None
    /\ \E d \in Dialog :
         /\ phase[d] = "none" /\ \A e \in Dialog : e < d => phase[e] # "none"
         /\ open' = d /\ phase' = [phase EXCEPT ![d] = "open"]
         /\ pending' = [pending EXCEPT ![d] = 1]
         /\ Start(d, "fetch", "market", "")
    /\ overlap' = \E w \in Worker : Running(w)
    /\ UNCHANGED <<port, file, seen, busy, page, filter, chooser, loaded>>
    /\ RefreshLocalData /\ UpdateButtons

\* Faulty form of CloseDialog: the memory is freed whoever still uses it.
CloseAndFree ==
    /\ Acts
    /\ phase' = [phase EXCEPT ![open] = "none"]
    /\ open' = None
    /\ Blanked
    /\ UNCHANGED <<port, file, worker, seen, overlap, pending>>

\* ShowDialog, after its loop: freed unless a worker still uses it
CloseDialog ==
    /\ Acts
    /\ phase' = [phase EXCEPT ![open] = IF pending[open] = 0 THEN "none" ELSE "closed"]
    /\ open' = None
    /\ Blanked
    /\ UNCHANGED <<port, file, worker, seen, overlap, pending>>

Click(button) == Acts /\ button \in can
Still == UNCHANGED <<port, seen, overlap, phase, open, filter, chooser, loaded>>

\* StartOp
StartOp(pc, verb, spec) ==
    IF busy THEN UNCHANGED <<worker, pending, busy, can>>
    ELSE /\ busy' = TRUE
         /\ pending' = [pending EXCEPT ![open] = @ + 1]
         /\ UpdateButtons
         /\ Start(open, pc, verb, spec)

OnInstall ==
    /\ Click("install") /\ sel.market # None
    /\ LET p == data.market[sel.market]
           spec == IF NpmPackage(p) # "" THEN NpmPackage(p) ELSE GitSpec(p)
       IN spec # "" /\ UNCHANGED <<file, page, sel, data, rows>> /\ StartOp("check", "add", spec)
    /\ Still
OnUninstall ==
    /\ Click("uninstall") /\ sel.installed # None /\ sel.installed.flag = "root"
    /\ UNCHANGED <<file, page, sel, data, rows>>
    /\ StartOp("npx", "remove", sel.installed.name)
    /\ Still

\* OnEnableDisable works on the selection of the page that is shown
OnEnableDisable(on) ==
    /\ Click(IF on THEN "enable" ELSE "disable")
    /\ \/ page = "installed" /\ sel.installed # None /\ sel.installed.flag = "root"
       \/ page = "enabled" /\ sel.enabled # None
    /\ LET name == IF page = "installed" THEN sel.installed.name ELSE sel.enabled
       IN file' \in SetEnabled(file, name, on)
    /\ UNCHANGED <<worker, pending, busy, page>>
    /\ RefreshLocalData /\ UpdateButtons
    /\ Still

\* OnLocalInstall: the chooser runs a loop of its own, where results arrive
OpenChooser == /\ Click("local") /\ ~busy
               /\ chooser' = TRUE
               /\ UNCHANGED <<port, file, worker, seen, overlap, phase, pending, open, busy,
                              page, sel, data, rows, filter, can, loaded>>
ChooserReturns ==
    /\ chooser /\ chooser' = FALSE
    /\ UNCHANGED <<file, page, sel, data, rows>>
    /\ \/ UNCHANGED <<worker, pending, busy, can>>       \* cancelled, or no package there
       \/ StartOp("check", "add", "path")
    /\ UNCHANGED <<port, left, seen, overlap, phase, open, filter, loaded>>

ReloadMarket ==
    IF busy THEN UNCHANGED <<worker, pending>>
    ELSE Start(open, "fetch", "market", "") /\ pending' = [pending EXCEPT ![open] = @ + 1]
OnRefresh == /\ Click("refresh")
             /\ UNCHANGED <<file, busy, page>>
             /\ RefreshLocalData /\ UpdateButtons /\ ReloadMarket
             /\ Still

\* "switch-page" comes before the page changes: buttons and search box are set
\* for the page that is left
OnPageChanged(p) ==
    /\ Acts /\ p # page /\ page' = p
    /\ can' = Buttons(busy, page, sel, data) \cup IF page = "market" THEN {"search"} ELSE {}
    /\ UNCHANGED <<file, worker, pending, busy, sel, data, rows>>
    /\ Still
\* Clearing the list drops a selection, which updates the buttons
OnSearchChanged(text) ==
    /\ Click("search") /\ filter' = text
    /\ UNCHANGED <<port, file, worker, seen, overlap, phase, pending, open, busy, page,
                   data, chooser, loaded>>
    /\ FillMarket(text)
    /\ IF sel.market = None THEN UNCHANGED can ELSE UpdateButtons
OnSelectionChanged ==
    /\ Acts
    /\ sel' \in {[sel EXCEPT !.installed = r] : r \in IF page = "installed" THEN rows.installed ELSE {}}
           \cup {[sel EXCEPT !.enabled = r] : r \in IF page = "enabled" THEN ToSet(rows.enabled) ELSE {}}
           \cup {[sel EXCEPT !.market = r] : r \in IF page = "market" THEN rows.market ELSE {}}
    /\ UNCHANGED <<file, worker, pending, busy, page, data, rows>>
    /\ UpdateButtons
    /\ Still

---------------------------------------------------------------------------
(* The threads, and their callbacks on the main loop. *)

PnpmAvailable(w) ==
    /\ worker[w].pc = "check"
    /\ Becomes(w, "npx", FALSE) \/ Becomes(w, "done", FALSE)
    /\ UNCHANGED <<port, file, left, seen, overlap, phase, pending, uiVars>>

\* The last callback of a closed dialog frees it
Release(w) ==
    LET d == worker[w].dialog IN
    /\ worker' = [worker EXCEPT ![w] = Free]
    /\ pending' = [pending EXCEPT ![d] = @ - 1]
    /\ phase' = [phase EXCEPT ![d] = IF @ = "closed" /\ pending[d] = 1 THEN "none" ELSE @]
Closed(w) == phase[worker[w].dialog] # "open"
Back(w) == /\ worker[w].pc = "done" /\ Release(w)
           /\ UNCHANGED <<port, file, left, seen, overlap, open, page, filter, chooser, loaded>>

OpThread(w) ==
    /\ worker[w].verb # "market" /\ Back(w)
    /\ IF Closed(w) THEN UNCHANGED <<busy, sel, data, rows, can>>
       ELSE busy' = FALSE /\ RefreshLocalData /\ UpdateButtons
MarketThread(w) ==
    /\ worker[w].verb = "market" /\ Back(w)
    /\ IF Closed(w) THEN UNCHANGED <<busy, sel, data, rows, can>>
       ELSE /\ data' = [data EXCEPT !.market = IF worker[w].ok THEN LinuxMarket ELSE <<>>]
            /\ UNCHANGED busy
            /\ FillMarket(filter) /\ UpdateButtons

LinuxNext ==
    /\ port = "linux"
    /\ \/ ShowDialog \/ CloseDialog
       \/ OnInstall \/ OnUninstall \/ OnEnableDisable(TRUE) \/ OnEnableDisable(FALSE)
       \/ OpenChooser \/ ChooserReturns \/ OnRefresh \/ OnSelectionChanged
       \/ \E p \in Page : OnPageChanged(p)
       \/ \E text \in Searches : OnSearchChanged(text)
       \/ \E w \in Worker : PnpmAvailable(w) \/ OpThread(w) \/ MarketThread(w)
=============================================================================
