---------------------------- MODULE PluginsProofs ----------------------------
(***************************************************************************)
(* Proofs about Plugins, for any number of dialogs, threads and packages   *)
(* and any profile. The dialogs are proved whatever the JSON operators     *)
(* return; what these do is proved in the parts at the end.                *)
(***************************************************************************)
EXTENDS Plugins, FiniteSetTheorems, SequenceTheorems, WellFoundedInduction, TLAPS

\* A thread runs dsh plugin or loads the market, for a dialog.
WorkerOk(r) ==
    /\ r = [pc |-> r.pc, dialog |-> r.dialog, verb |-> r.verb, spec |-> r.spec, ok |-> r.ok]
    /\ r.pc \in {"free", "check", "npx", "cli", "fetch", "done"}
    /\ IF r.pc = "free" THEN r = Free ELSE r.dialog \in Dialog
    /\ r.pc \in {"check", "npx", "cli"} => r.verb # "market"

Threads ==
    /\ worker = [w \in Worker |-> worker[w]] /\ seen = [w \in Worker |-> seen[w]]
    /\ \A w \in Worker : WorkerOk(worker[w]) /\ (worker[w].pc # "cli" => seen[w] = {})

\* The threads that keep the open dialog busy: on Linux not those of the market.
Mine(w) == open # None /\ worker[w].dialog = open /\ (port = "linux" => worker[w].verb # "market")

Alone == \A w \in Worker : Mine(w) => busy /\ \A v \in Worker : Mine(v) => v = w

\* Unless a dialog came up over it, dsh plugin runs once and for the open dialog.
Known ==
    ~overlap => \A w \in Worker : Running(w) =>
        /\ open # None => worker[w].dialog = open
        /\ \A v \in Worker : Running(v) => v = w

DialogOk ==
    /\ open \in Dialog \cup {None} /\ overlap \in BOOLEAN /\ busy \in BOOLEAN /\ page \in Page
    /\ rows = [v \in Page |-> rows[v]] /\ data = [v \in Page |-> data[v]]
    /\ open = None => Blank
    /\ port = "linux" /\ busy => can \subseteq {"search"}

CoreInv == Threads /\ Alone /\ Known /\ NoLostUpdate

\* The references of a Linux dialog, counted.
Users(d) == {w \in Worker : worker[w].dialog = d}
Memory ==
    /\ pending = [d \in Dialog |-> pending[d]] /\ phase = [d \in Dialog |-> phase[d]]
    /\ port = "linux" => \A d \in Dialog :
         /\ pending[d] = Cardinality(Users(d))
         /\ phase[d] \in {"none", "open", "closed"}
         /\ phase[d] = "none" => pending[d] = 0
         /\ phase[d] = "closed" => pending[d] # 0
         /\ phase[d] = "open" <=> open = d

\* On Linux both lists are filled whenever the file is read.
LinuxLists ==
    port = "linux" /\ open # None =>
        /\ rows.market \subseteq DOMAIN data.market
        /\ ~busy /\ ~overlap =>
             /\ rows.installed = L!DependencyTree(L!InstalledPackages(file), L!EnabledBundles(file))
             /\ rows.enabled = L!EnabledBundles(file)

\* On Windows what was read is current unless dsh plugin runs for the dialog, and
\* the page that is shown, no other, agrees with it.
WindowsLists ==
    port # "linux" /\ open # None =>
        /\ ~overlap /\ (\A w \in Worker : worker[w].dialog = open => worker[w].verb = "market") =>
             /\ data.installed = W!InstalledPackages(file)
             /\ data.enabled = W!EnabledBundles(file)
        /\ page = "installed" => rows.installed = W!DependencyTree(data.installed, data.enabled)
        /\ page = "enabled" => rows.enabled = data.enabled
        /\ page = "market" => rows.market \subseteq DOMAIN data.market
        /\ ~loaded => rows.market = {}

PluginsInv == CoreInv /\ DialogOk /\ Memory /\ LinuxLists /\ WindowsLists

-----------------------------------------------------------------------------
(* What a step does to the threads and the file. Every action of both shells  *)
(* is one of these.                                                           *)

Only(w) == /\ worker' = [v \in Worker |-> worker'[v]] /\ WorkerOk(worker'[w])
           /\ \A v \in Worker \ {w} : worker'[v] = worker[v]

Rests == UNCHANGED <<port, file, worker, seen, overlap, open, busy>>

\* The file is edited in a dialog at rest, which may end the program.
Edits == /\ open # None /\ ~busy
         /\ (open' = open /\ busy' = busy) \/ open' = None
         /\ UNCHANGED <<port, worker, seen, overlap>>

Closes == open' = None /\ UNCHANGED <<port, file, worker, seen, overlap>>

Begins(w) ==
    /\ worker[w].pc = "free" /\ Only(w) /\ worker'[w].pc \in {"check", "npx", "fetch"}
    /\ open # None /\ open' = open /\ worker'[w].dialog = open
    /\ IF port = "linux" /\ worker'[w].verb = "market" THEN busy' = busy ELSE ~busy /\ busy'
    /\ UNCHANGED <<port, file, seen, overlap>>

Shows(w) ==
    /\ worker[w].pc = "free" /\ Only(w)
    /\ worker'[w].pc = "fetch" /\ worker'[w].verb = "market" /\ worker'[w].dialog = open'
    /\ open' # None /\ \A v \in Worker : worker[v].dialog # open'
    /\ port # "linux" => busy'
    /\ overlap' = \E v \in Worker : Running(v)
    /\ UNCHANGED <<port, file, seen>>

Runs(w) ==
    /\ Only(w) /\ worker[w].pc # "free" /\ worker'[w].pc # "free"
    /\ worker'[w].dialog = worker[w].dialog /\ worker'[w].verb = worker[w].verb
    /\ Running(w)' => Running(w)
    /\ seen' = [v \in Worker |-> seen'[v]] /\ \A v \in Worker \ {w} : seen'[v] = seen[v]
    /\ seen'[w] = IF worker'[w].pc = "cli" THEN {file'} ELSE {}
    /\ file' = file \/ worker[w].pc = "cli"
    /\ UNCHANGED <<port, overlap, open, busy>>

Ends(w) ==
    /\ worker[w].pc = "done" /\ Only(w) /\ worker'[w] = Free
    /\ busy' = IF Mine(w) THEN FALSE ELSE busy
    /\ UNCHANGED <<port, file, seen, overlap, open>>

Steps == \/ Rests \/ Edits \/ Closes
         \/ \E w \in Worker : Begins(w) \/ Shows(w) \/ Runs(w) \/ Ends(w)

LEMMA FreeFields == Free.pc = "free" /\ Free.verb = "market" /\ Free.dialog = None
  BY DEF Free

LEMMA RunningOne ==
  ASSUME Threads, NEW w \in Worker
  PROVE  /\ Running(w) => worker[w].verb # "market" /\ worker[w].dialog \in Dialog
         /\ worker[w].pc = "free" => worker[w] = Free /\ worker[w].verb = "market"
                                    /\ worker[w].dialog = None /\ ~Running(w)
         /\ worker[w].pc \in {"done", "fetch"} => worker[w].dialog \in Dialog /\ ~Running(w)
<1>1. WorkerOk(worker[w])
  BY DEF Threads
<1> QED BY <1>1, FreeFields DEF WorkerOk, Running

\* What a dialog at rest edits, no run of dsh plugin has read.
LEMMA NobodyRuns ==
  ASSUME CoreInv, open # None, ~busy, ~overlap
  PROVE  \A w \in Worker : ~Running(w)
  BY RunningOne DEF CoreInv, Known, Alone, Mine

LEMMA CoreKept ==
  ASSUME CoreInv, busy \in BOOLEAN, overlap \in BOOLEAN, Steps
  PROVE  CoreInv'
<1> USE DEF CoreInv
<1>1. CASE Rests
  BY <1>1 DEF Rests, Threads, Alone, Known, NoLostUpdate, Mine, Running
<1>2. CASE Edits
  <2>1. ~overlap => \A w \in Worker : ~Running(w)
    BY <1>2, NobodyRuns DEF Edits
  <2>2. UNCHANGED <<port, worker, seen, overlap>> /\ ((open' = open /\ busy' = busy) \/ open' = None)
    BY <1>2 DEF Edits
  <2>3. Threads' /\ Alone'
    BY <2>2 DEF Threads, Alone, Mine
  <2>4. Known' /\ NoLostUpdate'
    BY <2>1, <2>2 DEF Known, NoLostUpdate, Running
  <2> QED BY <2>3, <2>4
<1>3. CASE Closes
  <2>1. open' = None /\ UNCHANGED <<port, file, worker, seen, overlap>>
    BY <1>3 DEF Closes
  <2> QED BY <2>1 DEF Threads, Alone, Known, NoLostUpdate, Mine, Running
<1>4. ASSUME NEW w \in Worker, Begins(w) PROVE CoreInv'
  <2>1. /\ worker[w].pc = "free" /\ worker'[w].pc \in {"check", "npx", "fetch"}
        /\ open # None /\ open' = open /\ worker'[w].dialog = open
        /\ UNCHANGED <<port, file, seen, overlap>>
        /\ WorkerOk(worker'[w]) /\ \A v \in Worker : v # w => worker'[v] = worker[v]
        /\ worker' = [v \in Worker |-> worker'[v]]
    BY <1>4 DEF Begins, Only
  <2>2. IF port = "linux" /\ worker'[w].verb = "market" THEN busy' = busy ELSE ~busy /\ busy'
    BY <1>4 DEF Begins
  <2>3. Threads'
    BY <2>1 DEF Threads
  <2>4. Alone'
    <3>1. CASE port = "linux" /\ worker'[w].verb = "market"
      <4>1. ~Mine(w)' /\ busy' = busy
        BY <2>1, <2>2, <3>1 DEF Mine
      <4>2. \A v \in Worker : v # w => Mine(v)' = Mine(v)
        BY <2>1 DEF Mine
      <4> QED BY <4>1, <4>2 DEF Alone
    <3>2. CASE ~(port = "linux" /\ worker'[w].verb = "market")
      <4>1. ~busy /\ busy'
        BY <2>2, <3>2
      <4>2. \A v \in Worker : v # w => Mine(v)' = Mine(v)
        BY <2>1 DEF Mine
      <4>3. \A v \in Worker : ~Mine(v)
        BY <4>1 DEF Alone
      <4> QED BY <4>1, <4>2, <4>3 DEF Alone
    <3> QED BY <3>1, <3>2
  <2>5. Known'
    <3> SUFFICES ASSUME ~overlap', NEW v \in Worker, Running(v)'
                 PROVE  (open' # None => worker'[v].dialog = open')
                        /\ \A u \in Worker : Running(u)' => u = v
      BY DEF Known
    <3>1. \A u \in Worker : u # w => Running(u)' = Running(u)
      BY <2>1 DEF Running
    <3>2. CASE worker'[w].pc = "fetch"
      <4>1. ~Running(w)'
        BY <3>2 DEF Running
      <4> QED BY <2>1, <3>1, <4>1 DEF Known
    <3>3. CASE worker'[w].pc # "fetch"
      <4>1. worker'[w].verb # "market"
        BY <2>1, <3>3 DEF WorkerOk
      <4>2. ~busy /\ ~overlap
        BY <2>1, <2>2, <4>1
      <4>3. \A u \in Worker : ~Running(u)
        BY <2>1, <4>2, NobodyRuns
      <4> QED BY <2>1, <3>1, <4>3
    <3> QED BY <3>2, <3>3
  <2>6. NoLostUpdate'
    BY <2>1 DEF NoLostUpdate
  <2> QED BY <2>3, <2>4, <2>5, <2>6
<1>5. ASSUME NEW w \in Worker, Shows(w) PROVE CoreInv'
  <2>1. /\ worker[w].pc = "free" /\ worker'[w].pc = "fetch" /\ worker'[w].verb = "market"
        /\ worker'[w].dialog = open' /\ open' # None /\ \A v \in Worker : worker[v].dialog # open'
        /\ (port # "linux" => busy') /\ UNCHANGED <<port, file, seen>>
        /\ WorkerOk(worker'[w]) /\ \A v \in Worker : v # w => worker'[v] = worker[v]
        /\ worker' = [v \in Worker |-> worker'[v]]
    BY <1>5 DEF Shows, Only
  <2>2. overlap' = \E v \in Worker : Running(v)
    BY <1>5 DEF Shows
  <2>3. Threads'
    BY <2>1 DEF Threads
  <2>4. Alone'
    BY <2>1 DEF Alone, Mine
  <2>5. ~overlap' => \A v \in Worker : ~Running(v)'
    <3>1. \A v \in Worker : v # w => Running(v)' = Running(v)
      BY <2>1 DEF Running
    <3>2. ~Running(w)'
      BY <2>1 DEF Running
    <3> QED BY <2>2, <3>1, <3>2
  <2>6. Known'
    BY <2>5 DEF Known
  <2>7. NoLostUpdate'
    BY <2>5 DEF NoLostUpdate, Running
  <2> QED BY <2>3, <2>4, <2>6, <2>7
<1>6. ASSUME NEW w \in Worker, Runs(w) PROVE CoreInv'
  <2>1. /\ UNCHANGED <<port, overlap, open, busy>>
        /\ worker[w].pc # "free" /\ worker'[w].pc # "free"
        /\ worker'[w].dialog = worker[w].dialog /\ worker'[w].verb = worker[w].verb
        /\ WorkerOk(worker'[w]) /\ \A v \in Worker : v # w => worker'[v] = worker[v]
        /\ worker' = [v \in Worker |-> worker'[v]]
        /\ seen' = [v \in Worker |-> seen'[v]] /\ \A v \in Worker : v # w => seen'[v] = seen[v]
        /\ seen'[w] = IF worker'[w].pc = "cli" THEN {file'} ELSE {}
        /\ (file' = file \/ worker[w].pc = "cli")
    BY <1>6 DEF Runs, Only
  <2>2. \A v \in Worker : Running(v)' => Running(v)
    <3>1. \A v \in Worker : v # w => Running(v)' = Running(v)
      BY <2>1 DEF Running
    <3>2. Running(w)' => Running(w)
      BY <1>6 DEF Runs
    <3> QED BY <3>1, <3>2
  <2>3. Threads'
    BY <2>1 DEF Threads
  <2>4. Alone'
    <3>1. \A v \in Worker : Mine(v)' = Mine(v)
      BY <2>1 DEF Mine
    <3> QED BY <2>1, <3>1 DEF Alone
  <2>5. \A v \in Worker : worker'[v].dialog = worker[v].dialog
    BY <2>1
  <2>6. Known'
    BY <2>1, <2>2, <2>5 DEF Known
  <2>7. NoLostUpdate'
    <3> SUFFICES ASSUME NEW v \in Worker, worker'[v].pc = "cli", ~overlap
                 PROVE  seen'[v] = {file'}
      BY <2>1 DEF NoLostUpdate
    <3>1. CASE v = w
      BY <2>1, <3>1
    <3>2. CASE v # w
      <4>1. worker[v].pc = "cli" /\ seen'[v] = seen[v]
        BY <2>1, <3>2
      <4>2. worker[w].pc # "cli"
        BY <3>2, <4>1 DEF Known, Running
      <4> QED BY <2>1, <4>1, <4>2 DEF NoLostUpdate
    <3> QED BY <3>1, <3>2
  <2> QED BY <2>3, <2>4, <2>6, <2>7
<1>7. ASSUME NEW w \in Worker, Ends(w) PROVE CoreInv'
  <2>1. /\ worker[w].pc = "done" /\ worker'[w] = Free /\ UNCHANGED <<port, file, seen, overlap, open>>
        /\ WorkerOk(worker'[w]) /\ \A v \in Worker : v # w => worker'[v] = worker[v]
        /\ worker' = [v \in Worker |-> worker'[v]]
    BY <1>7 DEF Ends, Only
  <2>2. ~Running(w)' /\ ~Mine(w)' /\ worker'[w].pc = "free"
    BY <2>1, FreeFields DEF Running, Mine
  <2>3. \A v \in Worker : v # w => Running(v)' = Running(v) /\ Mine(v)' = Mine(v)
    BY <2>1 DEF Running, Mine
  <2>4. Threads'
    BY <2>1 DEF Threads
  <2>5. Alone'
    <3>1. Mine(w) => \A v \in Worker : ~Mine(v)'
      BY <2>2, <2>3 DEF Alone
    <3>2. ~Mine(w) => busy' = busy
      BY <1>7 DEF Ends
    <3> QED BY <2>2, <2>3, <3>1, <3>2 DEF Alone
  <2>6. Known'
    BY <2>1, <2>2, <2>3 DEF Known
  <2>7. NoLostUpdate'
    BY <2>1, <2>2 DEF NoLostUpdate
  <2> QED BY <2>4, <2>5, <2>6, <2>7
<1> QED BY <1>1, <1>2, <1>3, <1>4, <1>5, <1>6, <1>7 DEF Steps

-----------------------------------------------------------------------------
(* The memory of a Linux dialog. *)

LEMMA UsersFinite ==
  ASSUME NEW d
  PROVE  /\ IsFiniteSet(Users(d)) /\ Cardinality(Users(d)) \in Nat
         /\ Cardinality(Users(d)) = 0 <=> Users(d) = {}
<1>1. IsFiniteSet(Users(d))
  BY FS_Subset, PluginAssumption DEF Users
<1> QED BY <1>1, FS_EmptySet, FS_CardinalityType

LEMMA UsersGrow ==
  ASSUME Threads, NEW w \in Worker, worker[w].pc = "free", Only(w), worker'[w].dialog \in Dialog,
         NEW d \in Dialog
  PROVE  Cardinality(Users(d)') = IF worker'[w].dialog = d THEN Cardinality(Users(d)) + 1
                                                          ELSE Cardinality(Users(d))
<1>1. worker[w].dialog = None /\ None \notin Dialog
  BY RunningOne, PluginAssumption
<1>2. \A v \in Worker : v # w => worker'[v] = worker[v]
  BY DEF Only
<1>3. CASE worker'[w].dialog = d
  <2>1. Users(d)' = Users(d) \cup {w} /\ w \notin Users(d)
    BY <1>1, <1>2, <1>3 DEF Users
  <2>2. IsFiniteSet(Users(d))
    BY UsersFinite
  <2>3. Cardinality(Users(d) \cup {w}) = Cardinality(Users(d)) + 1
    BY <2>1, <2>2, FS_AddElement
  <2> QED BY <1>3, <2>1, <2>3
<1>4. CASE worker'[w].dialog # d
  <2>1. Users(d)' = Users(d)
    BY <1>1, <1>2, <1>4 DEF Users
  <2> QED BY <1>4, <2>1
<1> QED BY <1>3, <1>4

LEMMA UsersShrink ==
  ASSUME Threads, NEW w \in Worker, worker[w].pc = "done", Only(w), worker'[w] = Free,
         NEW d \in Dialog
  PROVE  /\ Cardinality(Users(d)') = IF worker[w].dialog = d THEN Cardinality(Users(d)) - 1
                                                             ELSE Cardinality(Users(d))
         /\ worker[w].dialog = d => Cardinality(Users(d)) # 0
<1>1. worker'[w].dialog = None /\ None \notin Dialog
  BY FreeFields, PluginAssumption
<1>2. \A v \in Worker : v # w => worker'[v] = worker[v]
  BY DEF Only
<1>3. CASE worker[w].dialog = d
  <2>1. Users(d)' = Users(d) \ {w} /\ w \in Users(d)
    BY <1>1, <1>2, <1>3 DEF Users
  <2>2. IsFiniteSet(Users(d)) /\ Cardinality(Users(d)) # 0
    BY <2>1, UsersFinite
  <2>3. Cardinality(Users(d) \ {w}) = Cardinality(Users(d)) - 1
    BY <2>1, <2>2, FS_RemoveElement
  <2> QED BY <1>3, <2>1, <2>2, <2>3
<1>4. CASE worker[w].dialog # d
  <2>1. Users(d)' = Users(d)
    BY <1>1, <1>2, <1>4 DEF Users
  <2> QED BY <1>4, <2>1
<1> QED BY <1>3, <1>4

LEMMA MemoryRests ==
  ASSUME Memory, UNCHANGED <<port, pending, phase, open>>,
         \A w \in Worker : worker'[w].dialog = worker[w].dialog
  PROVE  Memory'
<1>1. \A d \in Dialog : Users(d)' = Users(d)
  BY DEF Users
<1> QED BY <1>1 DEF Memory

LEMMA MemoryBegins ==
  ASSUME Threads, Memory, port = "linux", open \in Dialog, UNCHANGED <<port, phase, open>>,
         NEW w \in Worker, worker[w].pc = "free", Only(w), worker'[w].dialog = open,
         pending' = [pending EXCEPT ![open] = @ + 1]
  PROVE  Memory'
<1>1. \A d \in Dialog : pending'[d] = Cardinality(Users(d)')
  BY UsersGrow DEF Memory
<1>2. pending' = [d \in Dialog |-> pending'[d]] /\ phase' = [d \in Dialog |-> phase'[d]]
  BY DEF Memory
<1>3. \A d \in Dialog : d # open => pending'[d] = pending[d]
  BY DEF Memory
<1>4. phase[open] = "open"
  BY DEF Memory
<1> QED BY <1>1, <1>2, <1>3, <1>4 DEF Memory

LEMMA MemoryShows ==
  ASSUME Threads, Memory, port = "linux", open \notin Dialog, UNCHANGED port,
         NEW d \in Dialog, phase[d] = "none", open' = d,
         NEW w \in Worker, worker[w].pc = "free", Only(w), worker'[w].dialog = d,
         phase' = [phase EXCEPT ![d] = "open"], pending' = [pending EXCEPT ![d] = 1]
  PROVE  Memory' /\ \A v \in Worker : worker[v].dialog # d
<1>1. Cardinality(Users(d)) = 0
  BY DEF Memory
<1>2. \A v \in Worker : worker[v].dialog # d
  BY <1>1, UsersFinite DEF Users
<1>3. \A e \in Dialog : pending'[e] = Cardinality(Users(e)')
  BY <1>1, UsersGrow DEF Memory
<1>4. /\ pending' = [e \in Dialog |-> pending'[e]] /\ phase' = [e \in Dialog |-> phase'[e]]
      /\ phase'[d] = "open" /\ \A e \in Dialog : e # d => phase'[e] = phase[e] /\ pending'[e] = pending[e]
  BY DEF Memory
<1> QED BY <1>2, <1>3, <1>4 DEF Memory

LEMMA MemoryCloses ==
  ASSUME Memory, port = "linux", open \in Dialog, UNCHANGED <<port, worker, pending>>, open' = None,
         phase' = [phase EXCEPT ![open] = IF pending[open] = 0 THEN "none" ELSE "closed"]
  PROVE  Memory'
<1>1. \A d \in Dialog : Users(d)' = Users(d) /\ d # None
  BY PluginAssumption DEF Users
<1>2. /\ phase' = [d \in Dialog |-> phase'[d]]
      /\ phase'[open] = IF pending[open] = 0 THEN "none" ELSE "closed"
      /\ \A d \in Dialog : d # open => phase'[d] = phase[d]
  BY DEF Memory
<1> QED BY <1>1, <1>2 DEF Memory

LEMMA MemoryEnds ==
  ASSUME Threads, Memory, port = "linux", UNCHANGED <<port, open>>,
         NEW w \in Worker, worker[w].pc = "done", Only(w), worker'[w] = Free,
         NEW d \in Dialog, worker[w].dialog = d,
         pending' = [pending EXCEPT ![d] = @ - 1],
         phase' = [phase EXCEPT ![d] = IF @ = "closed" /\ pending[d] = 1 THEN "none" ELSE @]
  PROVE  Memory'
<1>1. /\ \A e \in Dialog : pending'[e] = Cardinality(Users(e)')
      /\ pending[d] \in Nat \ {0}
  BY UsersShrink, UsersFinite DEF Memory
<1>2. /\ pending' = [e \in Dialog |-> pending'[e]] /\ phase' = [e \in Dialog |-> phase'[e]]
      /\ phase'[d] = IF phase[d] = "closed" /\ pending[d] = 1 THEN "none" ELSE phase[d]
      /\ pending'[d] = pending[d] - 1
      /\ \A e \in Dialog : e # d => phase'[e] = phase[e] /\ pending'[e] = pending[e]
  BY DEF Memory
<1>3. phase[d] # "none"
  BY <1>1 DEF Memory
<1> QED BY <1>1, <1>2, <1>3 DEF Memory

-----------------------------------------------------------------------------
(* The handlers of Linux. *)

\* A thread is started for the dialog that is open.
Takes(w, pc, verb) ==
    /\ worker[w].pc = "free" /\ Only(w)
    /\ worker'[w].pc = pc /\ worker'[w].verb = verb /\ worker'[w].dialog = open'

\* UpdateButtons, after which only the search box may be sensitive if busy.
LEMMA LinuxButtons ==
  ASSUME L!UpdateButtons, busy'
  PROVE  can' \subseteq {"search"}
  BY DEF L!UpdateButtons, L!Buttons, L!Search

LEMMA LinuxRefreshes ==
  ASSUME DialogOk, L!RefreshLocalData
  PROVE  /\ rows' = [v \in Page |-> rows'[v]] /\ data' = [v \in Page |-> data'[v]]
         /\ rows'.market = rows.market /\ data'.market = data.market
         /\ rows'.installed = L!DependencyTree(L!InstalledPackages(file'), L!EnabledBundles(file'))
         /\ rows'.enabled = L!EnabledBundles(file')
  BY DEF L!RefreshLocalData, DialogOk, Page

LEMMA LinuxFills ==
  ASSUME DialogOk, NEW text, L!FillMarket(text)
  PROVE  /\ rows' = [v \in Page |-> rows'[v]]
         /\ rows'.market \subseteq DOMAIN data'.market
         /\ rows'.installed = rows.installed /\ rows'.enabled = rows.enabled
<1>1. L!Matches(data'.market, text) \subseteq DOMAIN data'.market
  BY DEF L!Matches
<1> QED BY <1>1 DEF L!FillMarket, DialogOk, Page

LEMMA LinuxBlank == (L!Blank <=> Blank) /\ (L!Blanked <=> Blank')
  BY DEF L!Blank, L!Blanked, Blank, L!NoSel, L!NoData, L!NoRows, NoSel, NoData, NoRows

LEMMA BlankLists ==
  ASSUME Blank
  PROVE  /\ rows = [v \in Page |-> rows[v]] /\ data = [v \in Page |-> data[v]]
         /\ busy = FALSE /\ page \in Page /\ can = {} /\ rows.market = {} /\ loaded = FALSE
         /\ chooser = FALSE /\ page = "installed"
  BY DEF Blank, NoRows, NoData, Page

\* What the proof of each handler shows.
Kept == Steps /\ DialogOk' /\ Memory' /\ LinuxLists' /\ WindowsLists'

LEMMA LinuxShows == PluginsInv /\ port = "linux" /\ L!ShowDialog => Kept
<1> SUFFICES ASSUME PluginsInv, port = "linux", L!ShowDialog PROVE Kept
  OBVIOUS
<1> USE DEF PluginsInv, CoreInv
<1>1. /\ open = None /\ UNCHANGED <<port, file, seen, busy, page, filter, chooser, loaded>>
      /\ overlap' = \E w \in Worker : L!Running(w)
      /\ L!RefreshLocalData /\ L!UpdateButtons
  BY DEF L!ShowDialog
<1>2. PICK d \in Dialog : /\ phase[d] = "none" /\ open' = d
                          /\ phase' = [phase EXCEPT ![d] = "open"]
                          /\ pending' = [pending EXCEPT ![d] = 1]
                          /\ L!Start(d, "fetch", "market", "")
  BY DEF L!ShowDialog
<1>3. PICK w \in Worker : Takes(w, "fetch", "market")
  <2>1. PICK w \in Worker : /\ worker[w] = Free
                            /\ worker' = [worker EXCEPT ![w] = [pc |-> "fetch", dialog |-> d,
                                                  verb |-> "market", spec |-> "", ok |-> FALSE]]
    BY <1>2 DEF L!Start, L!Free, Free
  <2>2. Takes(w, "fetch", "market")
    BY <1>2, <2>1, FreeFields DEF Takes, Only, Threads, WorkerOk
  <2> QED BY <2>2
<1>4. Blank
  BY <1>1 DEF DialogOk
<1>5. Memory' /\ \A v \in Worker : worker[v].dialog # d
  BY <1>1, <1>2, <1>3, MemoryShows, PluginAssumption DEF Takes
<1>6. overlap' = \E v \in Worker : Running(v)
  BY <1>1 DEF L!Running, Running
<1>7. Shows(w)
  BY <1>1, <1>2, <1>3, <1>5, <1>6, PluginAssumption DEF Shows, Takes
<1>8. /\ rows' = [v \in Page |-> rows'[v]] /\ data' = [v \in Page |-> data'[v]]
      /\ rows'.market = {}
      /\ rows'.installed = L!DependencyTree(L!InstalledPackages(file'), L!EnabledBundles(file'))
      /\ rows'.enabled = L!EnabledBundles(file')
  BY <1>1, <1>4, LinuxRefreshes, BlankLists
<1>9. DialogOk'
  BY <1>1, <1>2, <1>4, <1>6, <1>8, BlankLists, PluginAssumption DEF DialogOk
<1>10. LinuxLists' /\ WindowsLists'
  BY <1>1, <1>8 DEF LinuxLists, WindowsLists
<1> QED BY <1>5, <1>7, <1>9, <1>10 DEF Kept, Steps

LEMMA LinuxCloses == PluginsInv /\ port = "linux" /\ L!CloseDialog => Kept
<1> SUFFICES ASSUME PluginsInv, port = "linux", L!CloseDialog PROVE Kept
  OBVIOUS
<1> USE DEF PluginsInv
<1>1. /\ open # None /\ open' = None /\ Blank'
      /\ phase' = [phase EXCEPT ![open] = IF pending[open] = 0 THEN "none" ELSE "closed"]
      /\ UNCHANGED <<port, file, worker, seen, overlap, pending>>
  BY LinuxBlank DEF L!CloseDialog, L!Acts
<1>2. open \in Dialog
  BY <1>1 DEF DialogOk
<1>3. Memory'
  BY <1>1, <1>2, MemoryCloses
<1>4. rows' = [v \in Page |-> rows'[v]] /\ data' = [v \in Page |-> data'[v]]
      /\ busy' = FALSE /\ page' \in Page
  BY <1>1 DEF Blank, NoRows, NoData, Page
<1>5. DialogOk' /\ LinuxLists' /\ WindowsLists'
  BY <1>1, <1>4 DEF DialogOk, LinuxLists, WindowsLists
<1>6. Closes
  BY <1>1 DEF Closes
<1> QED BY <1>3, <1>5, <1>6 DEF Kept, Steps

LEMMA LinuxOps ==
  PluginsInv /\ port = "linux" /\ (L!OnInstall \/ L!OnUninstall \/ L!ChooserReturns) => Kept
<1> SUFFICES ASSUME PluginsInv, port = "linux", L!OnInstall \/ L!OnUninstall \/ L!ChooserReturns
             PROVE  Kept
  OBVIOUS
<1> USE DEF PluginsInv, CoreInv
<1>1. open # None
  <2>1. CASE L!ChooserReturns
    BY <2>1, BlankLists DEF L!ChooserReturns, DialogOk
  <2>2. CASE L!OnInstall \/ L!OnUninstall
    BY <2>2 DEF L!OnInstall, L!OnUninstall, L!Click, L!Acts
  <2> QED BY <2>1, <2>2
<1>2. UNCHANGED <<port, file, page, data, rows, seen, overlap, phase, open, loaded>>
  <2>1. CASE L!ChooserReturns
    BY <2>1 DEF L!ChooserReturns
  <2>2. CASE L!OnInstall
    BY <2>2 DEF L!OnInstall, L!Still
  <2>3. CASE L!OnUninstall
    BY <2>3 DEF L!OnUninstall, L!Still
  <2> QED BY <2>1, <2>2, <2>3
<1>3. CASE UNCHANGED <<worker, pending, busy, can>>
  <2>1. Rests
    BY <1>2, <1>3 DEF Rests
  <2>2. Memory'
    BY <1>2, <1>3, MemoryRests
  <2>3. DialogOk' /\ LinuxLists' /\ WindowsLists'
    BY <1>1, <1>2, <1>3 DEF DialogOk, LinuxLists, WindowsLists
  <2> QED BY <2>1, <2>2, <2>3 DEF Kept, Steps
<1>4. CASE ~UNCHANGED <<worker, pending, busy, can>>
  <2>1. \/ L!StartOp("check", "add", "path")
        \/ L!StartOp("npx", "remove", sel.installed.name)
        \/ \E spec \in {L!NpmPackage(data.market[sel.market]), L!GitSpec(data.market[sel.market])} :
              L!StartOp("check", "add", spec)
    BY <1>4 DEF L!OnInstall, L!OnUninstall, L!ChooserReturns
  <2>2. PICK pc \in {"check", "npx"}, verb \in {"add", "remove"} : \E spec : L!StartOp(pc, verb, spec)
    BY <2>1
  <2>3. /\ ~busy /\ busy' = TRUE /\ pending' = [pending EXCEPT ![open] = @ + 1]
        /\ L!UpdateButtons /\ \E spec : L!Start(open, pc, verb, spec)
    BY <1>4, <2>2 DEF L!StartOp
  <2>4. PICK w \in Worker : Takes(w, pc, verb)
    <3>1. PICK w \in Worker :
               /\ worker[w] = Free
               /\ \E spec : worker' = [worker EXCEPT ![w] = [pc |-> pc, dialog |-> open, verb |-> verb,
                                                              spec |-> spec, ok |-> FALSE]]
      BY <2>3 DEF L!Start, L!Free, Free
    <3>2. open' \in Dialog
      BY <1>1, <1>2 DEF DialogOk
    <3>3. PICK spec : worker' = [worker EXCEPT ![w] = [pc |-> pc, dialog |-> open, verb |-> verb,
                                                      spec |-> spec, ok |-> FALSE]]
      BY <3>1
    <3>4. Takes(w, pc, verb)
      BY <1>2, <3>1, <3>2, <3>3, FreeFields DEF Takes, Only, Threads, WorkerOk
    <3> QED BY <3>4
  <2>5. Begins(w)
    BY <1>1, <1>2, <2>3, <2>4 DEF Begins, Takes
  <2>6. Memory'
    BY <1>1, <1>2, <2>3, <2>4, MemoryBegins DEF Takes, DialogOk
  <2>7. DialogOk' /\ LinuxLists' /\ WindowsLists'
    BY <1>1, <1>2, <2>3, LinuxButtons DEF DialogOk, LinuxLists, WindowsLists
  <2> QED BY <2>5, <2>6, <2>7 DEF Kept, Steps
<1> QED BY <1>3, <1>4

LEMMA LinuxEdits ==
  ASSUME PluginsInv, port = "linux", NEW on \in BOOLEAN, L!OnEnableDisable(on)
  PROVE  Kept
<1> USE DEF PluginsInv
<1>1. /\ open # None /\ UNCHANGED <<worker, pending, busy, page, port, seen, overlap, phase, open, loaded>>
      /\ L!RefreshLocalData /\ L!UpdateButtons
  BY DEF L!OnEnableDisable, L!Still, L!Click, L!Acts
<1>2. ~busy
  <2>1. can \cap {"enable", "disable"} # {}
    BY DEF L!OnEnableDisable, L!Click
  <2> QED BY <2>1 DEF DialogOk
<1>3. Edits
  BY <1>1, <1>2 DEF Edits
<1>4. Memory'
  BY <1>1, MemoryRests
<1>5. DialogOk' /\ LinuxLists' /\ WindowsLists'
  BY <1>1, <1>2, LinuxRefreshes, LinuxButtons DEF DialogOk, LinuxLists, WindowsLists
<1> QED BY <1>3, <1>4, <1>5 DEF Kept, Steps

LEMMA LinuxReloads == PluginsInv /\ port = "linux" /\ L!OnRefresh => Kept
<1> SUFFICES ASSUME PluginsInv, port = "linux", L!OnRefresh PROVE Kept
  OBVIOUS
<1> USE DEF PluginsInv, CoreInv
<1>1. /\ open # None /\ UNCHANGED <<file, busy, page, port, seen, overlap, phase, open, loaded>>
      /\ L!RefreshLocalData /\ L!UpdateButtons /\ L!ReloadMarket
  BY DEF L!OnRefresh, L!Still, L!Click, L!Acts
<1>2. DialogOk' /\ LinuxLists' /\ WindowsLists'
  BY <1>1, LinuxRefreshes, LinuxButtons DEF DialogOk, LinuxLists, WindowsLists
<1>3. CASE busy
  <2>1. UNCHANGED <<worker, pending>>
    BY <1>1, <1>3 DEF L!ReloadMarket
  <2>2. Rests /\ Memory'
    BY <1>1, <2>1, MemoryRests DEF Rests
  <2> QED BY <1>2, <2>2 DEF Kept, Steps
<1>4. CASE ~busy
  <2>1. L!Start(open, "fetch", "market", "") /\ pending' = [pending EXCEPT ![open] = @ + 1]
    BY <1>1, <1>4 DEF L!ReloadMarket
  <2>2. PICK w \in Worker : Takes(w, "fetch", "market")
    <3>1. PICK w \in Worker : /\ worker[w] = Free
                              /\ worker' = [worker EXCEPT ![w] = [pc |-> "fetch", dialog |-> open,
                                                    verb |-> "market", spec |-> "", ok |-> FALSE]]
      BY <2>1 DEF L!Start, L!Free, Free
    <3>2. open' \in Dialog
      BY <1>1 DEF DialogOk
    <3>3. Takes(w, "fetch", "market")
      BY <1>1, <3>1, <3>2, FreeFields DEF Takes, Only, Threads, WorkerOk
    <3> QED BY <3>3
  <2>3. Begins(w)
    BY <1>1, <2>2 DEF Begins, Takes
  <2>4. Memory'
    BY <1>1, <2>1, <2>2, MemoryBegins DEF Takes, DialogOk
  <2> QED BY <1>2, <2>3, <2>4 DEF Kept, Steps
<1> QED BY <1>3, <1>4

\* Pages, rows and the file chooser.
Browses == \/ L!OpenChooser \/ L!OnSelectionChanged
           \/ \E p \in Page : L!OnPageChanged(p)
           \/ \E text \in Searches : L!OnSearchChanged(text)

LEMMA LinuxBrowses == PluginsInv /\ port = "linux" /\ Browses => Kept
<1> SUFFICES ASSUME PluginsInv, port = "linux", Browses PROVE Kept
  OBVIOUS
<1> USE DEF PluginsInv
<1>1. /\ open # None
      /\ UNCHANGED <<port, file, worker, seen, overlap, phase, pending, open, busy, data, loaded>>
  <2>1. CASE L!OpenChooser
    BY <2>1 DEF L!OpenChooser, L!Click, L!Acts
  <2>2. CASE L!OnSelectionChanged
    BY <2>2 DEF L!OnSelectionChanged, L!Acts, L!Still
  <2>3. CASE \E p \in Page : L!OnPageChanged(p)
    BY <2>3 DEF L!OnPageChanged, L!Acts, L!Still
  <2>4. CASE \E text \in Searches : L!OnSearchChanged(text)
    BY <2>4 DEF L!OnSearchChanged, L!Click, L!Acts
  <2> QED BY <2>1, <2>2, <2>3, <2>4 DEF Browses
<1>2. Rests /\ Memory'
  BY <1>1, MemoryRests DEF Rests
<1>3. /\ page' \in Page /\ (busy' => can' \subseteq {"search"})
      /\ rows' = [v \in Page |-> rows'[v]]
      /\ rows'.installed = rows.installed /\ rows'.enabled = rows.enabled
      /\ rows'.market = rows.market \/ rows'.market \subseteq DOMAIN data'.market
  <2>1. CASE L!OpenChooser
    BY <2>1 DEF L!OpenChooser, DialogOk
  <2>2. CASE L!OnSelectionChanged
    BY <2>2, LinuxButtons DEF L!OnSelectionChanged, DialogOk
  <2>3. CASE \E p \in Page : L!OnPageChanged(p)
    BY <1>1, <2>3 DEF L!OnPageChanged, L!Buttons, DialogOk
  <2>4. CASE \E text \in Searches : L!OnSearchChanged(text)
    <3>1. PICK text \in Searches : L!OnSearchChanged(text)
      BY <2>4
    <3>2. L!FillMarket(text) /\ page' = page /\ (UNCHANGED can \/ L!UpdateButtons)
      BY <3>1 DEF L!OnSearchChanged
    <3> QED BY <1>1, <3>2, LinuxFills, LinuxButtons DEF DialogOk
  <2> QED BY <2>1, <2>2, <2>3, <2>4 DEF Browses
<1>4. DialogOk' /\ LinuxLists' /\ WindowsLists'
  BY <1>1, <1>3 DEF DialogOk, LinuxLists, WindowsLists
<1> QED BY <1>2, <1>4 DEF Kept, Steps

-----------------------------------------------------------------------------
(* The threads. *)

\* What the threads leave alone.
Hidden == UNCHANGED <<phase, pending, page, sel, data, rows, filter, can, chooser, loaded>>

LEMMA RunsKept ==
  ASSUME PluginsInv, NEW w \in Worker, Runs(w), Hidden
  PROVE  Kept
<1> USE DEF PluginsInv, CoreInv
<1>1. /\ UNCHANGED <<port, overlap, open, busy, phase, pending, page, sel, data, rows, filter, can,
                     chooser, loaded>>
      /\ \A v \in Worker : /\ worker'[v].dialog = worker[v].dialog
                            /\ worker'[v].verb = worker[v].verb
      /\ file' = file \/ worker[w].pc = "cli"
  BY DEF Runs, Only, Hidden
<1>2. Memory'
  BY <1>1, MemoryRests
<1>3. DialogOk'
  BY <1>1 DEF DialogOk, Blank
<1>4. worker[w].pc = "cli" => Running(w) /\ worker[w].verb # "market"
  BY RunningOne DEF Running
<1>5. LinuxLists'
  <2>1. open # None /\ ~busy /\ ~overlap => file' = file
    BY <1>1, <1>4, NobodyRuns
  <2> QED BY <1>1, <2>1 DEF LinuxLists
<1>6. WindowsLists'
  <2>1. open # None /\ ~overlap /\ (\A v \in Worker : worker[v].dialog = open => worker[v].verb = "market")
        => file' = file
    BY <1>1, <1>4 DEF Known
  <2> QED BY <1>1, <2>1 DEF WindowsLists
<1> QED BY <1>2, <1>3, <1>5, <1>6 DEF Kept, Steps

LEMMA LinuxChecks ==
  ASSUME PluginsInv, NEW w \in Worker, L!PnpmAvailable(w)
  PROVE  Kept
<1> USE DEF PluginsInv, CoreInv
<1>1. /\ worker[w].pc = "check" /\ Hidden /\ UNCHANGED <<port, file, seen, overlap, open, busy>>
  BY DEF Hidden, L!PnpmAvailable, L!uiVars
<1>2. PICK pc \in {"npx", "done"} : worker' = [worker EXCEPT ![w].pc = pc, ![w].ok = FALSE]
  BY DEF L!PnpmAvailable, L!Becomes
<1>3. /\ WorkerOk(worker[w]) /\ worker = [v \in Worker |-> worker[v]]
      /\ seen = [v \in Worker |-> seen[v]] /\ seen[w] = {}
  BY <1>1 DEF Threads
<1>4. Runs(w)
  BY <1>1, <1>2, <1>3 DEF Runs, Only, WorkerOk, Running
<1> QED BY <1>1, <1>4, RunsKept

LEMMA ThreadsRun ==
  ASSUME PluginsInv, ThreadStep
  PROVE  Kept
<1> USE DEF PluginsInv, CoreInv
<1>1. PICK w \in Worker : CliReads(w) \/ CliWrites(w) \/ CliFails(w) \/ MarketArrives(w)
  BY DEF ThreadStep
<1>2. Hidden /\ UNCHANGED <<port, overlap, open, busy>>
  BY <1>1 DEF Hidden, CliReads, CliWrites, CliFails, MarketArrives, uiVars
<1>3. /\ WorkerOk(worker[w]) /\ worker = [v \in Worker |-> worker[v]]
      /\ seen = [v \in Worker |-> seen[v]] /\ (worker[w].pc # "cli" => seen[w] = {})
  BY DEF Threads
<1>4. CASE CliReads(w)
  <2>1. worker[w].pc = "npx" /\ worker' = [worker EXCEPT ![w].pc = "cli", ![w].ok = FALSE]
        /\ seen' = [seen EXCEPT ![w] = {file}] /\ file' = file
    BY <1>4 DEF CliReads, Becomes
  <2>2. Runs(w)
    BY <1>2, <1>3, <2>1 DEF Runs, Only, WorkerOk, Running
  <2> QED BY <1>2, <2>2, RunsKept
<1>5. CASE CliWrites(w) \/ CliFails(w)
  <2>1. PICK ok \in BOOLEAN : worker' = [worker EXCEPT ![w].pc = "done", ![w].ok = ok]
    BY <1>5 DEF CliWrites, CliFails, Becomes
  <2>2. /\ seen' = [seen EXCEPT ![w] = {}] /\ worker[w].pc \in {"npx", "cli"}
        /\ file' = file \/ worker[w].pc = "cli"
    BY <1>5 DEF CliWrites, CliFails
  <2>3. Runs(w)
    BY <1>2, <1>3, <2>1, <2>2 DEF Runs, Only, WorkerOk, Running
  <2> QED BY <1>2, <2>3, RunsKept
<1>6. CASE MarketArrives(w)
  <2>1. PICK ok \in BOOLEAN : worker' = [worker EXCEPT ![w].pc = "done", ![w].ok = ok]
    BY <1>6 DEF MarketArrives, Becomes
  <2>2. seen' = seen /\ worker[w].pc = "fetch" /\ file' = file
    BY <1>6 DEF MarketArrives
  <2>3. Runs(w)
    BY <1>2, <1>3, <2>1, <2>2 DEF Runs, Only, WorkerOk, Running
  <2> QED BY <1>2, <2>3, RunsKept
<1> QED BY <1>1, <1>4, <1>5, <1>6

LEMMA LinuxEnds ==
  ASSUME PluginsInv, port = "linux", NEW w \in Worker, L!OpThread(w) \/ L!MarketThread(w)
  PROVE  Kept
<1> USE DEF PluginsInv, CoreInv
<1> DEFINE d == worker[w].dialog
<1>1. /\ worker[w].pc = "done" /\ L!Release(w)
      /\ UNCHANGED <<port, file, seen, overlap, open, page, filter, chooser, loaded>>
  BY DEF L!OpThread, L!MarketThread, L!Back
<1>2. d \in Dialog /\ worker' = [worker EXCEPT ![w] = Free]
      /\ pending' = [pending EXCEPT ![d] = @ - 1]
      /\ phase' = [phase EXCEPT ![d] = IF @ = "closed" /\ pending[d] = 1 THEN "none" ELSE @]
  BY <1>1, RunningOne DEF L!Release, L!Free, Free
<1>3. Only(w) /\ worker'[w] = Free
  <2>1. worker' = [v \in Worker |-> worker'[v]] /\ worker'[w] = Free
        /\ \A v \in Worker \ {w} : worker'[v] = worker[v]
    BY <1>2 DEF Threads
  <2>2. WorkerOk(Free)
    BY DEF WorkerOk, Free
  <2> QED BY <2>1, <2>2 DEF Only
<1>4. Memory'
  <2>1. PICK e \in Dialog : e = worker[w].dialog
    BY <1>2
  <2>2. /\ pending' = [pending EXCEPT ![e] = @ - 1]
        /\ phase' = [phase EXCEPT ![e] = IF @ = "closed" /\ pending[e] = 1 THEN "none" ELSE @]
    BY <1>2, <2>1
  <2> QED BY <1>1, <1>3, <2>1, <2>2, MemoryEnds
<1>5. L!Closed(w) <=> d # open
  BY <1>2 DEF L!Closed, Memory
<1>6. open = d => open # None
  BY <1>2, PluginAssumption
<1>7. CASE d # open
  <2>1. UNCHANGED <<busy, sel, data, rows, can>>
    BY <1>5, <1>7 DEF L!OpThread, L!MarketThread
  <2>2. Ends(w)
    BY <1>1, <1>3, <1>7, <2>1 DEF Ends, Mine
  <2>3. DialogOk' /\ LinuxLists' /\ WindowsLists'
    BY <1>1, <2>1 DEF DialogOk, Blank, LinuxLists, WindowsLists
  <2> QED BY <1>4, <2>2, <2>3 DEF Kept, Steps
<1>8. CASE d = open /\ L!OpThread(w)
  <2>1. busy' = FALSE /\ L!RefreshLocalData /\ L!UpdateButtons /\ worker[w].verb # "market"
    BY <1>5, <1>8 DEF L!OpThread
  <2>2. Ends(w)
    BY <1>1, <1>3, <1>6, <1>8, <2>1 DEF Ends, Mine
  <2>3. DialogOk' /\ LinuxLists' /\ WindowsLists'
    BY <1>1, <1>6, <1>8, <2>1, LinuxRefreshes DEF DialogOk, LinuxLists, WindowsLists
  <2> QED BY <1>4, <2>2, <2>3 DEF Kept, Steps
<1>9. CASE d = open /\ L!MarketThread(w)
  <2>1. /\ data' = [data EXCEPT !.market = IF worker[w].ok THEN L!LinuxMarket ELSE <<>>]
        /\ UNCHANGED busy /\ L!FillMarket(filter) /\ L!UpdateButtons /\ worker[w].verb = "market"
    BY <1>5, <1>9 DEF L!MarketThread
  <2>2. Ends(w)
    BY <1>1, <1>3, <1>6, <1>9, <2>1 DEF Ends, Mine
  <2>3. data' = [v \in Page |-> data'[v]]
    BY <2>1 DEF DialogOk
  <2>4. DialogOk' /\ LinuxLists' /\ WindowsLists'
    BY <1>1, <1>6, <1>9, <2>1, <2>3, LinuxFills, LinuxButtons DEF DialogOk, LinuxLists, WindowsLists
  <2> QED BY <1>4, <2>2, <2>4 DEF Kept, Steps
<1> QED BY <1>7, <1>8, <1>9

LEMMA LinuxKept == PluginsInv /\ L!LinuxNext => Kept
<1> SUFFICES ASSUME PluginsInv, L!LinuxNext PROVE Kept
  OBVIOUS
<1>1. port = "linux"
  BY DEF L!LinuxNext
<1>2. CASE L!ShowDialog
  BY <1>1, <1>2, LinuxShows
<1>3. CASE L!CloseDialog
  BY <1>1, <1>3, LinuxCloses
<1>4. CASE L!OnInstall \/ L!OnUninstall \/ L!ChooserReturns
  BY <1>1, <1>4, LinuxOps
<1>5. CASE L!OnEnableDisable(TRUE) \/ L!OnEnableDisable(FALSE)
  BY <1>1, <1>5, LinuxEdits
<1>6. CASE L!OnRefresh
  BY <1>1, <1>6, LinuxReloads
<1>7. CASE Browses
  BY <1>1, <1>7, LinuxBrowses
<1>8. CASE \E w \in Worker : L!PnpmAvailable(w)
  BY <1>8, LinuxChecks
<1>9. CASE \E w \in Worker : L!OpThread(w) \/ L!MarketThread(w)
  BY <1>1, <1>9, LinuxEnds
<1> QED BY <1>2, <1>3, <1>4, <1>5, <1>6, <1>7, <1>8, <1>9 DEF L!LinuxNext, Browses, L!Page, Page

-----------------------------------------------------------------------------
(* The handlers of Windows. *)

LEMMA WindowsLoads ==
  ASSUME DialogOk, W!LoadLocal
  PROVE  /\ data' = [v \in Page |-> data'[v]] /\ data'.market = data.market
         /\ data'.installed = W!InstalledPackages(file') /\ data'.enabled = W!EnabledBundles(file')
  BY DEF W!LoadLocal, DialogOk, Page

\* What Fill shows in each list.
Filled(lists, text) ==
    /\ rows' = [v \in Page |-> rows'[v]]
    /\ rows'.installed = IF "installed" \in lists THEN W!DependencyTree(data'.installed, data'.enabled)
                                                 ELSE rows.installed
    /\ rows'.enabled = IF "enabled" \in lists THEN data'.enabled ELSE rows.enabled
    /\ rows'.market = IF "market" \in lists THEN W!Matches(data'.market, text) ELSE rows.market

LEMMA WindowsFills ==
  ASSUME DialogOk, NEW lists, NEW text, W!Fill(lists, text)
  PROVE  Filled(lists, text)
<1>1. rows' = [v \in Page |-> IF v \in lists
                              THEN [installed |-> W!DependencyTree(data'.installed, data'.enabled),
                                    enabled |-> data'.enabled,
                                    market |-> W!Matches(data'.market, text)][v]
                              ELSE rows[v]]
  BY DEF W!Fill, W!Page, Page
<1>2. "installed" \in Page /\ "enabled" \in Page /\ "market" \in Page
  BY DEF Page
<1>3. rows' = [v \in Page |-> rows'[v]]
  BY <1>1
<1>4. rows'["installed"] = IF "installed" \in lists THEN W!DependencyTree(data'.installed, data'.enabled)
                                                   ELSE rows["installed"]
  BY <1>1, <1>2
<1>5. rows'["enabled"] = IF "enabled" \in lists THEN data'.enabled ELSE rows["enabled"]
  BY <1>1, <1>2
<1>6. rows'["market"] = IF "market" \in lists THEN W!Matches(data'.market, text) ELSE rows["market"]
  BY <1>1, <1>2
<1> QED BY <1>3, <1>4, <1>5, <1>6 DEF Filled

LEMMA WindowsMatches ==
  ASSUME NEW market, NEW text
  PROVE  W!Matches(market, text) \subseteq DOMAIN market
  BY DEF W!Matches

LEMMA WindowsBlank == W!Blanked <=> Blank'
  BY DEF W!Blanked, Blank, W!NoSel, W!NoData, W!NoRows, NoSel, NoData, NoRows

LEMMA MemoryAside ==
  ASSUME Memory, port # "linux", UNCHANGED <<port, pending>>, phase' = [d \in Dialog |-> phase'[d]]
  PROVE  Memory'
  BY DEF Memory

\* A dialog that has gone keeps nothing.
LEMMA GoneKept ==
  ASSUME PluginsInv, port # "linux", Edits \/ Closes, open' = None, Blank',
         UNCHANGED <<port, pending>>, phase' = [phase EXCEPT ![open] = "none"], UNCHANGED overlap
  PROVE  Kept
<1> USE DEF PluginsInv
<1>1. Memory'
  BY MemoryAside DEF Memory
<1>2. rows' = [v \in Page |-> rows'[v]] /\ data' = [v \in Page |-> data'[v]]
      /\ busy' = FALSE /\ page' \in Page
  BY DEF Blank, NoRows, NoData, Page
<1>3. DialogOk' /\ LinuxLists' /\ WindowsLists'
  BY <1>2 DEF DialogOk, LinuxLists, WindowsLists
<1> QED BY <1>1, <1>3 DEF Kept, Steps

LEMMA WindowsGoes == PluginsInv /\ port # "linux" /\ W!Destroy => Kept
<1> SUFFICES ASSUME PluginsInv, port # "linux", W!Destroy PROVE Kept
  OBVIOUS
<1>1. /\ open' = None /\ Blank' /\ phase' = [phase EXCEPT ![open] = "none"]
      /\ UNCHANGED <<port, file, worker, seen, overlap, pending>>
  BY WindowsBlank DEF W!Destroy
<1>2. Closes
  BY <1>1 DEF Closes
<1> QED BY <1>1, <1>2, GoneKept

LEMMA WindowsShows == PluginsInv /\ port # "linux" /\ W!Show => Kept
<1> SUFFICES ASSUME PluginsInv, port # "linux", W!Show PROVE Kept
  OBVIOUS
<1> USE DEF PluginsInv, CoreInv
<1>1. /\ open = None /\ UNCHANGED <<port, file, seen, pending, page, filter, can, chooser, loaded>>
      /\ overlap' = (\E w \in Worker : W!Running(w)) /\ busy' = TRUE
      /\ W!LoadLocal /\ W!Fill({"installed"}, filter) /\ W!Start(open', "fetch", "market", "")
  BY DEF W!Show, W!RefreshMarket
<1>2. PICK d \in Dialog : /\ open' = d /\ phase' = [phase EXCEPT ![d] = "open"]
                          /\ \A w \in Worker : worker[w].dialog # d
  BY DEF W!Show
<1>3. PICK w \in Worker : Takes(w, "fetch", "market")
  <2>1. PICK w \in Worker : /\ worker[w] = Free
                            /\ worker' = [worker EXCEPT ![w] = [pc |-> "fetch", dialog |-> open',
                                                  verb |-> "market", spec |-> "", ok |-> FALSE]]
    BY <1>1 DEF W!Start, W!Free, Free
  <2>2. Takes(w, "fetch", "market")
    BY <1>2, <2>1, FreeFields DEF Takes, Only, Threads, WorkerOk
  <2> QED BY <2>2
<1>4. Blank
  BY <1>1 DEF DialogOk
<1>5. overlap' = \E v \in Worker : Running(v)
  BY <1>1 DEF W!Running, Running
<1>6. Shows(w)
  BY <1>1, <1>2, <1>3, <1>5, PluginAssumption DEF Shows, Takes
<1>7. Memory'
  BY <1>1, <1>2, MemoryAside DEF Memory
<1>8. /\ rows' = [v \in Page |-> rows'[v]]
      /\ rows'.installed = W!DependencyTree(data'.installed, data'.enabled) /\ rows'.market = rows.market
  <2>1. Filled({"installed"}, filter)
    BY <1>1, WindowsFills
  <2> QED BY <2>1 DEF Filled
<1>9. DialogOk'
  BY <1>1, <1>2, <1>5, <1>8, WindowsLoads, PluginAssumption DEF DialogOk
<1>10. page' = "installed" /\ rows'.market = {}
  BY <1>1, <1>4, <1>8, BlankLists
<1>11. LinuxLists' /\ WindowsLists'
  BY <1>1, <1>8, <1>10, WindowsLoads DEF LinuxLists, WindowsLists
<1> QED BY <1>6, <1>7, <1>9, <1>11 DEF Kept, Steps

LEMMA WindowsOps ==
  PluginsInv /\ port # "linux"
  /\ (W!UninstallSelected \/ W!InstallMarketSelected \/ W!PickLocalInstall) => Kept
<1> SUFFICES ASSUME PluginsInv, port # "linux",
                    W!UninstallSelected \/ W!InstallMarketSelected \/ W!PickLocalInstall
             PROVE  Kept
  OBVIOUS
<1> USE DEF PluginsInv, CoreInv
<1>1. open # None /\ ~busy
  BY DEF W!UninstallSelected, W!InstallMarketSelected, W!PickLocalInstall, W!Ready, W!Acts
<1>2. PICK verb \in {"add", "remove"} : \E spec : W!StartPluginCmd(verb, spec)
  BY DEF W!UninstallSelected, W!InstallMarketSelected, W!PickLocalInstall
<1>3. /\ busy' = TRUE /\ \E spec : W!Start(open, "npx", verb, spec)
      /\ UNCHANGED <<file, phase, open, page, data, rows, loaded, port, overlap, seen, pending>>
  BY <1>2 DEF W!StartPluginCmd, W!Still
<1>4. PICK w \in Worker : Takes(w, "npx", verb)
  <2>1. PICK w \in Worker :
             /\ worker[w] = Free
             /\ \E spec : worker' = [worker EXCEPT ![w] = [pc |-> "npx", dialog |-> open, verb |-> verb,
                                                            spec |-> spec, ok |-> FALSE]]
    BY <1>3 DEF W!Start, W!Free, Free
  <2>2. open' \in Dialog
    BY <1>1, <1>3 DEF DialogOk
  <2>3. PICK spec : worker' = [worker EXCEPT ![w] = [pc |-> "npx", dialog |-> open, verb |-> verb,
                                                    spec |-> spec, ok |-> FALSE]]
    BY <2>1
  <2>4. Takes(w, "npx", verb)
    BY <1>3, <2>1, <2>2, <2>3, FreeFields DEF Takes, Only, Threads, WorkerOk
  <2> QED BY <2>4
<1>5. Begins(w)
  BY <1>1, <1>3, <1>4 DEF Begins, Takes
<1>6. Memory'
  BY <1>3, MemoryAside DEF Memory
<1>7. DialogOk'
  BY <1>1, <1>3 DEF DialogOk
<1>8. LinuxLists' /\ WindowsLists'
  <2>1. worker'[w].dialog = open' /\ worker'[w].verb # "market"
    BY <1>4 DEF Takes
  <2> QED BY <1>1, <1>3, <2>1 DEF LinuxLists, WindowsLists
<1> QED BY <1>5, <1>6, <1>7, <1>8 DEF Kept, Steps

\* RefreshMarket in an open dialog at rest.
LEMMA WindowsLoadsMarket ==
  ASSUME PluginsInv, port # "linux", open # None, ~busy, W!RefreshMarket,
         UNCHANGED <<port, file, seen, overlap, open>>
  PROVE  (\E w \in Worker : Begins(w) /\ worker'[w].verb = "market") /\ busy' = TRUE
<1> USE DEF PluginsInv, CoreInv
<1>1. PICK w \in Worker : /\ worker[w] = Free
                          /\ worker' = [worker EXCEPT ![w] = [pc |-> "fetch", dialog |-> open,
                                                verb |-> "market", spec |-> "", ok |-> FALSE]]
  BY DEF W!RefreshMarket, W!Start, W!Free, Free
<1>2. open' \in Dialog
  BY DEF DialogOk
<1>3. Takes(w, "fetch", "market")
  BY <1>1, <1>2, FreeFields DEF Takes, Only, Threads, WorkerOk
<1>4. busy' = TRUE
  BY DEF W!RefreshMarket
<1>5. Begins(w)
  BY <1>3, <1>4 DEF Begins, Takes
<1> QED BY <1>3, <1>4, <1>5 DEF Takes

\* What was read stays current if no run of dsh plugin ends.
LEMMA DataCurrent ==
  ASSUME WindowsLists, port # "linux", open # None, UNCHANGED <<file, overlap, open>>,
         data'.installed = data.installed, data'.enabled = data.enabled,
         \A w \in Worker : worker[w].dialog = open /\ worker[w].verb # "market"
                            => worker'[w].dialog = open /\ worker'[w].verb # "market"
  PROVE  ~overlap' /\ (\A w \in Worker : worker'[w].dialog = open' => worker'[w].verb = "market") =>
           /\ data'.installed = W!InstalledPackages(file')
           /\ data'.enabled = W!EnabledBundles(file')
  BY DEF WindowsLists

LEMMA WindowsReloads == PluginsInv /\ port # "linux" /\ W!Refresh => Kept
<1> SUFFICES ASSUME PluginsInv, port # "linux", W!Refresh PROVE Kept
  OBVIOUS
<1> USE DEF PluginsInv
<1>1. /\ open # None /\ ~busy /\ W!LoadLocal /\ W!RefreshMarket
      /\ W!Fill({"installed", "enabled"}, filter)
      /\ UNCHANGED <<file, phase, open, page, filter, loaded, port, overlap, seen, pending>>
  BY DEF W!Refresh, W!Ready, W!Acts, W!Still
<1>2. Filled({"installed", "enabled"}, filter)
  BY <1>1, WindowsFills
<1>3. busy' = TRUE /\ \E w \in Worker : Begins(w)
  BY <1>1, WindowsLoadsMarket
<1>4. Memory'
  BY <1>1, MemoryAside DEF Memory
<1>5. DialogOk' /\ LinuxLists' /\ WindowsLists'
  BY <1>1, <1>2, <1>3, WindowsLoads DEF Filled, DialogOk, LinuxLists, WindowsLists
<1> QED BY <1>3, <1>4, <1>5 DEF Kept, Steps

LEMMA WindowsSwitches ==
  ASSUME PluginsInv, port # "linux", NEW p \in Page, W!SwitchTab(p)
  PROVE  Kept
<1> USE DEF PluginsInv
<1>1. /\ open # None /\ page' = p
      /\ W!Fill(IF p = "market" /\ ~loaded THEN {} ELSE {p}, filter)
      /\ UNCHANGED <<file, phase, open, data, filter, loaded, port, overlap, seen, pending>>
      /\ IF p = "market" /\ ~loaded /\ ~busy THEN W!RefreshMarket ELSE UNCHANGED <<busy, worker>>
  BY DEF W!SwitchTab, W!Acts, W!Still
<1>2. Filled(IF p = "market" /\ ~loaded THEN {} ELSE {p}, filter)
  BY <1>1, WindowsFills
<1>3. /\ rows' = [v \in Page |-> rows'[v]]
      /\ p = "installed" => rows'.installed = W!DependencyTree(data'.installed, data'.enabled)
      /\ p = "enabled" => rows'.enabled = data'.enabled
      /\ p = "market" /\ loaded => rows'.market \subseteq DOMAIN data'.market
      /\ ~loaded => rows'.market = rows.market
  BY <1>2, WindowsMatches DEF Filled
<1>4. Memory'
  BY <1>1, MemoryAside DEF Memory
<1>5. CASE UNCHANGED <<busy, worker>>
  <2>1. Rests
    BY <1>1, <1>5 DEF Rests
  <2>2. DialogOk'
    BY <1>1, <1>3, <1>5 DEF DialogOk
  <2>3. LinuxLists' /\ WindowsLists'
    BY <1>1, <1>3, <1>5 DEF LinuxLists, WindowsLists
  <2> QED BY <1>4, <2>1, <2>2, <2>3 DEF Kept, Steps
<1>6. CASE ~busy /\ W!RefreshMarket
  <2>1. PICK w \in Worker : Begins(w) /\ worker'[w].verb = "market"
    BY <1>1, <1>6, WindowsLoadsMarket
  <2>2. busy' = TRUE
    BY <1>1, <1>6, WindowsLoadsMarket
  <2>3. DialogOk'
    BY <1>1, <1>3, <2>2 DEF DialogOk
  <2>4. \A v \in Worker : worker[v].dialog = open => worker'[v] = worker[v]
    BY <2>1, RunningOne DEF Begins, Only, CoreInv
  <2>5. LinuxLists' /\ WindowsLists'
    BY <1>1, <1>3, <2>4, DataCurrent DEF LinuxLists, WindowsLists
  <2> QED BY <1>4, <2>1, <2>3, <2>5 DEF Kept, Steps
<1> QED BY <1>1, <1>5, <1>6

LEMMA WindowsBrowses ==
  ASSUME PluginsInv, port # "linux", W!Select \/ \E text \in Searches : W!SearchChanges(text)
  PROVE  Kept
<1> USE DEF PluginsInv
<1>1. /\ open # None
      /\ UNCHANGED <<file, worker, phase, open, busy, page, data, loaded, port, overlap, seen, pending>>
  BY DEF W!Select, W!SearchChanges, W!Acts, W!Still
<1>2. /\ rows' = [v \in Page |-> rows'[v]]
      /\ rows'.installed = rows.installed /\ rows'.enabled = rows.enabled
      /\ rows'.market = rows.market \/ (loaded /\ rows'.market \subseteq DOMAIN data'.market)
  <2>1. CASE W!Select
    <3>1. rows' = rows
      BY <2>1 DEF W!Select
    <3> QED BY <3>1 DEF DialogOk
  <2>2. CASE \E text \in Searches : W!SearchChanges(text)
    <3>1. PICK text \in Searches : W!Fill(IF loaded THEN {"market"} ELSE {}, text)
      BY <2>2 DEF W!SearchChanges
    <3>2. Filled(IF loaded THEN {"market"} ELSE {}, text)
      BY <3>1, WindowsFills
    <3>3. W!Matches(data'.market, text) \subseteq DOMAIN data'.market
      BY DEF W!Matches
    <3>4. CASE loaded
      BY <3>2, <3>3, <3>4 DEF Filled
    <3>5. CASE ~loaded
      BY <3>2, <3>5 DEF Filled
    <3> QED BY <3>4, <3>5
  <2> QED BY <2>1, <2>2
<1>3. Rests /\ Memory'
  BY <1>1, MemoryRests DEF Rests
<1>4. DialogOk' /\ LinuxLists' /\ WindowsLists'
  BY <1>1, <1>2 DEF DialogOk, LinuxLists, WindowsLists
<1> QED BY <1>3, <1>4 DEF Kept, Steps

LEMMA WindowsEdits ==
  ASSUME PluginsInv, port # "linux",
         W!DisableSelectedEnabled \/ \E on \in BOOLEAN : W!ToggleSelectedEnabled(on)
  PROVE  Kept
<1> USE DEF PluginsInv
<1>1. open # None /\ ~busy
  BY DEF W!DisableSelectedEnabled, W!ToggleSelectedEnabled, W!Ready, W!Acts
<1> DEFINE same == UNCHANGED <<port, file, worker, seen, overlap, phase, pending, open, busy,
                               page, data, rows, loaded>>
<1>2. \/ (page = "installed" /\ W!AfterChange({"installed"}))
      \/ (page = "enabled" /\ W!AfterChange({"enabled", "installed"}))
      \/ W!Crash \/ same
  BY DEF W!DisableSelectedEnabled, W!ToggleSelectedEnabled, W!Still
<1>a. CASE same
  <2>1. Memory'
    BY <1>a, MemoryRests
  <2>2. DialogOk' /\ LinuxLists' /\ WindowsLists'
    BY <1>1, <1>a DEF DialogOk, LinuxLists, WindowsLists
  <2> QED BY <1>a, <2>1, <2>2 DEF Kept, Steps, Rests
<1> SUFFICES ASSUME ~same PROVE Kept
  BY <1>a
<1> HIDE DEF same
<1>3. \/ /\ W!LoadLocal
         /\ \/ page = "installed" /\ W!Fill({"installed"}, filter)
            \/ page = "enabled" /\ W!Fill({"enabled", "installed"}, filter)
         /\ UNCHANGED <<worker, phase, open, busy, page, loaded, port, overlap, seen, pending>>
      \/ /\ phase' = [phase EXCEPT ![open] = "none"] /\ open' = None /\ W!Blanked
         /\ UNCHANGED <<port, worker, seen, overlap, pending>>
  BY <1>2 DEF W!AfterChange, W!Still, W!Crash
<1>4. Edits
  BY <1>1, <1>3 DEF Edits
<1>5. CASE open' = None
  <2>1. phase' = [phase EXCEPT ![open] = "none"] /\ W!Blanked /\ UNCHANGED <<port, overlap, pending>>
    BY <1>1, <1>3, <1>5
  <2> QED BY <1>4, <1>5, <2>1, WindowsBlank, GoneKept
<1>6. CASE open' # None
  <2>1. /\ W!LoadLocal
        /\ \/ page = "installed" /\ W!Fill({"installed"}, filter)
           \/ page = "enabled" /\ W!Fill({"enabled", "installed"}, filter)
        /\ UNCHANGED <<worker, phase, open, busy, page, loaded, port, overlap, seen, pending>>
    BY <1>3, <1>6
  <2>2. \/ page = "installed" /\ Filled({"installed"}, filter)
        \/ page = "enabled" /\ Filled({"enabled", "installed"}, filter)
    BY <2>1, WindowsFills
  <2>3. /\ rows' = [v \in Page |-> rows'[v]] /\ rows'.market = rows.market
        /\ rows'.installed = W!DependencyTree(data'.installed, data'.enabled)
        /\ page = "enabled" => rows'.enabled = data'.enabled
    BY <2>2 DEF Filled
  <2>4. Memory'
    BY <2>1, MemoryRests
  <2>5. DialogOk' /\ LinuxLists' /\ WindowsLists'
    BY <1>1, <2>1, <2>3, WindowsLoads DEF DialogOk, LinuxLists, WindowsLists
  <2> QED BY <1>4, <2>4, <2>5 DEF Kept, Steps
<1> QED BY <1>5, <1>6

LEMMA WindowsEnds ==
  ASSUME PluginsInv, port # "linux", NEW w \in Worker, W!Lost(w) \/ W!MarketDone(w) \/ W!PluginDone(w)
  PROVE  Kept
<1> USE DEF PluginsInv, CoreInv
<1>1. /\ worker[w].pc = "done" /\ worker' = [worker EXCEPT ![w] = Free]
      /\ UNCHANGED <<port, file, seen, overlap, phase, pending, open, page>>
  BY DEF W!Lost, W!MarketDone, W!PluginDone, W!Arrived, W!Posted, W!Still, W!Free, Free, W!uiVars
<1>2. /\ worker' = [v \in Worker |-> worker'[v]] /\ worker'[w] = Free
      /\ \A v \in Worker \ {w} : worker'[v] = worker[v]
  BY <1>1 DEF Threads
<1>3. Only(w)
  <2>1. WorkerOk(Free)
    BY DEF WorkerOk, Free
  <2> QED BY <1>2, <2>1 DEF Only
<1>4. Memory'
  BY <1>1, MemoryAside DEF Memory
<1>5. worker[w].dialog \in Dialog
  BY <1>1, RunningOne
<1>6. CASE W!Lost(w)
  <2>1. worker[w].dialog # open
        /\ UNCHANGED <<busy, page, sel, data, rows, filter, can, chooser, loaded>>
    BY <1>6 DEF W!Lost, W!uiVars
  <2>2. Ends(w)
    BY <1>1, <1>2, <1>3, <2>1 DEF Ends, Mine
  <2>3. DialogOk' /\ LinuxLists'
    BY <1>1, <2>1 DEF DialogOk, Blank, LinuxLists
  <2>4. WindowsLists'
    BY <1>1, <1>2, <2>1, DataCurrent DEF WindowsLists
  <2> QED BY <1>4, <2>2, <2>3, <2>4 DEF Kept, Steps
<1>7. CASE W!MarketDone(w) \/ W!PluginDone(w)
  <2>1. worker[w].dialog = open /\ open # None /\ busy' = FALSE
    BY <1>5, <1>7, PluginAssumption DEF W!MarketDone, W!PluginDone, W!Arrived
  <2>2. Ends(w)
    BY <1>1, <1>2, <1>3, <2>1 DEF Ends, Mine
  <2>3. CASE W!MarketDone(w)
    <3>1. /\ worker[w].verb = "market" /\ loaded' = TRUE
          /\ data' = [data EXCEPT !.market = IF worker[w].ok THEN W!WindowsMarket ELSE <<>>]
          /\ W!Fill({page} \cap {"market"}, filter)
      BY <2>3 DEF W!MarketDone, W!Arrived
    <3>2. data' = [v \in Page |-> data'[v]] /\ data'.installed = data.installed
          /\ data'.enabled = data.enabled
      BY <3>1 DEF DialogOk
    <3>3. Filled({page} \cap {"market"}, filter)
      BY <3>1, WindowsFills
    <3>4. /\ rows' = [v \in Page |-> rows'[v]]
          /\ rows'.installed = rows.installed /\ rows'.enabled = rows.enabled
          /\ page = "market" => rows'.market \subseteq DOMAIN data'.market
      <4>1. /\ "installed" \notin {page} \cap {"market"} /\ "enabled" \notin {page} \cap {"market"}
            /\ page = "market" => "market" \in {page} \cap {"market"}
        OBVIOUS
      <4> QED BY <3>3, <4>1, WindowsMatches DEF Filled
    <3>5. DialogOk' /\ LinuxLists'
      BY <1>1, <2>1, <3>2, <3>4 DEF DialogOk, LinuxLists
    <3>6. WindowsLists'
      BY <1>1, <1>2, <2>1, <3>1, <3>2, <3>4, DataCurrent DEF WindowsLists
    <3> QED BY <1>4, <2>2, <3>5, <3>6 DEF Kept, Steps
  <2>4. CASE W!PluginDone(w)
    <3>1. /\ loaded' = loaded /\ W!LoadLocal
          /\ W!Fill({"installed", "enabled"} \cup IF loaded THEN {page} \cap {"market"} ELSE {}, filter)
      BY <2>4 DEF W!PluginDone
    <3>2. Filled({"installed", "enabled"} \cup IF loaded THEN {page} \cap {"market"} ELSE {}, filter)
      BY <3>1, WindowsFills
    <3>3. /\ rows' = [v \in Page |-> rows'[v]]
          /\ rows'.installed = W!DependencyTree(data'.installed, data'.enabled)
          /\ rows'.enabled = data'.enabled
          /\ rows'.market = rows.market \/ (loaded /\ rows'.market \subseteq DOMAIN data'.market)
      <4>1. W!Matches(data'.market, filter) \subseteq DOMAIN data'.market
        BY DEF W!Matches
      <4>2. CASE loaded /\ page = "market"
        BY <3>2, <4>1, <4>2 DEF Filled
      <4>3. CASE ~(loaded /\ page = "market")
        BY <3>2, <4>3 DEF Filled
      <4> QED BY <4>2, <4>3
    <3>4. DialogOk' /\ LinuxLists'
      BY <1>1, <2>1, <3>1, <3>3, WindowsLoads DEF DialogOk, LinuxLists
    <3>5. WindowsLists'
      BY <1>1, <2>1, <3>1, <3>3, WindowsLoads DEF WindowsLists
    <3> QED BY <1>4, <2>2, <3>4, <3>5 DEF Kept, Steps
  <2> QED BY <1>7, <2>3, <2>4
<1> QED BY <1>6, <1>7

LEMMA WindowsKept == PluginsInv /\ W!WindowsNext => Kept
<1> SUFFICES ASSUME PluginsInv, W!WindowsNext PROVE Kept
  OBVIOUS
<1>1. port # "linux"
  BY DEF W!WindowsNext
<1>2. CASE W!Show
  BY <1>1, <1>2, WindowsShows
<1>3. CASE W!Destroy
  BY <1>1, <1>3, WindowsGoes
<1>4. CASE W!UninstallSelected \/ W!InstallMarketSelected \/ W!PickLocalInstall
  BY <1>1, <1>4, WindowsOps
<1>5. CASE W!Refresh
  BY <1>1, <1>5, WindowsReloads
<1>6. CASE W!Select \/ \E text \in Searches : W!SearchChanges(text)
  BY <1>1, <1>6, WindowsBrowses
<1>7. CASE \E p \in Page : W!SwitchTab(p)
  BY <1>1, <1>7, WindowsSwitches
<1>8. CASE W!DisableSelectedEnabled \/ W!ToggleSelectedEnabled(TRUE) \/ W!ToggleSelectedEnabled(FALSE)
  BY <1>1, <1>8, WindowsEdits
<1>9. CASE \E w \in Worker : W!Lost(w) \/ W!MarketDone(w) \/ W!PluginDone(w)
  BY <1>1, <1>9, WindowsEnds
<1> QED BY <1>2, <1>3, <1>4, <1>5, <1>6, <1>7, <1>8, <1>9 DEF W!WindowsNext, W!Page, Page

-----------------------------------------------------------------------------
LEMMA InitPlugins == PluginsInit => PluginsInv
<1> SUFFICES ASSUME PluginsInit PROVE PluginsInv
  OBVIOUS
<1>1. /\ worker = [w \in Worker |-> Free] /\ seen = [w \in Worker |-> {}] /\ overlap = FALSE
      /\ phase = [d \in Dialog |-> "none"] /\ pending = [d \in Dialog |-> 0] /\ open = None /\ Blank
  BY DEF PluginsInit, Init
<1>2. \A w \in Worker : worker[w] = Free /\ ~Running(w) /\ worker[w].dialog = None
  BY <1>1, FreeFields DEF Running
<1>3. Threads
  <2>1. WorkerOk(Free)
    BY DEF WorkerOk, Free
  <2> QED BY <1>1, <1>2, <2>1 DEF Threads
<1>4. Alone /\ Known /\ NoLostUpdate
  BY <1>1, <1>2 DEF Alone, Mine, Known, NoLostUpdate, Running
<1>5. DialogOk
  BY <1>1, BlankLists DEF DialogOk
<1>6. Memory
  <2>1. \A d \in Dialog : d # None /\ Users(d) = {}
    BY <1>2, PluginAssumption DEF Users
  <2> QED BY <1>1, <2>1, FS_EmptySet DEF Memory
<1>7. LinuxLists /\ WindowsLists
  BY <1>1 DEF LinuxLists, WindowsLists
<1> QED BY <1>3, <1>4, <1>5, <1>6, <1>7 DEF PluginsInv, CoreInv

LEMMA NextPlugins == PluginsInv /\ [PluginsNext]_<<vars, profile>> => PluginsInv'
<1> SUFFICES ASSUME PluginsInv, [PluginsNext]_<<vars, profile>> PROVE PluginsInv'
  OBVIOUS
<1>1. CASE PluginsNext
  <2>1. Kept
    BY <1>1, LinuxKept, WindowsKept, ThreadsRun DEF PluginsNext, Linux, Windows, Thread
  <2> QED BY <2>1, CoreKept DEF Kept, PluginsInv, DialogOk
<1>2. CASE UNCHANGED <<vars, profile>>
  <2>1. UNCHANGED <<port, file, worker, seen, overlap, phase, pending, open, busy, page, sel, data,
                    rows, filter, can, chooser, loaded>>
    BY <1>2 DEF vars, uiVars
  <2>2. CoreInv' /\ Memory'
    BY <2>1, MemoryRests, CoreKept DEF PluginsInv, DialogOk, Steps, Rests
  <2>3. DialogOk' /\ LinuxLists' /\ WindowsLists'
    BY <2>1 DEF PluginsInv, DialogOk, Blank, LinuxLists, WindowsLists
  <2> QED BY <2>2, <2>3 DEF PluginsInv
<1> QED BY <1>1, <1>2

LEMMA AlwaysPlugins == Spec => []PluginsInv
<1>1. PluginsInit => PluginsInv
  BY InitPlugins
<1>2. PluginsInv /\ [PluginsNext]_<<vars, profile>> => PluginsInv'
  BY NextPlugins
<1> QED BY <1>1, <1>2, PTL DEF Spec

\* A run of dsh plugin writes over what it has read (plugins_manager.cpp of both
\* shells: one operation at a time), unless a dialog, of either shell, was shown
\* while the operation of a closed one still ran: nothing stops it then from
\* writing over what the new dialog has changed.
THEOREM NothingLost == Spec => []NoLostUpdate
<1>1. PluginsInv => NoLostUpdate
  BY DEF PluginsInv, CoreInv
<1> QED BY <1>1, AlwaysPlugins, PTL

\* What a dialog at rest shows on its page is what its shell's own reader finds in
\* the file as it is now, whatever the file holds and however much of it that
\* reader misses.
THEOREM ListsShowFile == Spec => []ListsCurrent
<1>1. PluginsInv => ListsCurrent
  <2> SUFFICES ASSUME PluginsInv, open # None, ~busy, ~overlap
               PROVE  /\ page = "installed" => rows.installed = Tree(Installed(file), Enabled(file))
                      /\ page = "enabled" => rows.enabled = Enabled(file)
                      /\ page = "market" => rows.market \subseteq DOMAIN data.market
    BY DEF ListsCurrent, PluginsInv, DialogOk, Page
  <2>1. CASE port = "linux"
    BY <2>1 DEF PluginsInv, LinuxLists, Tree, Installed, Enabled
  <2>2. CASE port # "linux"
    <3>1. \A w \in Worker : worker[w].dialog # open
      BY <2>2 DEF PluginsInv, CoreInv, Alone, Mine
    <3> QED BY <2>2, <3>1 DEF PluginsInv, WindowsLists, Tree, Installed, Enabled
  <2> QED BY <2>1, <2>2
<1> QED BY <1>1, AlwaysPlugins, PTL

\* The reference count of a Linux dialog (pendingWorkers) frees it neither under
\* a thread nor never.
THEOREM MemoryFreed == Spec => []FreedInTime
<1>1. PluginsInv => FreedInTime
  <2>1. \A d \in Dialog : Cardinality(Users(d)) = 0 <=> Users(d) = {}
    BY UsersFinite
  <2>2. SUFFICES ASSUME Memory, port = "linux", NEW d \in Dialog
                 PROVE  (phase[d] = "none" => Users(d) = {}) /\ (phase[d] = "closed" => Users(d) # {})
    BY DEF PluginsInv, FreedInTime, Users
  <2> QED BY <2>1, <2>2 DEF Memory
<1> QED BY <1>1, AlwaysPlugins, PTL

-----------------------------------------------------------------------------
(* The web profile: Plugins implements PluginProfile, if texts read as meant. *)

\* profile is what a reader finds.
ReaderInv ==
    profile = [now |-> Profile(file),
               seen |-> [w \in Worker |-> {Profile(doc) : doc \in seen[w]}]]

\* Who changes the file, and who reads it for later.
Edited == /\ UNCHANGED seen /\ ~busy
          /\ \E name \in Selected, on \in BOOLEAN : file' \in Written(name, on)

LEMMA LinuxFile ==
  ASSUME PluginsInv, L!LinuxNext
  PROVE  UNCHANGED <<file, seen>> \/ Edited
<1>0. port = "linux"
  BY DEF L!LinuxNext
<1>1. CASE \/ L!ShowDialog \/ L!CloseDialog \/ L!OpenChooser \/ L!ChooserReturns
           \/ \E text \in Searches : L!OnSearchChanged(text)
           \/ \E w \in Worker : L!PnpmAvailable(w) \/ L!OpThread(w) \/ L!MarketThread(w)
  BY <1>1 DEF L!ShowDialog, L!CloseDialog, L!OpenChooser, L!ChooserReturns, L!OnSearchChanged,
              L!PnpmAvailable, L!OpThread, L!MarketThread, L!Back
<1>2. CASE \/ L!OnInstall \/ L!OnUninstall \/ L!OnRefresh \/ L!OnSelectionChanged
           \/ \E p \in L!Page : L!OnPageChanged(p)
  BY <1>2 DEF L!OnInstall, L!OnUninstall, L!OnRefresh, L!OnSelectionChanged, L!OnPageChanged, L!Still
<1>3. ASSUME NEW on \in BOOLEAN, L!OnEnableDisable(on) PROVE Edited
  <2>1. UNCHANGED seen
    BY <1>3 DEF L!OnEnableDisable, L!Still
  <2>2. ~busy
    BY <1>0, <1>3 DEF L!OnEnableDisable, L!Click, PluginsInv, DialogOk
  <2>3. PICK name : /\ name = IF page = "installed" THEN sel.installed.name ELSE sel.enabled
                    /\ file' \in L!SetEnabled(file, name, on)
    BY <1>3 DEF L!OnEnableDisable
  <2>4. \/ page = "installed" /\ sel.installed # None
        \/ page = "enabled" /\ sel.enabled # None
    BY <1>3 DEF L!OnEnableDisable
  <2>5. name \in Selected
    BY <2>3, <2>4 DEF Selected
  <2> QED BY <1>0, <2>1, <2>2, <2>3, <2>5 DEF Edited, Written
<1> QED BY <1>1, <1>2, <1>3 DEF L!LinuxNext

LEMMA WindowsFile ==
  ASSUME W!WindowsNext
  PROVE  UNCHANGED <<file, seen>> \/ Edited
<1>0. port # "linux"
  BY DEF W!WindowsNext
<1>1. CASE \/ W!Show \/ W!Destroy \/ W!Refresh \/ W!Select
           \/ \E p \in W!Page : W!SwitchTab(p)
           \/ \E text \in Searches : W!SearchChanges(text)
           \/ \E w \in Worker : W!Lost(w) \/ W!MarketDone(w) \/ W!PluginDone(w)
  BY <1>1 DEF W!Show, W!Destroy, W!Refresh, W!Select, W!SwitchTab, W!SearchChanges, W!Lost,
              W!MarketDone, W!PluginDone, W!Arrived, W!Still
<1>2. CASE W!UninstallSelected \/ W!InstallMarketSelected \/ W!PickLocalInstall
  BY <1>2 DEF W!UninstallSelected, W!InstallMarketSelected, W!PickLocalInstall, W!StartPluginCmd,
              W!Still
<1>3. ASSUME NEW name \in Selected, NEW on \in BOOLEAN, W!Ready, NEW lists, W!AfterChange(lists),
             W!SetEnabled(file, name, on) # <<>>, file' = W!SetEnabled(file, name, on)
      PROVE  Edited
  BY <1>0, <1>3 DEF Edited, Written, W!Ready, W!AfterChange, W!Still, W!Crash
<1>4. ASSUME NEW on \in BOOLEAN, W!ToggleSelectedEnabled(on) PROVE Edited
  <2>1. sel.installed.name \in Selected
    BY <1>4 DEF W!ToggleSelectedEnabled, Selected
  <2> QED BY <1>3, <1>4, <2>1 DEF W!ToggleSelectedEnabled
<1>5. ASSUME W!DisableSelectedEnabled PROVE UNCHANGED <<file, seen>> \/ Edited
  <2>1. sel.enabled \in Selected
    BY <1>5 DEF W!DisableSelectedEnabled, Selected
  <2>2. CASE UNCHANGED file
    BY <1>0, <1>5, <2>2 DEF W!DisableSelectedEnabled, W!Ready, W!Still, W!Crash, W!AfterChange
  <2>3. CASE file' # file
    BY <1>3, <1>5, <2>1, <2>3 DEF W!DisableSelectedEnabled
  <2> QED BY <2>2, <2>3
<1> QED BY <1>1, <1>2, <1>4, <1>5 DEF W!WindowsNext

LEMMA ReaderKept ==
  ASSUME ReaderInv, Reader
  PROVE  ReaderInv'
  BY DEF ReaderInv, Reader

\* A step maps to a step of PluginProfile or changes nothing there.
LEMMA ProfileStep ==
  ASSUME PluginsInv, ReaderInv, TextsKept, PluginsNext
  PROVE  Promise!Next \/ UNCHANGED <<profile.now, profile.seen>>
<1>1. /\ profile.now = Profile(file) /\ profile'.now = Profile(file')
      /\ profile.seen = [w \in Worker |-> {Profile(doc) : doc \in seen[w]}]
      /\ profile'.seen = [w \in Worker |-> {Profile(doc) : doc \in seen'[w]}]
  <2>1. ReaderInv'
    BY ReaderKept DEF PluginsNext, Linux, Windows, Thread
  <2> QED BY <2>1 DEF ReaderInv
<1>2. \A w \in Worker : worker[w].pc # "cli" => seen[w] = {}
  BY DEF PluginsInv, CoreInv, Threads
<1>3. seen = [w \in Worker |-> seen[w]]
  BY DEF PluginsInv, CoreInv, Threads
<1>4. CASE UNCHANGED <<file, seen>>
  BY <1>1, <1>4
<1>5. CASE Edited
  <2>1. PICK name \in Selected, on \in BOOLEAN : file' \in Written(name, on)
    BY <1>5 DEF Edited
  <2>2. profile'.now \in {profile.now, Promise!Switched(profile.now, name, on)}
    BY <1>1, <1>5, <2>1 DEF Edited, TextsKept
  <2>3. UNCHANGED profile.seen
    BY <1>1, <1>5 DEF Edited
  <2>4. CASE profile'.now # profile.now
    <3>1. PICK p, q : p = profile.now /\ q = profile'.now
      OBVIOUS
    <3>2. q = Promise!Switched(p, name, on) /\ q # p
      BY <2>2, <2>4, <3>1
    <3>3. PICK A, B, C : p = [installed |-> A, enabled |-> B, other |-> C]
      BY <1>1, <3>1 DEF Profile, Exact, Sections
    <3>4. q = [installed |-> A, enabled |-> IF on THEN B \cup {name} ELSE B \ {name}, other |-> C]
      BY <3>2, <3>3 DEF Promise!Switched
    <3>5. name \in p.enabled \cup q.enabled
      BY <3>2, <3>3, <3>4
    <3>6. Promise!Switches(p, q)
      BY <3>2, <3>5 DEF Promise!Switches
    <3> QED BY <2>3, <3>1, <3>6 DEF Promise!Next
  <2> QED BY <2>3, <2>4
<1>6. ASSUME NEW w \in Worker, CliReads(w) PROVE Promise!Next
  <2>1. seen[w] = {} /\ file' = file /\ seen' = [seen EXCEPT ![w] = {file}]
    BY <1>2, <1>6 DEF CliReads
  <2>2. profile.seen[w] = {}
    BY <1>1, <2>1
  <2>3. profile'.seen = [profile.seen EXCEPT ![w] = {profile.now}]
    <3>1. {Profile(doc) : doc \in {file}} = {profile.now}
      BY <1>1
    <3>2. \A v \in Worker : seen'[v] = IF v = w THEN {file} ELSE seen[v]
      BY <1>3, <2>1
    <3>3. ASSUME NEW v \in Worker
          PROVE  profile'.seen[v] = IF v = w THEN {profile.now} ELSE profile.seen[v]
      BY <1>1, <3>1, <3>2
    <3> QED BY <1>1, <3>3
  <2> QED BY <1>1, <2>1, <2>2, <2>3 DEF Promise!Next, Promise!Reads
<1>7. ASSUME NEW w \in Worker, seen[w] # {}, seen' = [seen EXCEPT ![w] = {}] PROVE Promise!Ends(w)
  <2>1. profile.seen[w] # {}
    BY <1>1, <1>7
  <2>2. profile'.seen = [profile.seen EXCEPT ![w] = {}]
    <3>1. \A v \in Worker : seen'[v] = IF v = w THEN {} ELSE seen[v]
      BY <1>3, <1>7
    <3>2. ASSUME NEW v \in Worker
          PROVE  profile'.seen[v] = IF v = w THEN {} ELSE profile.seen[v]
      BY <1>1, <3>1
    <3> QED BY <1>1, <3>2
  <2> QED BY <2>1, <2>2 DEF Promise!Ends
<1>8. ASSUME NEW w \in Worker, CliWrites(w) PROVE Promise!Next
  <2>1. PICK doc \in seen[w] : \E v \in Parse(doc) :
          /\ Possible(v, worker[w].verb, worker[w].spec)
          /\ \E more \in Reconciled(v, worker[w].verb, worker[w].spec) : file' = Text(more)
    BY <1>8 DEF CliWrites
  <2>2. Promise!Runs(Profile(doc), Profile(file'))
    BY <2>1 DEF TextsKept
  <2>3. Profile(doc) \in profile.seen[w]
    BY <1>1, <2>1
  <2>4. Promise!Ends(w)
    BY <1>7, <1>8, <2>1 DEF CliWrites
  <2> QED BY <1>1, <2>2, <2>3, <2>4 DEF Promise!Next
<1>9. ASSUME NEW w \in Worker, CliFails(w) PROVE Promise!Next \/ UNCHANGED <<file, seen>>
  <2>1. file' = file /\ seen' = [seen EXCEPT ![w] = {}]
    BY <1>9 DEF CliFails
  <2>2. CASE seen[w] = {}
    BY <1>3, <2>1, <2>2
  <2>3. CASE seen[w] # {}
    BY <1>1, <1>7, <2>1, <2>3 DEF Promise!Next
  <2> QED BY <2>2, <2>3
<1>10. ASSUME NEW w \in Worker, MarketArrives(w) PROVE UNCHANGED <<file, seen>>
  BY <1>10 DEF MarketArrives
<1> QED BY <1>4, <1>5, <1>6, <1>8, <1>9, <1>10, LinuxFile, WindowsFile
     DEF PluginsNext, Linux, Windows, Thread, ThreadStep

\* The dialogs keep their promise in every order of commands, threads and runs of
\* dsh plugin, provided that a text that is written reads as it was meant
\* (TextsKept, which the JSON code answers for), where PluginProfile, too, counts no
\* more digits of a number that is not whole than the Linux shell writes.
THEOREM PromiseKept == Spec /\ []TextsKept => ProfileKept
<1>1. PluginsInit => PluginsInv /\ ReaderInv /\ Promise!Init
  <2> SUFFICES ASSUME PluginsInit PROVE PluginsInv /\ ReaderInv /\ Promise!Init
    OBVIOUS
  <2>1. profile = [now |-> Profile(file), seen |-> [w \in Worker |-> {}]]
    BY DEF PluginsInit, ReaderInit
  <2>2. \A w \in Worker : seen[w] = {}
    BY DEF PluginsInit, Init
  <2>3. ReaderInv
    BY <2>1, <2>2 DEF ReaderInv
  <2> QED BY <2>1, <2>3, InitPlugins DEF Promise!Init
<1>2. PluginsInv /\ ReaderInv /\ [PluginsNext]_<<vars, profile>> => PluginsInv' /\ ReaderInv'
  <2> SUFFICES ASSUME PluginsInv, ReaderInv, [PluginsNext]_<<vars, profile>>
               PROVE  PluginsInv' /\ ReaderInv'
    OBVIOUS
  <2>1. PluginsInv'
    BY NextPlugins
  <2>2. ReaderInv'
    <3>1. CASE PluginsNext
      BY <3>1, ReaderKept DEF PluginsNext, Linux, Windows, Thread
    <3>2. CASE UNCHANGED <<vars, profile>>
      BY <3>2 DEF vars, ReaderInv
    <3> QED BY <3>1, <3>2
  <2> QED BY <2>1, <2>2
<1>3. PluginsInv /\ ReaderInv /\ TextsKept /\ [PluginsNext]_<<vars, profile>>
      => [Promise!Next]_<<profile.now, profile.seen>>
  <2> SUFFICES ASSUME PluginsInv, ReaderInv, TextsKept, [PluginsNext]_<<vars, profile>>
               PROVE  Promise!Next \/ UNCHANGED <<profile.now, profile.seen>>
    OBVIOUS
  <2>1. CASE PluginsNext
    BY <2>1, ProfileStep
  <2>2. CASE UNCHANGED <<vars, profile>>
    BY <2>2
  <2> QED BY <2>1, <2>2
<1> QED BY <1>1, <1>2, <1>3, PTL DEF Spec, ProfileKept, Promise!Spec

-----------------------------------------------------------------------------
(* Recursion: a set of numbers has a least one, and a scan that gets nearer   *)
(* to its end at each step is a function.                                    *)

\* A set of numbers that is not empty has a least one.
LEMMA Least ==
  ASSUME NEW T \in SUBSET Nat, T # {}
  PROVE  \E n \in T : \A m \in T : n <= m
<1> DEFINE R == {p \in Nat \X Nat : p[1] < p[2]}
<1>1. IsWellFoundedOn(R, Nat)
  BY NatLessThanWellFounded DEF OpToRel, IsWellFoundedOn
<1>2. \E x \in T : \A y \in T : ~(<<y, x>> \in R)
  BY <1>1, WFMin
<1>3. ASSUME NEW x \in Nat, NEW y \in Nat, y < x PROVE <<y, x>> \in R
  BY <1>3
<1>4. PICK x \in T : \A y \in T : ~(<<y, x>> \in R)
  BY <1>2
<1>5. ASSUME NEW y \in T PROVE x <= y
  <2>1. ~(<<y, x>> \in R)
    BY <1>4
  <2>2. x \in Nat /\ y \in Nat
    OBVIOUS
  <2>3. ~(y < x)
    BY <1>3, <2>1, <2>2
  <2> QED BY <2>2, <2>3
<1> QED BY <1>5

\* A scan: at each place it stops with a value, or goes on at another one; at some
\* places it puts a value of theirs before what it finds there.
Scans(f, S, stop, out, adds, val, step) ==
    f = [x \in S |-> IF x \in stop THEN out[x]
                     ELSE IF x \in adds THEN <<val[x]>> \o f[step[x]] ELSE f[step[x]]]

\* A scan whose rank falls with each step exists, whatever it adds on the way.
LEMMA ScanExists ==
  ASSUME NEW S, NEW stop, NEW out, NEW adds, NEW val, NEW step, NEW rank \in [S -> Nat],
         \A x \in S \ stop : step[x] \in S /\ rank[step[x]] < rank[x]
  PROVE  \E f : Scans(f, S, stop, out, adds, val, step)
<1> DEFINE Then(f, x) == IF x \in adds THEN <<val[x]>> \o f[step[x]] ELSE f[step[x]]
           Below(n) == {x \in S : rank[x] < n}
           Fits(f, n) == f = [x \in Below(n) |-> IF x \in stop THEN out[x] ELSE Then(f, x)]
           Bad == {n \in Nat : ~\E f : Fits(f, n)}
<1>1. ASSUME NEW n \in Nat, NEW g, Fits(g, n) PROVE \E f : Fits(f, n + 1)
  <2> DEFINE f == [x \in Below(n + 1) |-> IF x \in stop THEN out[x] ELSE Then(g, x)]
  <2> SUFFICES Fits(f, n + 1)
    OBVIOUS
  <2>1. ASSUME NEW x \in Below(n + 1), x \notin stop PROVE f[step[x]] = g[step[x]]
    <3>1. step[x] \in Below(n) /\ step[x] \in Below(n + 1)
      BY <2>1
    <3>2. g[step[x]] = IF step[x] \in stop THEN out[step[x]] ELSE Then(g, step[x])
      BY <1>1, <3>1
    <3> QED BY <3>1, <3>2
  <2> HIDE DEF Below
  <2> QED BY <2>1
<1>2. Bad = {}
  <2> SUFFICES ASSUME Bad # {} PROVE FALSE
    OBVIOUS
  <2>1. PICK n \in Bad : \A m \in Bad : n <= m
    <3> HIDE DEF Fits
    <3> QED BY Least
  <2>2. n # 0
    <3>1. Below(0) = {}
      OBVIOUS
    <3>2. \E f : Fits(f, 0)
      <4> DEFINE f == [x \in {} |-> 0]
      <4>1. Fits(f, 0)
        BY <3>1
      <4> HIDE DEF Fits, f
      <4> QED BY <4>1
    <3> HIDE DEF Fits
    <3> QED BY <3>2
  <2>3. n - 1 \in Nat /\ n - 1 \notin Bad
    <3> HIDE DEF Fits
    <3>1. n \in Nat
      OBVIOUS
    <3>2. n - 1 \in Nat /\ ~(n <= n - 1)
      BY <2>2, <3>1
    <3> HIDE DEF Bad
    <3> QED BY <2>1, <3>2
  <2> HIDE DEF Fits
  <2>4. \E f : Fits(f, n - 1)
    BY <2>3
  <2>5. \E f : Fits(f, n)
    BY <2>3, <2>4, <1>1
  <2> QED BY <2>5
<1> DEFINE F == [n \in Nat |-> CHOOSE f : Fits(f, n)]
<1>3. ASSUME NEW n \in Nat PROVE Fits(F[n], n)
  <2>1. \E f : Fits(f, n)
    BY <1>2
  <2> HIDE DEF Fits
  <2> QED BY <2>1
<1> HIDE DEF F
<1>4. ASSUME NEW n \in Nat, NEW x \in Below(n)
      PROVE  F[n][x] = IF x \in stop THEN out[x] ELSE Then(F[n], x)
  <2>1. Fits(F[n], n)
    BY <1>3
  <2> QED BY <2>1
<1> HIDE DEF Fits
<1>5. ASSUME NEW x \in S, NEW m \in Nat, NEW n \in Nat, x \in Below(m), x \in Below(n)
      PROVE  F[m][x] = F[n][x]
  <2> DEFINE Odd == {k \in Nat : \E y \in S : rank[y] = k /\ y \in Below(m) /\ y \in Below(n) /\ F[m][y] # F[n][y]}
  <2>1. SUFFICES ASSUME Odd # {} PROVE FALSE
    BY <1>5
  <2>2. PICK k \in Odd : \A l \in Odd : k <= l
    BY <2>1, Least
  <2>3. PICK y \in S : rank[y] = k /\ y \in Below(m) /\ y \in Below(n) /\ F[m][y] # F[n][y]
    BY <2>2
  <2>4. y \notin stop
    BY <2>3, <1>4
  <2>5. step[y] \in S /\ rank[step[y]] < k /\ rank[step[y]] \in Nat
    BY <2>3, <2>4
  <2>6. step[y] \in Below(m) /\ step[y] \in Below(n)
    BY <2>3, <2>5
  <2>7. F[m][step[y]] # F[n][step[y]]
    <3>1. F[m][y] = Then(F[m], y) /\ F[n][y] = Then(F[n], y)
      BY <2>3, <2>4, <1>4
    <3> HIDE DEF Below, Odd
    <3> QED BY <2>3, <3>1
  <2> QED BY <2>2, <2>5, <2>6, <2>7
<1> DEFINE h == [x \in S |-> F[rank[x] + 1][x]]
<1>6. ASSUME NEW x \in S, x \notin stop PROVE F[rank[x] + 1][step[x]] = h[step[x]]
  <2>1. step[x] \in S /\ step[x] \in Below(rank[x] + 1) /\ step[x] \in Below(rank[step[x]] + 1)
    BY <1>6
  <2> QED BY <2>1, <1>5
<1>7. ASSUME NEW x \in S PROVE h[x] = IF x \in stop THEN out[x] ELSE Then(F[rank[x] + 1], x)
  <2>1. x \in Below(rank[x] + 1) /\ rank[x] + 1 \in Nat
    OBVIOUS
  <2> QED BY <2>1, <1>4
<1>8. h = [x \in S |-> IF x \in stop THEN out[x] ELSE Then(h, x)]
  BY <1>6, <1>7
<1> HIDE DEF h
<1> QED BY <1>8 DEF Scans

-----------------------------------------------------------------------------
(* What SetEnabled of the Linux shell makes of the parsed document.          *)

\* The members of a value, if it has any, have an order.
Ordered(v) == \E S : Members(v) \in Seq(S)

\* Min is one of the numbers.
LEMMA NatMin ==
  ASSUME NEW T, T \subseteq Nat, T # {}
  PROVE  Min(T) \in T
BY Least DEF Min

\* Assign puts one member into its place or to the end, and no other.
LEMMA AssignOne ==
  ASSUME NEW S, NEW m \in Seq(S), NEW key, NEW w
  PROVE  /\ Assign(m, key, w) \in Seq(S \cup {[k |-> key, v |-> w]})
         /\ DOMAIN m \subseteq DOMAIN Assign(m, key, w)
         /\ \A i \in DOMAIN Assign(m, key, w) :
              Assign(m, key, w)[i] = IF i \in DOMAIN m /\ m[i].k # key THEN m[i]
                                     ELSE [k |-> key, v |-> w]
         /\ \E i \in DOMAIN Assign(m, key, w) : Assign(m, key, w)[i].k = key
<1> DEFINE new == [k |-> key, v |-> w]
           n == Assign(m, key, w)
<1>0. new.k = key
  OBVIOUS
<1> HIDE DEF new
<1>1. CASE \E i \in DOMAIN m : m[i].k = key
  <2>1. n = [i \in DOMAIN m |-> IF m[i].k = key THEN new ELSE m[i]]
    BY <1>1 DEF Assign, new
  <2>2. DOMAIN m = 1 .. Len(m) /\ Len(m) \in Nat /\ \A i \in DOMAIN m : m[i] \in S
    OBVIOUS
  <2>3. n \in Seq(S \cup {new}) /\ DOMAIN n = DOMAIN m
    BY <2>1, <2>2
  <2> QED BY <1>0, <1>1, <2>1, <2>3 DEF new
<1>2. CASE ~ \E i \in DOMAIN m : m[i].k = key
  <2>1. n = Append(m, new)
    BY <1>2 DEF Assign, new
  <2>2. /\ n \in Seq(S \cup {new}) /\ DOMAIN m = 1 .. Len(m) /\ DOMAIN n = 1 .. Len(m) + 1
        /\ Len(m) \in Nat /\ n[Len(m) + 1] = new /\ \A i \in 1 .. Len(m) : n[i] = m[i]
    <3>1. m \in Seq(S \cup {new}) /\ new \in S \cup {new}
      OBVIOUS
    <3> QED BY <2>1, <3>1
  <2> QED BY <1>0, <1>2, <2>2 DEF new
<1> QED BY <1>1, <1>2

\* Put changes the value of one key.
LEMMA PutOne ==
  ASSUME NEW v, NEW key, NEW w, Ordered(v)
  PROVE  /\ Get(Put(v, key, w), key) = w
         /\ All(Put(v, key, w), key) = All(v, key)
         /\ \A other : other # key => Get(Put(v, key, w), other) = Get(v, other)
         /\ {x \in All(Put(v, key, w), key) : x.k # key} = {x \in All(v, key) : x.k # key}
<1>1. PICK S : Members(v) \in Seq(S)
  BY DEF Ordered
<1>m. PICK m \in Seq(S) : m = Members(v)
  BY <1>1
<1>n. PICK n : n = Assign(m, key, w)
  OBVIOUS
<1>w. PICK new : new = [k |-> key, v |-> w]
  OBVIOUS
<1>2. Members(Put(v, key, w)) = n
  BY <1>m, <1>n DEF Members, Put, Obj
<1>3. /\ n \in Seq(S \cup {new}) /\ DOMAIN m \subseteq DOMAIN n
      /\ \A i \in DOMAIN n : n[i] = IF i \in DOMAIN m /\ m[i].k # key THEN m[i] ELSE new
      /\ \E i \in DOMAIN n : n[i].k = key
  BY <1>n, <1>w, AssignOne, SMTT(30)
<1>4. DOMAIN n \subseteq Nat /\ new.k = key /\ new.v = w
  BY <1>3, <1>w
<1>5. Get(Put(v, key, w), key) = w
  <2> DEFINE found == {i \in DOMAIN n : n[i].k = key}
  <2>1. found # {} /\ found \subseteq Nat
    BY <1>3, <1>4
  <2>2. Min(found) \in found
    BY <2>1, NatMin
  <2>3. \A i \in found : n[i] = new
    BY <1>3
  <2> QED BY <1>2, <1>4, <2>1, <2>2, <2>3 DEF Get
<1>6. ASSUME NEW other, other # key PROVE Get(Put(v, key, w), other) = Get(v, other)
  <2> DEFINE found == {i \in DOMAIN m : m[i].k = other}
  <2>1. {i \in DOMAIN n : n[i].k = other} = found /\ found \subseteq Nat
    BY <1>3, <1>4, <1>6
  <2>2. found # {} => Min(found) \in found
    BY <2>1, NatMin
  <2>3. \A i \in found : n[i] = m[i]
    BY <1>3, <1>6
  <2> QED BY <1>2, <1>m, <2>1, <2>2, <2>3 DEF Get
<1>7. All(Put(v, key, w), key) = All(v, key)
  BY <1>2, <1>3, <1>4, <1>m DEF All, ToSet
<1> QED BY <1>5, <1>6, <1>7

\* RemoveFirst takes away no other element.
LEMMA RemoveOne ==
  ASSUME NEW S, NEW s \in Seq(S), NEW x
  PROVE  /\ RemoveFirst(s, x) \in Seq(S)
         /\ ToSet(RemoveFirst(s, x)) \subseteq ToSet(s)
         /\ ToSet(s) \ {x} \subseteq ToSet(RemoveFirst(s, x))
<1> DEFINE places == {i \in 1 .. Len(s) : s[i] = x}
<1>1. CASE places = {}
  BY <1>1 DEF RemoveFirst
<1>2. CASE places # {}
  <2>0. places \subseteq Nat
    OBVIOUS
  <2>1. PICK i \in 1 .. Len(s) : i = Min(places) /\ s[i] = x
    <3>1. Min(places) \in places
      <4> HIDE DEF places
      <4> QED BY <1>2, <2>0, NatMin
    <3> QED BY <3>1
  <2>2. RemoveFirst(s, x) = SubSeq(s, 1, i - 1) \o SubSeq(s, i + 1, Len(s))
    BY <1>2, <2>1 DEF RemoveFirst, RemoveAt, SelectInSeq
  <2>3. PICK t : t = RemoveFirst(s, x)
    OBVIOUS
  <2>4. /\ SubSeq(s, 1, i - 1) \in Seq(S) /\ Len(SubSeq(s, 1, i - 1)) = i - 1
        /\ SubSeq(s, i + 1, Len(s)) \in Seq(S) /\ Len(SubSeq(s, i + 1, Len(s))) = Len(s) - i
        /\ \A j \in 1 .. i - 1 : SubSeq(s, 1, i - 1)[j] = s[j]
        /\ \A j \in 1 .. Len(s) - i : SubSeq(s, i + 1, Len(s))[j] = s[j + i]
    OBVIOUS
  <2>5. /\ Len(s) \in Nat /\ i \in Nat /\ i > 0 /\ i <= Len(s) /\ DOMAIN s = 1 .. Len(s)
        /\ DOMAIN t = 1 .. Len(s) - 1
        /\ \A j \in 1 .. Len(s) - 1 : t[j] = IF j < i THEN s[j] ELSE s[j + 1]
    <3>1. Len(s) \in Nat /\ i \in Nat /\ i > 0 /\ i <= Len(s) /\ DOMAIN s = 1 .. Len(s)
      OBVIOUS
    <3>2. PICK p \in Seq(S), q \in Seq(S) : p = SubSeq(s, 1, i - 1) /\ q = SubSeq(s, i + 1, Len(s))
      BY <2>4
    <3>3. /\ Len(p) = i - 1 /\ Len(q) = Len(s) - i
          /\ \A j \in 1 .. i - 1 : p[j] = s[j]
          /\ \A j \in 1 .. Len(s) - i : q[j] = s[j + i]
      BY <2>4, <3>2
    <3>4. /\ t = p \o q /\ DOMAIN t = 1 .. Len(p) + Len(q)
          /\ \A j \in 1 .. Len(p) + Len(q) : t[j] = IF j <= Len(p) THEN p[j] ELSE q[j - Len(p)]
      <4>1. t = p \o q
        BY <2>2, <2>3, <3>2
      <4>2. p \o q \in Seq(S) /\ Len(p \o q) = Len(p) + Len(q)
        OBVIOUS
      <4>3. \A j \in 1 .. Len(p) + Len(q) : (p \o q)[j] = IF j <= Len(p) THEN p[j] ELSE q[j - Len(p)]
        OBVIOUS
      <4>4. DOMAIN (p \o q) = 1 .. Len(p) + Len(q)
        BY <4>2
      <4> QED BY <4>1, <4>3, <4>4
    <3>5. ASSUME NEW j \in 1 .. Len(s) - 1 PROVE t[j] = IF j < i THEN s[j] ELSE s[j + 1]
      <4>1. CASE j < i
        BY <3>1, <3>3, <3>4, <4>1
      <4>2. CASE j >= i
        <5>1. j - Len(p) \in 1 .. Len(s) - i /\ j - Len(p) + i = j + 1
          BY <3>1, <3>3, <4>2
        <5>2. t[j] = q[j - Len(p)]
          BY <3>1, <3>3, <3>4, <4>2
        <5> QED BY <3>1, <3>3, <4>2, <5>1, <5>2
      <4> QED BY <3>1, <4>1, <4>2
    <3> QED BY <3>1, <3>3, <3>4, <3>5
  <2>6. ASSUME NEW j \in DOMAIN t PROVE t[j] \in ToSet(s)
    BY <2>5, <2>6 DEF ToSet
  <2>7. ASSUME NEW j \in DOMAIN s, s[j] # x PROVE s[j] \in ToSet(t)
    <3>1. CASE j < i
      <4>1. j \in 1 .. Len(s) - 1 /\ t[j] = s[j]
        BY <2>5, <3>1
      <4> QED BY <2>5, <4>1 DEF ToSet
    <3>2. CASE j > i
      <4>1. j - 1 \in 1 .. Len(s) - 1 /\ t[j - 1] = s[j]
        BY <2>5, <3>2
      <4> QED BY <2>5, <4>1 DEF ToSet
    <3>3. j # i
      BY <2>1, <2>7
    <3> QED BY <2>5, <3>1, <3>2, <3>3
  <2>8. t \in Seq(S)
    BY <2>2, <2>3, <2>4, ConcatProperties
  <2> QED BY <2>3, <2>6, <2>7, <2>8 DEF ToSet
<1> QED BY <1>1, <1>2

\* SetEnabled of the Linux shell (plugins_manager.cpp:140-167), on a document as
\* the parser delivers it: the installed packages and the rest of the file stay
\* as they were, whatever else they hold; enabling adds the name to the bundles,
\* and disabling takes no other away. This is the document that Stringify writes,
\* which then costs the digits that Shown leaves out.
THEOREM OneBundle ==
  ASSUME NEW v, NEW name, Ordered(v), Ordered(Get(v, "dsh")),
         Ordered(Get(Get(v, "dsh"), "profile")), \E S : Bundles(v) \in Seq(S)
  PROVE  \A on \in BOOLEAN :
           LET b == L!NewBundles(v, name, on)
               w == WithBundles(v, b)
           IN /\ Sections(w) = [Sections(v) EXCEPT !.enabled = ToSet(Names(b))]
              /\ IF on THEN ToSet(b) = ToSet(Bundles(v)) \cup {Str(name)}
                       ELSE /\ ToSet(b) \subseteq ToSet(Bundles(v))
                            /\ ToSet(Bundles(v)) \ {Str(name)} \subseteq ToSet(b)
<1> SUFFICES ASSUME NEW on \in BOOLEAN
             PROVE  LET b == L!NewBundles(v, name, on)
                        w == WithBundles(v, b)
                    IN /\ Sections(w) = [Sections(v) EXCEPT !.enabled = ToSet(Names(b))]
                       /\ IF on THEN ToSet(b) = ToSet(Bundles(v)) \cup {Str(name)}
                                ELSE /\ ToSet(b) \subseteq ToSet(Bundles(v))
                                     /\ ToSet(Bundles(v)) \ {Str(name)} \subseteq ToSet(b)
  OBVIOUS
<1> DEFINE old == Bundles(v)
           b == L!NewBundles(v, name, on)
           w == WithBundles(v, b)
           dsh == Get(v, "dsh")
           inner == Get(dsh, "profile")
           inner2 == Put(inner, "bundles", Arr(b))
           dsh2 == Put(dsh, "profile", inner2)
<1>1. PICK S : old \in Seq(S)
  OBVIOUS
<1>2. b = IF on THEN With(old, Str(name)) ELSE RemoveFirst(old, Str(name))
  <2>1. Bundles(v) = L!Bundles(v)
    BY DEF Bundles, L!Bundles, Elements, L!Elements, Get, L!Get, Min, L!Min,
           Members, L!Members, Missing, L!Missing
  <2>2. Str(name) = L!Str(name)
    BY DEF Str, L!Str
  <2>3. \A s, x : L!With(s, x) = With(s, x)
    BY DEF With, L!With, Contains, L!Contains
  <2>4. \A s, x : L!RemoveFirst(s, x) = RemoveFirst(s, x)
    BY DEF RemoveFirst, L!RemoveFirst, RemoveAt, L!RemoveAt, SelectInSeq, L!SelectInSeq, Min, L!Min
  <2>5. b = IF on THEN L!With(L!Bundles(v), L!Str(name)) ELSE L!RemoveFirst(L!Bundles(v), L!Str(name))
    BY DEF L!NewBundles
  <2>6. L!With(L!Bundles(v), L!Str(name)) = With(old, Str(name))
    BY <2>1, <2>2, <2>3
  <2>7. L!RemoveFirst(L!Bundles(v), L!Str(name)) = RemoveFirst(old, Str(name))
    BY <2>1, <2>2, <2>4
  <2> HIDE DEF b, old
  <2> QED BY <2>5, <2>6, <2>7, Zenon
<1>3. /\ w = Put(v, "dsh", dsh2)
      /\ Ordered(v) /\ Ordered(dsh) /\ Ordered(inner)
      /\ Sections(v) = [installed |-> ToSet(Keys(Get(v, "dependencies"))),
                        enabled |-> ToSet(Names(Bundles(v))),
                        other |-> {m \in All(v, "dsh") : m.k # "dependencies"}
                                  \cup All(dsh, "profile") \cup All(inner, "bundles")]
      /\ Sections(w) = [installed |-> ToSet(Keys(Get(w, "dependencies"))),
                        enabled |-> ToSet(Names(Bundles(w))),
                        other |-> {m \in All(w, "dsh") : m.k # "dependencies"}
                                  \cup All(Get(w, "dsh"), "profile")
                                  \cup All(Get(Get(w, "dsh"), "profile"), "bundles")]
      /\ Bundles(w) = Elements(Get(Get(Get(w, "dsh"), "profile"), "bundles"))
  BY DEF WithBundles, Sections, Bundles
<1> HIDE DEF old, b, w, dsh, inner
<1>4. Get(inner2, "bundles") = Arr(b) /\ All(inner2, "bundles") = All(inner, "bundles")
  BY <1>3, PutOne
<1> HIDE DEF inner2
<1>5. Get(dsh2, "profile") = inner2 /\ All(dsh2, "profile") = All(dsh, "profile")
  BY <1>3, PutOne
<1> HIDE DEF dsh2
<1>6. /\ Get(w, "dsh") = dsh2 /\ All(w, "dsh") = All(v, "dsh")
      /\ Get(w, "dependencies") = Get(v, "dependencies")
  BY <1>3, PutOne
<1>7. Bundles(w) = b
  BY <1>3, <1>4, <1>5, <1>6 DEF Elements, Arr
<1>8. Sections(w) = [Sections(v) EXCEPT !.enabled = ToSet(Names(b))]
  <2>1. /\ Sections(w).installed = ToSet(Keys(Get(v, "dependencies")))
        /\ Sections(w).enabled = ToSet(Names(b))
    BY <1>3, <1>6, <1>7
  <2>2. Sections(w).other = {m \in All(v, "dsh") : m.k # "dependencies"}
                            \cup All(dsh, "profile") \cup All(inner, "bundles")
    BY <1>3, <1>4, <1>5, <1>6
  <2>3. PICK A, B, C : Sections(v) = [installed |-> A, enabled |-> B, other |-> C]
    BY <1>3
  <2>4. /\ Sections(v).installed = A /\ Sections(v).other = C
        /\ Sections(w) = [installed |-> Sections(w).installed, enabled |-> Sections(w).enabled,
                          other |-> Sections(w).other]
    BY <1>3, <2>3
  <2>5. /\ A = ToSet(Keys(Get(v, "dependencies")))
        /\ C = {m \in All(v, "dsh") : m.k # "dependencies"}
                \cup All(dsh, "profile") \cup All(inner, "bundles")
    BY <1>3, <2>4
  <2>6. Sections(w) = [installed |-> A, enabled |-> ToSet(Names(b)), other |-> C]
    BY <2>1, <2>2, <2>4, <2>5
  <2> QED BY <2>3, <2>6
<1>9. CASE on
  <2>1. ToSet(b) = ToSet(old) \cup {Str(name)}
    BY <1>1, <1>2, <1>9 DEF With, Contains, ToSet
  <2> QED BY <1>8, <1>9, <2>1 DEF old, b, w
<1>10. CASE ~on
  <2>1. ToSet(b) \subseteq ToSet(old) /\ ToSet(old) \ {Str(name)} \subseteq ToSet(b)
    BY <1>1, <1>2, <1>10, RemoveOne
  <2> QED BY <1>8, <1>10, <2>1 DEF old, b, w
<1> QED BY <1>9, <1>10

-----------------------------------------------------------------------------
(* json.cpp of the Windows shell: what its scans find in a text of any length. *)

\* The equation that Closing solves.
ClosingScan(s, end, g) ==
    g = [p \in Nat \X Nat |->
          LET j == p[1]
              d == p[2] IN
          IF j >= end THEN end
          ELSE IF At(s, j) \in Openers THEN g[<<j + 1, d + 1>>]
          ELSE IF At(s, j) \notin Closers THEN g[<<j + 1, d>>]
          ELSE IF d = 0 THEN j ELSE g[<<j + 1, d - 1>>]]

\* It has a solution, for each step comes nearer to end.
LEMMA ClosingScans ==
  ASSUME NEW s, NEW end \in Nat
  PROVE  \E g : ClosingScan(s, end, g)
<1> DEFINE S == Nat \X Nat
           stop == {p \in S : p[1] >= end \/ (At(s, p[1]) \in Closers /\ p[2] = 0)}
           out == [p \in S |-> IF p[1] >= end THEN end ELSE p[1]]
           step == [p \in S |-> IF At(s, p[1]) \in Openers THEN <<p[1] + 1, p[2] + 1>>
                              ELSE IF At(s, p[1]) \in Closers THEN <<p[1] + 1, p[2] - 1>>
                              ELSE <<p[1] + 1, p[2]>>]
           rank == [p \in S |-> IF p[1] >= end THEN 0 ELSE end - p[1]]
<1>1. rank \in [S -> Nat]
  OBVIOUS
<1>2. ASSUME NEW p \in S, p \notin stop PROVE step[p] \in S /\ rank[step[p]] < rank[p]
  <2>1. Openers \cap Closers = {}
    BY DEF Openers, Closers
  <2>2. PICK j \in Nat, d \in Nat : p = <<j, d>>
    OBVIOUS
  <2>3. j < end /\ ~(At(s, j) \in Closers /\ d = 0)
    BY <1>2, <2>2
  <2>4. step[p] = IF At(s, j) \in Openers THEN <<j + 1, d + 1>>
                  ELSE IF At(s, j) \in Closers THEN <<j + 1, d - 1>> ELSE <<j + 1, d>>
    BY <2>2
  <2>5. step[p] \in S /\ step[p][1] = j + 1
    BY <2>1, <2>3, <2>4
  <2>6. rank[p] = end - j
    BY <2>2, <2>3
  <2>7. rank[step[p]] = IF j + 1 >= end THEN 0 ELSE end - (j + 1)
    BY <2>5
  <2> QED BY <2>3, <2>5, <2>6, <2>7
<1>3. PICK g : Scans(g, S, stop, out, {}, out, step)
  <2>1. \A p \in S \ stop : step[p] \in S /\ rank[step[p]] < rank[p]
    BY <1>2
  <2>2. rank \in [S -> Nat]
    BY <1>1
  <2> HIDE DEF S, stop, out, step, rank
  <2> QED BY <2>1, <2>2, ScanExists
<1>4. ClosingScan(s, end, g)
  <2>1. Openers \cap Closers = {}
    BY DEF Openers, Closers
  <2>2. ASSUME NEW p \in S
        PROVE  (IF p \in stop THEN out[p] ELSE g[step[p]]) =
               LET j == p[1]
                   d == p[2] IN
               IF j >= end THEN end
               ELSE IF At(s, j) \in Openers THEN g[<<j + 1, d + 1>>]
               ELSE IF At(s, j) \notin Closers THEN g[<<j + 1, d>>]
               ELSE IF d = 0 THEN j ELSE g[<<j + 1, d - 1>>]
    BY <2>1
  <2> QED BY <1>3, <2>2 DEF ClosingScan, Scans
<1> QED BY <1>4

\* Closing is one of its solutions.
LEMMA ClosingIs ==
  ASSUME NEW s, NEW end \in Nat
  PROVE  \E g : /\ ClosingScan(s, end, g)
                /\ \A i, d : Closing(s, i, end, d) = g[<<i, d>>]
<1> DEFINE c == CHOOSE g : ClosingScan(s, end, g)
<1>1. ClosingScan(s, end, c)
  BY ClosingScans
<1>2. \A i, d : Closing(s, i, end, d) = c[<<i, d>>]
  BY DEF Closing, ClosingScan
<1> HIDE DEF c
<1> QED BY <1>1, <1>2

\* One step of Closing.
LEMMA ClosingStep ==
  ASSUME NEW s, NEW end \in Nat, NEW j \in Nat, NEW d \in Nat
  PROVE  Closing(s, j, end, d) =
           IF j >= end THEN end
           ELSE IF At(s, j) \in Openers THEN Closing(s, j + 1, end, d + 1)
           ELSE IF At(s, j) \notin Closers THEN Closing(s, j + 1, end, d)
           ELSE IF d = 0 THEN j ELSE Closing(s, j + 1, end, d - 1)
<1>1. PICK g : ClosingScan(s, end, g) /\ \A i, e : Closing(s, i, end, e) = g[<<i, e>>]
  BY ClosingIs
<1>2. g[<<j, d>>] =
           IF j >= end THEN end
           ELSE IF At(s, j) \in Openers THEN g[<<j + 1, d + 1>>]
           ELSE IF At(s, j) \notin Closers THEN g[<<j + 1, d>>]
           ELSE IF d = 0 THEN j ELSE g[<<j + 1, d - 1>>]
  BY <1>1 DEF ClosingScan, Openers, Closers
<1> HIDE DEF ClosingScan
<1> QED BY <1>1, <1>2

\* Induction towards 0: what holds at a place if it holds at all later ones up to
\* end holds everywhere.
LEMMA Downward ==
  ASSUME NEW end \in Nat, NEW T,
         \A j \in 0 .. end : (\A k \in j + 1 .. end : k \in T) => j \in T
  PROVE  \A j \in 0 .. end : j \in T
<1> DEFINE Bad == {n \in 0 .. end : end - n \notin T}
<1> SUFFICES ASSUME Bad # {} PROVE FALSE
  <2>1. SUFFICES ASSUME NEW j \in 0 .. end, j \notin T PROVE Bad # {}
    OBVIOUS
  <2>2. end - j \in 0 .. end /\ end - (end - j) = j
    OBVIOUS
  <2>3. end - j \in Bad
    BY <2>1, <2>2
  <2> QED BY <2>3
<1>1. PICK n \in Bad : \A m \in Bad : n <= m
  <2>1. Bad \in SUBSET Nat
    OBVIOUS
  <2> HIDE DEF Bad
  <2> QED BY <2>1, Least
<1>2. ASSUME NEW k \in (end - n) + 1 .. end PROVE k \in T
  <2>1. end - k \in 0 .. end /\ end - (end - k) = k /\ ~(n <= end - k)
    OBVIOUS
  <2>2. end - k \notin Bad
    BY <1>1, <2>1
  <2> QED BY <2>1, <2>2
<1>3. end - n \in 0 .. end /\ end - n \notin T
  OBVIOUS
<1> HIDE DEF Bad
<1> QED BY <1>2, <1>3

\* At the end of a text nothing is left to scan.
LEMMA ClosingAtEnd ==
  ASSUME NEW s, NEW end \in Nat, NEW d \in Nat
  PROVE  Closing(s, end, end, d) = end
<1>1. PICK e \in Nat : e = end
  OBVIOUS
<1>2. Closing(s, e, end, d) =
        IF e >= end THEN end
        ELSE IF At(s, e) \in Openers THEN Closing(s, e + 1, end, d + 1)
        ELSE IF At(s, e) \notin Closers THEN Closing(s, e + 1, end, d)
        ELSE IF d = 0 THEN e ELSE Closing(s, e + 1, end, d - 1)
  BY ClosingStep
<1>3. e >= end
  BY <1>1
<1> QED BY <1>1, <1>2, <1>3

\* Closing stays between where it begins and end, and stops on a bracket or at end.
LEMMA ClosingRange ==
  ASSUME NEW s, NEW end \in Nat
  PROVE  \A j \in 0 .. end : \A d \in Nat :
           LET c == Closing(s, j, end, d) IN
           c \in j .. end /\ (c < end => At(s, c) \in Closers)
<1> DEFINE P(j, d) == LET c == Closing(s, j, end, d) IN
                      c \in j .. end /\ (c < end => At(s, c) \in Closers)
           T == {j \in 0 .. end : \A d \in Nat : P(j, d)}
<1>1. ASSUME NEW j \in 0 .. end, \A k \in j + 1 .. end : k \in T, NEW d \in Nat
      PROVE  P(j, d)
  <2>1. j \in Nat /\ j <= end
    OBVIOUS
  <2>2. CASE j = end
    <3>1. Closing(s, j, end, d) = end
      BY <2>1, <2>2, ClosingAtEnd
    <3> QED BY <2>2, <3>1
  <2>3. CASE j < end
    <3>1. \A e \in Nat : P(j + 1, e)
      BY <1>1, <2>1, <2>3
    <3>2. P(j + 1, d) /\ P(j + 1, d + 1) /\ (d > 0 => P(j + 1, d - 1))
      BY <3>1
    <3>3. \/ Closing(s, j, end, d) = j /\ At(s, j) \in Closers
          \/ \E e \in Nat : Closing(s, j, end, d) = Closing(s, j + 1, end, e)
      BY <2>1, <2>3, ClosingStep
    <3> QED BY <2>1, <2>3, <3>1, <3>3
  <2> QED BY <2>1, <2>2, <2>3
<1>2. \A j \in 0 .. end : j \in T
  <2>1. \A j \in 0 .. end : (\A k \in j + 1 .. end : k \in T) => j \in T
    BY <1>1
  <2> HIDE DEF T
  <2> QED BY <2>1, Downward
<1> QED BY <1>2

\* So does SkipValue.
LEMMA SkipRange ==
  ASSUME NEW s, NEW end \in Nat, NEW j \in 0 .. end
  PROVE  SkipValue(s, j, end) \in j .. end
  BY ClosingRange DEF SkipValue

\* The equation that FindValueRange solves.
FindScan(s, end, key, g) ==
    g = [j \in Nat |->
          IF j >= end THEN NoSpan
          ELSE IF ~IsKey(s, j, end) THEN g[IF At(s, j) = "str" THEN j + 2 ELSE j + 1]
          ELSE IF s[j].v # key THEN g[SkipValue(s, j + 2, end)]
          ELSE ValueSpan(s, j + 2, end)]

\* It has a solution, for a key is skipped at every step.
LEMMA FindScans ==
  ASSUME NEW s, NEW end \in Nat, NEW key
  PROVE  \E g : FindScan(s, end, key, g)
<1> DEFINE stop == {j \in Nat : j >= end \/ (IsKey(s, j, end) /\ s[j].v = key)}
           out == [j \in Nat |-> IF j >= end THEN NoSpan ELSE ValueSpan(s, j + 2, end)]
           step == [j \in Nat |-> IF IsKey(s, j, end) THEN SkipValue(s, j + 2, end)
                                  ELSE IF At(s, j) = "str" THEN j + 2 ELSE j + 1]
           rank == [j \in Nat |-> IF j >= end THEN 0 ELSE end - j]
<1>1. rank \in [Nat -> Nat]
  OBVIOUS
<1>2. ASSUME NEW j \in Nat, j \notin stop PROVE step[j] \in Nat /\ rank[step[j]] < rank[j]
  <2>1. j < end
    BY <1>2
  <2>2. step[j] \in Nat /\ step[j] > j
    <3>1. IsKey(s, j, end) => SkipValue(s, j + 2, end) \in j + 2 .. end
      BY SkipRange DEF IsKey
    <3> QED BY <3>1
  <2>3. rank[j] = end - j
    BY <2>1
  <2>4. rank[step[j]] = IF step[j] >= end THEN 0 ELSE end - step[j]
    BY <2>2
  <2> HIDE DEF step, rank
  <2> QED BY <2>1, <2>2, <2>3, <2>4
<1>3. PICK g : Scans(g, Nat, stop, out, {}, out, step)
  <2>1. \A j \in Nat \ stop : step[j] \in Nat /\ rank[step[j]] < rank[j]
    BY <1>2
  <2>2. rank \in [Nat -> Nat]
    BY <1>1
  <2> HIDE DEF stop, out, step, rank
  <2> QED BY <2>1, <2>2, ScanExists
<1>4. FindScan(s, end, key, g)
  <2>2. ASSUME NEW j \in Nat
        PROVE  (IF j \in stop THEN out[j] ELSE g[step[j]]) =
                 IF j >= end THEN NoSpan
                 ELSE IF ~IsKey(s, j, end) THEN g[IF At(s, j) = "str" THEN j + 2 ELSE j + 1]
                 ELSE IF s[j].v # key THEN g[SkipValue(s, j + 2, end)]
                 ELSE ValueSpan(s, j + 2, end)
    OBVIOUS
  <2> QED BY <1>3, <2>2 DEF FindScan, Scans
<1> QED BY <1>4

\* One step of FindValueRange.
LEMMA FindStep ==
  ASSUME NEW s, NEW end \in Nat, NEW key, NEW j \in Nat
  PROVE  FindValueRange(s, j, end, key) =
           IF j >= end THEN NoSpan
           ELSE IF ~IsKey(s, j, end)
                THEN FindValueRange(s, IF At(s, j) = "str" THEN j + 2 ELSE j + 1, end, key)
           ELSE IF s[j].v # key THEN FindValueRange(s, SkipValue(s, j + 2, end), end, key)
           ELSE ValueSpan(s, j + 2, end)
<1> DEFINE g == CHOOSE f : FindScan(s, end, key, f)
<1>1. FindScan(s, end, key, g)
  BY FindScans
<1>2. \A i : FindValueRange(s, i, end, key) = g[i]
  BY DEF FindValueRange, FindScan
<1> HIDE DEF g
<1>3. g[j] = IF j >= end THEN NoSpan
             ELSE IF ~IsKey(s, j, end) THEN g[IF At(s, j) = "str" THEN j + 2 ELSE j + 1]
             ELSE IF s[j].v # key THEN g[SkipValue(s, j + 2, end)]
             ELSE ValueSpan(s, j + 2, end)
  BY <1>1 DEF FindScan
<1> QED BY <1>2, <1>3

\* The equation that Strings solves.
StringsScan(s, end, g) ==
    g = [j \in Nat |->
          IF j >= end \/ At(s, j) = "]" THEN <<>>
          ELSE IF At(s, j) = "str" THEN <<s[j].v>> \o g[NextElement(s, j, end)]
          ELSE g[NextElement(s, j, end)]]

\* NextElement goes no further than end, and never back.
LEMMA NextRange ==
  ASSUME NEW s, NEW end \in Nat, NEW j \in Nat, j < end
  PROVE  NextElement(s, j, end) \in j .. end
<1>1. PICK next \in j .. end : next = SkipValue(s, j, end)
  BY SkipRange
<1>2. next \in Nat /\ (next < end => next + 1 \in j .. end)
  BY <1>1
<1> QED BY <1>1, <1>2 DEF NextElement

\* Where the next element begins where this one does the loop never ends: then
\* what it returns may be any fixed point, and one is that it returns nothing.
LEMMA StringsScans ==
  ASSUME NEW s, NEW end \in Nat
  PROVE  \E g : StringsScan(s, end, g)
<1> DEFINE next == [j \in Nat |-> NextElement(s, j, end)]
           stop == {j \in Nat : j >= end \/ At(s, j) = "]" \/ (At(s, j) # "str" /\ next[j] = j)}
           out == [j \in Nat |-> <<>>]
           adds == {j \in Nat : At(s, j) = "str"}
           val == [j \in Nat |-> s[j].v]
           rank == [j \in Nat |-> IF j >= end THEN 0 ELSE end - j]
<1>1. rank \in [Nat -> Nat]
  OBVIOUS
<1>2. ASSUME NEW j \in Nat, j \notin stop PROVE next[j] \in Nat /\ rank[next[j]] < rank[j]
  <2>1. j < end
    BY <1>2
  <2>2. next[j] \in j .. end
    BY <2>1, NextRange
  <2>3. next[j] # j
    <3>1. At(s, j) = "str" => SkipValue(s, j, end) = j + 1
      BY <2>1 DEF SkipValue
    <3>2. At(s, j) = "str" => next[j] \in {j + 1, j + 2}
      BY <3>1 DEF NextElement
    <3> QED BY <1>2, <3>2
  <2>4. rank[j] = end - j
    BY <2>1
  <2>5. rank[next[j]] = IF next[j] >= end THEN 0 ELSE end - next[j]
    BY <2>2
  <2> HIDE DEF next, rank
  <2> QED BY <2>1, <2>2, <2>3, <2>4, <2>5
<1>3. PICK g : Scans(g, Nat, stop, out, adds, val, next)
  <2>1. \A j \in Nat \ stop : next[j] \in Nat /\ rank[next[j]] < rank[j]
    BY <1>2
  <2>2. rank \in [Nat -> Nat]
    BY <1>1
  <2> HIDE DEF stop, out, next, rank, adds, val
  <2> QED BY <2>1, <2>2, ScanExists
<1>4. StringsScan(s, end, g)
  <2> HIDE DEF next
  <2>1. ASSUME NEW j \in Nat
        PROVE  g[j] = IF j >= end \/ At(s, j) = "]" THEN <<>>
                      ELSE IF At(s, j) = "str" THEN <<s[j].v>> \o g[next[j]]
                      ELSE g[next[j]]
    BY <1>3 DEF Scans
  <2> USE DEF next
  <2>2. g = [j \in Nat |-> g[j]]
    <3> HIDE DEF stop, out, adds, val, next
    <3> QED BY <1>3 DEF Scans
  <2> QED BY <2>1, <2>2 DEF StringsScan
<1> QED BY <1>4

\* One step of Strings.
LEMMA StringsStep ==
  ASSUME NEW s, NEW end \in Nat, NEW j \in Nat
  PROVE  Strings(s, j, end) =
           IF j >= end \/ At(s, j) = "]" THEN <<>>
           ELSE IF At(s, j) = "str" THEN <<s[j].v>> \o Strings(s, NextElement(s, j, end), end)
           ELSE Strings(s, NextElement(s, j, end), end)
<1> DEFINE g == CHOOSE f : StringsScan(s, end, f)
<1>1. StringsScan(s, end, g)
  BY StringsScans
<1>2. \A i : Strings(s, i, end) = g[i]
  BY DEF Strings, StringsScan
<1> HIDE DEF g
<1>3. g[j] = IF j >= end \/ At(s, j) = "]" THEN <<>>
             ELSE IF At(s, j) = "str" THEN <<s[j].v>> \o g[NextElement(s, j, end)]
             ELSE g[NextElement(s, j, end)]
  BY <1>1 DEF StringsScan
<1> QED BY <1>2, <1>3

\* A span begins where the value does and is not empty.
LEMMA ValueSpanRange ==
  ASSUME NEW s, NEW end \in Nat, NEW a \in 0 .. end
  PROVE  LET q == ValueSpan(s, a, end) IN
         q # NoSpan => q = [from |-> a, to |-> q.to] /\ a < end /\ q.to \in a + 1 .. end
<1>1. ASSUME a < end PROVE ValueEnd(s, a, end) \in a + 1 .. end
  <2>1. Closing(s, a + 1, end, 0) \in a + 1 .. end
    BY <1>1, ClosingRange
  <2> QED BY <2>1 DEF ValueEnd
<1> QED BY <1>1 DEF ValueSpan

\* q is the span of the value of a key among s[i .. end - 1].
Holds(s, i, end, key, q) ==
    /\ q.from \in i + 2 .. end - 1 /\ q.to \in q.from + 1 .. end
    /\ q = ValueSpan(s, q.from, end)
    /\ IsKey(s, q.from - 2, end) /\ s[q.from - 2].v = key

\* What FindValueRange finds is the value of the key that was asked for.
LEMMA FindRange ==
  ASSUME NEW s, NEW end \in Nat, NEW key
  PROVE  \A i \in 0 .. end :
           LET q == FindValueRange(s, i, end, key) IN q # NoSpan => Holds(s, i, end, key, q)
<1> DEFINE Q(i) == FindValueRange(s, i, end, key)
           T == {i \in 0 .. end : Q(i) # NoSpan => Holds(s, i, end, key, Q(i))}
<1>1. ASSUME NEW i \in 0 .. end, \A k \in i + 1 .. end : k \in T, Q(i) # NoSpan
      PROVE  Holds(s, i, end, key, Q(i))
  <2>1. i < end /\ i \in Nat
    BY <1>1, FindStep
  <2>2. ASSUME NEW k \in Nat, k > i, Q(i) = Q(k) PROVE Holds(s, i, end, key, Q(i))
    <3>1. k < end
      BY <1>1, <2>2, FindStep
    <3>2. k \in T
      BY <1>1, <2>2, <3>1
    <3>3. Holds(s, k, end, key, Q(i))
      BY <1>1, <2>2, <3>2
    <3> QED BY <2>1, <2>2, <3>3 DEF Holds
  <2>3. CASE ~IsKey(s, i, end)
    <3>1. Q(i) = Q(IF At(s, i) = "str" THEN i + 2 ELSE i + 1)
      BY <2>1, <2>3, FindStep
    <3> QED BY <2>1, <2>2, <3>1
  <2>4. CASE IsKey(s, i, end) /\ s[i].v # key
    <3>1. Q(i) = Q(SkipValue(s, i + 2, end))
      BY <2>1, <2>4, FindStep
    <3>2. i + 2 \in 0 .. end
      BY <2>1, <2>4 DEF IsKey
    <3>3. SkipValue(s, i + 2, end) \in i + 2 .. end
      BY <3>2, SkipRange
    <3> QED BY <2>1, <2>2, <3>1, <3>3
  <2>5. CASE IsKey(s, i, end) /\ s[i].v = key
    <3>1. Q(i) = ValueSpan(s, i + 2, end)
      BY <2>1, <2>5, FindStep
    <3>2. i + 2 \in 0 .. end
      BY <2>1, <2>5 DEF IsKey
    <3> HIDE DEF Q
    <3>3. Q(i) = [from |-> i + 2, to |-> Q(i).to] /\ i + 2 < end /\ Q(i).to \in i + 3 .. end
      BY <1>1, <3>1, <3>2, ValueSpanRange
    <3>4. Q(i).from = i + 2
      BY <3>3
    <3>5. i + 2 - 2 = i
      BY <2>1
    <3> QED BY <2>1, <2>5, <3>1, <3>3, <3>4, <3>5 DEF Holds
  <2> QED BY <2>3, <2>4, <2>5
<1>2. \A i \in 0 .. end : (\A k \in i + 1 .. end : k \in T) => i \in T
  BY <1>1
<1>3. \A i \in 0 .. end : i \in T
  <2> HIDE DEF T
  <2> QED BY <1>2, Downward
<1> QED BY <1>3

\* Where Closing goes on.
Onward(s, j, end, d) ==
    IF At(s, j) \in Openers THEN Closing(s, j + 1, end, d + 1)
    ELSE IF At(s, j) \notin Closers THEN Closing(s, j + 1, end, d)
    ELSE IF d = 0 THEN j ELSE Closing(s, j + 1, end, d - 1)

\* Before end, Closing goes on as Onward says.
LEMMA ClosingOn ==
  ASSUME NEW s, NEW end \in Nat, NEW j \in Nat, j < end
  PROVE  \A d \in Nat : Closing(s, j, end, d) = Onward(s, j, end, d)
<1> SUFFICES ASSUME NEW d \in Nat PROVE Closing(s, j, end, d) = Onward(s, j, end, d)
  OBVIOUS
<1>1. ~(j >= end)
  OBVIOUS
<1>2. Closing(s, j, end, d) = IF j >= end THEN end ELSE Onward(s, j, end, d)
  BY ClosingStep DEF Onward
<1> QED BY <1>1, <1>2

\* What closes before the end of a scan closes there whatever the end is.
LEMMA ClosingKept ==
  ASSUME NEW s, NEW end \in Nat, NEW less \in 0 .. end
  PROVE  \A j \in 0 .. less : \A d \in Nat :
           /\ Closing(s, j, less, d) < less => Closing(s, j, end, d) = Closing(s, j, less, d)
           /\ Closing(s, j, end, d) < less => Closing(s, j, less, d) = Closing(s, j, end, d)
<1> DEFINE P(j, d) ==
             /\ Closing(s, j, less, d) < less => Closing(s, j, end, d) = Closing(s, j, less, d)
             /\ Closing(s, j, end, d) < less => Closing(s, j, less, d) = Closing(s, j, end, d)
           T == {j \in 0 .. less : \A d \in Nat : P(j, d)}
<1>1. ASSUME NEW j \in 0 .. less, \A k \in j + 1 .. less : k \in T, NEW d \in Nat
      PROVE  P(j, d)
  <2>1. j \in Nat /\ less \in Nat
    OBVIOUS
  <2>2. CASE j = less
    <3>1. Closing(s, j, less, d) = less
      BY <2>1, <2>2, ClosingAtEnd
    <3>2. Closing(s, j, end, d) \in j .. end
      BY <2>1, ClosingRange
    <3> QED BY <2>2, <3>1, <3>2
  <2>3. CASE j < less
    <3>1. \A e \in Nat : P(j + 1, e)
      BY <1>1, <2>1, <2>3
    <3>2. \A to \in {less, end} : Closing(s, j, to, d) = Onward(s, j, to, d)
      BY <2>1, <2>3, ClosingOn
    <3>3. d + 1 \in Nat /\ (d # 0 => d - 1 \in Nat)
      OBVIOUS
    <3> QED BY <3>1, <3>2, <3>3 DEF Onward
  <2> QED BY <2>1, <2>2, <2>3
<1>2. \A j \in 0 .. less : (\A k \in j + 1 .. less : k \in T) => j \in T
  BY <1>1
<1>3. \A j \in 0 .. less : j \in T
  <2> HIDE DEF T
  <2> QED BY <1>2, Downward
<1> QED BY <1>3

\* A bracket further out is closed once those further in are.
LEMMA ClosingDeeper ==
  ASSUME NEW s, NEW end \in Nat
  PROVE  \A j \in 0 .. end : \A d, e \in Nat :
           LET c == Closing(s, j, end, d) IN
           Closing(s, j, end, d + e + 1) = IF c < end THEN Closing(s, c + 1, end, e) ELSE end
<1> DEFINE P(j, d, e) == Closing(s, j, end, d + e + 1) =
                           IF Closing(s, j, end, d) < end
                           THEN Closing(s, Closing(s, j, end, d) + 1, end, e) ELSE end
           T == {j \in 0 .. end : \A d, e \in Nat : P(j, d, e)}
<1>1. ASSUME NEW j \in 0 .. end, \A k \in j + 1 .. end : k \in T, NEW d \in Nat, NEW e \in Nat
      PROVE  P(j, d, e)
  <2>1. j \in Nat /\ d + e + 1 \in Nat /\ d + e + 1 # 0
    OBVIOUS
  <2>2. CASE j = end
    <3>1. Closing(s, j, end, d) = end /\ Closing(s, j, end, d + e + 1) = end
      BY <2>1, <2>2, ClosingAtEnd
    <3> QED BY <3>1
  <2>3. CASE j < end
    <3>1. \A f \in Nat : P(j + 1, f, e)
      <4>1. j + 1 \in j + 1 .. end
        BY <2>1, <2>3
      <4>2. j + 1 \in T
        BY <1>1, <4>1
      <4> HIDE DEF P
      <4> QED BY <4>2
    <3>2. \A f \in Nat : Closing(s, j, end, f) = Onward(s, j, end, f)
      BY <2>1, <2>3, ClosingOn
    <3>3. CASE At(s, j) \in Openers
      <4>1. d + 1 \in Nat /\ (d + 1) + e + 1 = (d + e + 1) + 1
        OBVIOUS
      <4>2. P(j + 1, d + 1, e)
        BY <3>1, <4>1
      <4> QED BY <2>1, <3>2, <3>3, <4>1, <4>2 DEF Onward
    <3>4. CASE At(s, j) \notin Openers /\ At(s, j) \notin Closers
      <4>1. P(j + 1, d, e)
        BY <3>1
      <4> QED BY <2>1, <3>2, <3>4, <4>1 DEF Onward
    <3>5. CASE At(s, j) \notin Openers /\ At(s, j) \in Closers /\ d # 0
      <4>1. d - 1 \in Nat /\ (d - 1) + e + 1 = (d + e + 1) - 1
        BY <3>5
      <4>2. P(j + 1, d - 1, e)
        BY <3>1, <4>1
      <4>3. Closing(s, j, end, d) = Closing(s, j + 1, end, d - 1)
        BY <3>2, <3>5 DEF Onward
      <4>4. Closing(s, j, end, d + e + 1) = Closing(s, j + 1, end, (d + e + 1) - 1)
        BY <2>1, <3>2, <3>5 DEF Onward
      <4> QED BY <4>1, <4>2, <4>3, <4>4
    <3>6. CASE At(s, j) \notin Openers /\ At(s, j) \in Closers /\ d = 0
      <4>1. Closing(s, j, end, d) = j
        BY <3>2, <3>6 DEF Onward
      <4>2. Closing(s, j, end, d + e + 1) = Closing(s, j + 1, end, (d + e + 1) - 1)
        BY <2>1, <3>2, <3>6 DEF Onward
      <4>3. (d + e + 1) - 1 = e
        BY <3>6
      <4> QED BY <2>3, <4>1, <4>2, <4>3
    <3> QED BY <3>3, <3>4, <3>5, <3>6
  <2> QED BY <2>1, <2>2, <2>3
<1>2. \A j \in 0 .. end : (\A k \in j + 1 .. end : k \in T) => j \in T
  BY <1>1
<1>3. \A j \in 0 .. end : j \in T
  <2> HIDE DEF T
  <2> QED BY <1>2, Downward
<1> QED BY <1>3

\* A scan that ends at c has passed every place before.
LEMMA ClosingPasses ==
  ASSUME NEW s, NEW end \in Nat, NEW a \in 0 .. end
  PROVE  \A j \in 0 .. a : \A d \in Nat :
           Closing(s, j, end, d) >= a => \E e \in Nat : Closing(s, a, end, e) = Closing(s, j, end, d)
<1> DEFINE P(j, d) == Closing(s, j, end, d) >= a =>
                        \E e \in Nat : Closing(s, a, end, e) = Closing(s, j, end, d)
           T == {j \in 0 .. a : \A d \in Nat : P(j, d)}
<1>1. ASSUME NEW j \in 0 .. a, \A k \in j + 1 .. a : k \in T, NEW d \in Nat
      PROVE  P(j, d)
  <2>1. j \in Nat
    OBVIOUS
  <2>2. CASE j = a
    BY <2>2
  <2>3. CASE j < a
    <3>1. \A e \in Nat : P(j + 1, e)
      BY <1>1, <2>1, <2>3
    <3>2. \/ Closing(s, j, end, d) = j
          \/ \E e \in Nat : Closing(s, j, end, d) = Closing(s, j + 1, end, e)
      BY <2>1, <2>3, ClosingStep
    <3> QED BY <2>1, <2>3, <3>1, <3>2
  <2> QED BY <2>1, <2>2, <2>3
<1>2. \A j \in 0 .. a : (\A k \in j + 1 .. a : k \in T) => j \in T
  BY <1>1
<1>3. \A j \in 0 .. a : j \in T
  <2>1. a \in Nat
    OBVIOUS
  <2> HIDE DEF T
  <2> QED BY <1>2, <2>1, Downward
<1> QED BY <1>3

\* t is s with s[a .. b - 1] replaced by m tokens.
Shift(i, a, b, m) == i - b + a + m
Replaced(s, t, a, b, m) ==
    /\ a \in Nat /\ b \in Nat /\ m \in Nat /\ 0 < a /\ a < b /\ 1 < m
    /\ \A i \in Nat : i < a => At(t, i) = At(s, i) /\ (At(s, i) = "str" => t[i] = s[i])
    /\ \A i \in Nat : i >= b => At(t, Shift(i, a, b, m)) = At(s, i)

\* Behind the array, t is scanned as s is.
LEMMA ClosingBehind ==
  ASSUME NEW s, NEW t, NEW a, NEW b, NEW m, Replaced(s, t, a, b, m), NEW end \in Nat, b <= end
  PROVE  \A j \in b .. end : \A d \in Nat :
           Closing(t, Shift(j, a, b, m), Shift(end, a, b, m), d) = Shift(Closing(s, j, end, d), a, b, m)
<1> DEFINE S(i) == i - b + a + m
           P(j, d) == Closing(t, S(j), S(end), d) = S(Closing(s, j, end, d))
           T == {j \in 0 .. end : j >= b => \A d \in Nat : P(j, d)}
<1>0. /\ a \in Nat /\ b \in Nat /\ m \in Nat
      /\ S(end) \in Nat /\ \A i \in Nat : S(i) = Shift(i, a, b, m) /\ (i >= b => At(t, S(i)) = At(s, i))
  BY DEF Replaced, Shift
<1>1. ASSUME NEW j \in 0 .. end, \A k \in j + 1 .. end : k \in T, j >= b, NEW d \in Nat
      PROVE  P(j, d)
  <2>1. j \in Nat /\ S(j) \in Nat
    BY <1>0, <1>1
  <2>2. CASE j = end
    <3>1. Closing(s, end, end, d) = end /\ Closing(t, S(end), S(end), d) = S(end)
      BY <1>0, ClosingAtEnd
    <3> QED BY <2>2, <3>1
  <2>3. CASE j < end
    <3>1. \A e \in Nat : P(j + 1, e)
      <4>1. j + 1 \in j + 1 .. end /\ j + 1 >= b
        BY <1>0, <1>1, <2>1, <2>3
      <4>2. j + 1 \in T
        BY <1>1, <4>1
      <4> HIDE DEF P
      <4> QED BY <4>1, <4>2
    <3>2. \A e \in Nat : Closing(s, j, end, e) = Onward(s, j, end, e)
      BY <2>1, <2>3, ClosingOn
    <3>3. \A e \in Nat : Closing(t, S(j), S(end), e) = Onward(t, S(j), S(end), e)
      <4>1. S(j) < S(end)
        BY <1>0, <2>1, <2>3
      <4> HIDE DEF S
      <4> QED BY <1>0, <2>1, <4>1, ClosingOn
    <3>4. At(t, S(j)) = At(s, j) /\ S(j) + 1 = S(j + 1)
      BY <1>0, <1>1, <2>1
    <3>5. d + 1 \in Nat /\ (d # 0 => d - 1 \in Nat)
      OBVIOUS
    <3> HIDE DEF S
    <3> QED BY <3>1, <3>2, <3>3, <3>4, <3>5 DEF Onward
  <2> QED BY <2>1, <2>2, <2>3
<1>2. \A j \in 0 .. end : (\A k \in j + 1 .. end : k \in T) => j \in T
  BY <1>1
<1>3. \A j \in 0 .. end : j \in T
  <2> HIDE DEF T
  <2> QED BY <1>2, Downward
<1>4. SUFFICES ASSUME NEW j \in b .. end, NEW d \in Nat
               PROVE  Closing(t, Shift(j, a, b, m), Shift(end, a, b, m), d)
                        = Shift(Closing(s, j, end, d), a, b, m)
  OBVIOUS
<1>5. P(j, d)
  BY <1>0, <1>3
<1> QED BY <1>5 DEF Shift

\* Both arrays are closed in themselves: a scan that comes to one goes on behind it.
Skipped(s, a, b, end) == \A d \in Nat : Closing(s, a, end, d) = Closing(s, b, end, d)

\* A scan from before the array ends in t where it ends in s, before or behind it.
LEMMA ClosingThrough ==
  ASSUME NEW s, NEW t, NEW a, NEW b, NEW m, Replaced(s, t, a, b, m), NEW end \in Nat, b <= end,
         Skipped(s, a, b, end), Skipped(t, a, a + m, Shift(end, a, b, m))
  PROVE  \A j \in 0 .. a : \A d \in Nat :
           LET c == Closing(s, j, end, d) IN
           IF c < a THEN Closing(t, j, Shift(end, a, b, m), d) = c
           ELSE c >= b /\ Closing(t, j, Shift(end, a, b, m), d) = Shift(c, a, b, m)
<1> DEFINE to == Shift(end, a, b, m)
           P(j, d) == IF Closing(s, j, end, d) < a
                      THEN Closing(t, j, to, d) = Closing(s, j, end, d)
                      ELSE /\ Closing(s, j, end, d) >= b
                           /\ Closing(t, j, to, d) = Shift(Closing(s, j, end, d), a, b, m)
           T == {j \in 0 .. a : \A d \in Nat : P(j, d)}
<1>0. /\ a \in Nat /\ b \in Nat /\ m \in Nat /\ a < b
      /\ to \in Nat /\ a < to /\ Shift(b, a, b, m) = a + m
      /\ \A i \in Nat : i < a => At(t, i) = At(s, i)
  BY DEF Replaced, Shift
<1>1. ASSUME NEW j \in 0 .. a, \A k \in j + 1 .. a : k \in T, NEW d \in Nat
      PROVE  P(j, d)
  <2>1. j \in Nat
    OBVIOUS
  <2>2. CASE j = a
    <3>1. Closing(s, a, end, d) = Closing(s, b, end, d)
      BY DEF Skipped
    <3>2. Closing(s, b, end, d) \in b .. end
      BY <1>0, ClosingRange
    <3>3. Closing(t, a, to, d) = Closing(t, a + m, to, d)
      BY DEF Skipped
    <3>4. Closing(t, a + m, to, d) = Shift(Closing(s, b, end, d), a, b, m)
      <4>1. b \in b .. end
        BY <1>0
      <4> QED BY <1>0, <4>1, ClosingBehind
    <3> HIDE DEF to
    <3> QED BY <1>0, <2>2, <3>1, <3>2, <3>3, <3>4
  <2>3. CASE j < a
    <3>1. \A e \in Nat : P(j + 1, e)
      <4>1. j + 1 \in j + 1 .. a
        BY <1>0, <2>1, <2>3
      <4>2. j + 1 \in T
        BY <1>1, <4>1
      <4> HIDE DEF P
      <4> QED BY <4>2
    <3>2. \A e \in Nat : Closing(s, j, end, e) = Onward(s, j, end, e)
      BY <1>0, <2>1, <2>3, ClosingOn
    <3>3. \A e \in Nat : Closing(t, j, to, e) = Onward(t, j, to, e)
      <4> HIDE DEF to
      <4>1. j < to
        BY <1>0, <2>1, <2>3
      <4> QED BY <1>0, <2>1, <4>1, ClosingOn
    <3>4. At(t, j) = At(s, j)
      BY <1>0, <2>1, <2>3
    <3>5. d + 1 \in Nat /\ (d # 0 => d - 1 \in Nat)
      OBVIOUS
    <3> HIDE DEF to
    <3> QED BY <2>1, <2>3, <3>1, <3>2, <3>3, <3>4, <3>5 DEF Onward
  <2> QED BY <1>0, <2>1, <2>2, <2>3
<1>2. \A j \in 0 .. a : (\A k \in j + 1 .. a : k \in T) => j \in T
  BY <1>1
<1>3. \A j \in 0 .. a : j \in T
  <2> HIDE DEF T
  <2> QED BY <1>0, <1>2, Downward
<1> QED BY <1>3

\* The value that holds the array, or the array itself, is found in t where it is in s.
LEMMA SpanThrough ==
  ASSUME NEW s, NEW t, NEW a, NEW b, NEW m, Replaced(s, t, a, b, m), NEW end \in Nat, b <= end,
         Skipped(s, a, b, end), Skipped(t, a, a + m, Shift(end, a, b, m)),
         NEW from \in Nat, from < a, NEW q, q = ValueSpan(s, from, end), q # NoSpan, q.to >= b
  PROVE  ValueSpan(t, from, Shift(end, a, b, m)) = [from |-> from, to |-> Shift(q.to, a, b, m)]
<1> DEFINE to == Shift(end, a, b, m)
<1>0. /\ a \in Nat /\ b \in Nat /\ m \in Nat /\ a < b /\ from < end /\ from \in 0 .. end
      /\ to \in Nat /\ from < to /\ At(t, from) = At(s, from)
  BY DEF Replaced, Shift
<1>1. q.to \in from + 1 .. end /\ q = [from |-> from, to |-> q.to]
  BY <1>0, ValueSpanRange
<1>2. At(s, from) # "str" /\ At(s, from) \in Openers /\ q.to = ValueEnd(s, from, end)
  <2>1. At(s, from) = "str" => q.to = from + 1
    BY <1>0 DEF ValueSpan
  <2>2. At(s, from) # "str"
    BY <1>0, <1>1, <2>1
  <2>3. At(s, from) \in Openers
    BY <1>0, <2>2 DEF ValueSpan
  <2>4. q = [from |-> from, to |-> ValueEnd(s, from, end)]
    BY <1>0, <2>2, <2>3 DEF ValueSpan
  <2> QED BY <2>2, <2>3, <2>4
<1> DEFINE c == Closing(s, from + 1, end, 0)
<1>3. c \in from + 1 .. end
  BY <1>0, ClosingRange
<1>4. q.to = IF c < end THEN c + 1 ELSE end
  BY <1>2 DEF ValueEnd
<1>5. c >= a
  BY <1>0, <1>3, <1>4
<1>6. c >= b /\ Closing(t, from + 1, to, 0) = Shift(c, a, b, m)
  <2>1. from + 1 \in 0 .. a
    BY <1>0
  <2>2. ~(c < a)
    BY <1>0, <1>3, <1>5
  <2> HIDE DEF to
  <2> QED BY <1>0, <2>1, <2>2, ClosingThrough DEF to
<1>7. ValueEnd(t, from, to) = Shift(q.to, a, b, m)
  <2>1. ValueEnd(t, from, to) = IF Shift(c, a, b, m) < to THEN Shift(c, a, b, m) + 1 ELSE to
    BY <1>6 DEF ValueEnd
  <2>2. Shift(c, a, b, m) < to <=> c < end
    BY <1>0, <1>3 DEF Shift
  <2>3. Shift(c + 1, a, b, m) = Shift(c, a, b, m) + 1
    BY <1>0, <1>3 DEF Shift
  <2> HIDE DEF to, c
  <2> QED BY <1>4, <2>1, <2>2, <2>3 DEF to
<1> HIDE DEF to, c
<1>8. ValueSpan(t, from, to) = [from |-> from, to |-> ValueEnd(t, from, to)]
  BY <1>0, <1>2 DEF ValueSpan
<1> QED BY <1>7, <1>8 DEF to

\* So is each key on the way to it, and what is skipped before it is the same.
LEMMA FindThrough ==
  ASSUME NEW s, NEW t, NEW a, NEW b, NEW m, Replaced(s, t, a, b, m), NEW end \in Nat, b <= end,
         Skipped(s, a, b, end), Skipped(t, a, a + m, Shift(end, a, b, m)),
         NEW key, NEW q, q # NoSpan, q.from <= a,
         ValueSpan(t, q.from, Shift(end, a, b, m)) = [from |-> q.from, to |-> Shift(q.to, a, b, m)]
  PROVE  \A i \in 0 .. end : FindValueRange(s, i, end, key) = q =>
           FindValueRange(t, i, Shift(end, a, b, m), key) = [from |-> q.from, to |-> Shift(q.to, a, b, m)]
<1> DEFINE to == Shift(end, a, b, m)
           P(i) == FindValueRange(s, i, end, key) = q =>
                     FindValueRange(t, i, to, key) = [from |-> q.from, to |-> Shift(q.to, a, b, m)]
           T == {i \in 0 .. end : P(i)}
<1>0. /\ a \in Nat /\ b \in Nat /\ m \in Nat /\ 0 < a /\ a < b
      /\ to \in Nat /\ a < to
      /\ \A i \in Nat : i < a => At(t, i) = At(s, i) /\ (At(s, i) = "str" => t[i] = s[i])
  BY DEF Replaced, Shift
<1>1. ASSUME NEW i \in 0 .. end, \A k \in i + 1 .. end : k \in T, FindValueRange(s, i, end, key) = q
      PROVE  FindValueRange(t, i, to, key) = [from |-> q.from, to |-> Shift(q.to, a, b, m)]
  <2> HIDE DEF to
  <2>1. Holds(s, i, end, key, q)
    BY <1>1, FindRange
  <2>2. i \in Nat /\ i + 2 <= q.from /\ i + 1 < a /\ i < end /\ i < to /\ i + 1 < to /\ i + 1 < end
    BY <1>0, <2>1 DEF Holds
  <2>3. At(t, i) = At(s, i) /\ At(t, i + 1) = At(s, i + 1) /\ (At(s, i) = "str" => t[i] = s[i])
    BY <1>0, <2>2
  <2>4. IsKey(t, i, to) <=> IsKey(s, i, end)
    BY <2>2, <2>3 DEF IsKey
  <2>5. ASSUME NEW k \in Nat, k > i, FindValueRange(s, k, end, key) = q
        PROVE  FindValueRange(t, k, to, key) = [from |-> q.from, to |-> Shift(q.to, a, b, m)]
    <3>1. k < end
      BY <2>5, FindStep
    <3>2. k \in T
      BY <1>1, <2>2, <2>5, <3>1
    <3> QED BY <2>5, <3>2
  <2>6. CASE ~IsKey(s, i, end)
    <3> DEFINE k == IF At(s, i) = "str" THEN i + 2 ELSE i + 1
    <3>1. FindValueRange(s, k, end, key) = q
      BY <1>1, <2>2, <2>6, FindStep
    <3>2. FindValueRange(t, i, to, key) = FindValueRange(t, k, to, key)
      <4>1. FindValueRange(t, i, to, key)
              = FindValueRange(t, IF At(t, i) = "str" THEN i + 2 ELSE i + 1, to, key)
        BY <1>0, <2>2, <2>4, <2>6, FindStep
      <4> QED BY <2>3, <4>1
    <3>3. k \in Nat /\ k > i
      BY <2>2
    <3> HIDE DEF k
    <3> QED BY <2>5, <3>1, <3>2, <3>3
  <2>7. CASE IsKey(s, i, end) /\ s[i].v # key
    <3> DEFINE k == SkipValue(s, i + 2, end)
    <3>1. FindValueRange(s, k, end, key) = q
      BY <1>1, <2>2, <2>7, FindStep
    <3>2. i + 2 \in 0 .. end
      BY <2>2
    <3>3. k \in i + 2 .. end
      BY <3>2, SkipRange
    <3>4. k < a
      <4>1. k \in 0 .. end
        BY <2>2, <3>3
      <4> HIDE DEF k
      <4>2. Holds(s, k, end, key, q)
        BY <3>1, <4>1, FindRange
      <4> QED BY <1>0, <4>1, <4>2 DEF Holds
    <3>5. SkipValue(t, i + 2, to) = k
      <4>1. i + 2 < a /\ i + 2 < to /\ i + 2 < end
        BY <1>0, <2>2, <3>3, <3>4
      <4>2. At(t, i + 2) = At(s, i + 2)
        BY <1>0, <2>2, <4>1
      <4>3. CASE At(s, i + 2) = "str"
        BY <4>1, <4>2, <4>3 DEF SkipValue
      <4>4. CASE At(s, i + 2) # "str"
        <5>1. k = Closing(s, i + 2, end, 0)
          BY <4>4 DEF SkipValue
        <5>2. i + 2 \in 0 .. a
          BY <1>0, <2>2, <4>1
        <5> HIDE DEF k
        <5>3. Closing(t, i + 2, to, 0) = k
          BY <3>4, <5>1, <5>2, ClosingThrough DEF to
        <5> QED BY <4>2, <4>4, <5>3 DEF SkipValue
      <4> QED BY <4>3, <4>4
    <3>6. FindValueRange(t, i, to, key) = FindValueRange(t, k, to, key)
      <4>1. t[i].v # key
        BY <2>3, <2>7 DEF IsKey
      <4> HIDE DEF k
      <4> QED BY <1>0, <2>2, <2>4, <2>7, <3>5, <4>1, FindStep
    <3> HIDE DEF k
    <3> QED BY <2>2, <2>5, <3>1, <3>3, <3>6
  <2>8. CASE IsKey(s, i, end) /\ s[i].v = key
    <3>1. q = ValueSpan(s, i + 2, end)
      BY <1>1, <2>2, <2>8, FindStep
    <3>2. q.from = i + 2
      <4>1. i + 2 \in 0 .. end
        BY <2>2
      <4>2. q = [from |-> i + 2, to |-> q.to]
        BY <3>1, <4>1, ValueSpanRange
      <4> QED BY <4>2
    <3>3. t[i].v = key
      BY <2>3, <2>8 DEF IsKey
    <3>4. FindValueRange(t, i, to, key) = ValueSpan(t, i + 2, to)
      BY <1>0, <2>2, <2>4, <2>8, <3>3, FindStep
    <3> QED BY <3>2, <3>4 DEF to
  <2> QED BY <2>6, <2>7, <2>8
<1>2. \A i \in 0 .. end : (\A k \in i + 1 .. end : k \in T) => i \in T
  BY <1>1
<1>3. \A i \in 0 .. end : i \in T
  <2> HIDE DEF T
  <2> QED BY <1>2, Downward
<1> QED BY <1>3

\* ClosingDeeper for one bracket.
LEMMA ClosingNext ==
  ASSUME NEW s, NEW end \in Nat, NEW j \in 0 .. end, NEW e \in Nat
  PROVE  Closing(s, j, end, e + 1) =
           IF Closing(s, j, end, 0) < end THEN Closing(s, Closing(s, j, end, 0) + 1, end, e) ELSE end
<1>1. 0 + e + 1 = e + 1
  OBVIOUS
<1>2. Closing(s, j, end, 0 + e + 1) =
        IF Closing(s, j, end, 0) < end THEN Closing(s, Closing(s, j, end, 0) + 1, end, e) ELSE end
  BY ClosingDeeper
<1> QED BY <1>1, <1>2

\* A scan goes on behind an array that is closed, or that ends with the text.
LEMMA SkippedIn ==
  ASSUME NEW s, NEW end \in Nat, NEW e \in 0 .. end, NEW a \in Nat, a < e, At(s, a) \in Openers,
         Closing(s, a + 1, e, 0) < e \/ e = end
  PROVE  Skipped(s, a, ValueEnd(s, a, e), end)
<1> DEFINE c == Closing(s, a + 1, e, 0)
           b == ValueEnd(s, a, e)
<1>0. a + 1 \in 0 .. e /\ a + 1 \in 0 .. end /\ a < end /\ e \in Nat
  OBVIOUS
<1>1. c \in a + 1 .. e
  BY <1>0, ClosingRange
<1>2. SUFFICES ASSUME NEW d \in Nat PROVE Closing(s, a, end, d) = Closing(s, b, end, d)
  BY DEF Skipped
<1>3. Closing(s, a, end, d) = Closing(s, a + 1, end, d + 1)
  BY <1>0, ClosingOn DEF Onward
<1>4. Closing(s, a + 1, end, d + 1) =
        IF Closing(s, a + 1, end, 0) < end THEN Closing(s, Closing(s, a + 1, end, 0) + 1, end, d) ELSE end
  BY <1>0, ClosingNext
<1>5. CASE c < e
  <2>1. Closing(s, a + 1, end, 0) = c
    BY <1>0, <1>5, ClosingKept
  <2>2. b = c + 1
    BY <1>5 DEF ValueEnd
  <2>3. c < end
    BY <1>0, <1>1, <1>5
  <2> HIDE DEF b, c
  <2> QED BY <1>3, <1>4, <2>1, <2>2, <2>3
<1>6. CASE ~(c < e)
  <2>1. c = end /\ e = end
    BY <1>1, <1>6
  <2>2. b = end
    BY <1>6, <2>1 DEF ValueEnd
  <2>3. Closing(s, a + 1, end, 0) = end
    BY <2>1
  <2>4. Closing(s, end, end, d) = end
    BY ClosingAtEnd
  <2>5. ~(end < end)
    OBVIOUS
  <2> HIDE DEF b, c
  <2> QED BY <1>3, <1>4, <2>2, <2>3, <2>4, <2>5
<1> QED BY <1>5, <1>6

\* An array without an end in a value that has one would have its end there.
LEMMA UnclosedOuter ==
  ASSUME NEW s, NEW end \in Nat, NEW f \in Nat, NEW a \in Nat, NEW to \in Nat, f < a, a < to, to <= end,
         to = ValueEnd(s, f, end), At(s, a) \in Openers, ~(Closing(s, a + 1, to, 0) < to)
  PROVE  to = end
<1> DEFINE c == Closing(s, f + 1, end, 0)
           x == Closing(s, a + 1, end, 0)
<1>0. f + 1 \in 0 .. a /\ f + 1 \in 0 .. end /\ a \in 0 .. end /\ a + 1 \in 0 .. to /\ a + 1 \in 0 .. end /\ a < end
  OBVIOUS
<1> SUFFICES ASSUME c < end PROVE FALSE
  BY DEF ValueEnd
<1>1. to = c + 1
  BY DEF ValueEnd
<1>2. c \in f + 1 .. end
  BY <1>0, ClosingRange
<1>3. c >= a
  BY <1>1, <1>2
<1>4. PICK e \in Nat : Closing(s, a, end, e) = c
  BY <1>0, <1>3, ClosingPasses
<1>5. Closing(s, a + 1, end, e + 1) = c
  BY <1>0, <1>4, ClosingOn DEF Onward
<1>6. Closing(s, a + 1, end, e + 1) = IF x < end THEN Closing(s, x + 1, end, e) ELSE end
  BY <1>0, ClosingNext
<1>7. x \in a + 1 .. end
  BY <1>0, ClosingRange
<1>8. x < end /\ Closing(s, x + 1, end, e) = c
  BY <1>2, <1>5, <1>6
<1>9. x + 1 <= c
  <2>1. x + 1 \in 0 .. end
    BY <1>7, <1>8
  <2>2. Closing(s, x + 1, end, e) \in x + 1 .. end
    BY <2>1, ClosingRange
  <2> QED BY <1>7, <1>8, <2>2
<1>10. x < to
  BY <1>1, <1>2, <1>7, <1>9
<1>11. Closing(s, a + 1, to, 0) = x
  BY <1>0, <1>10, ClosingKept
<1> QED BY <1>10, <1>11

\* t[a .. a + m - 1] is the array of items.
Size(items) == IF Len(items) = 0 THEN 2 ELSE 2 * Len(items) + 1
\* A string at one place, and the array of items from a place on.
IsString(t, i, x) == At(t, i) = "str" /\ t[i].v = x
Listed(t, a, items) ==
    /\ At(t, a) = "["
    /\ \A k \in 1 .. Len(items) : IsString(t, a + 2 * k - 1, items[k])
    /\ \A k \in 1 .. Len(items) - 1 : At(t, a + 2 * k) = ","
    /\ At(t, a + Size(items) - 1) = "]"

\* Between the brackets of the new array there is no bracket.
LEMMA ListedFlat ==
  ASSUME NEW t, NEW a \in Nat, NEW items, Len(items) \in Nat, Listed(t, a, items)
  PROVE  \A j \in a + 1 .. a + Size(items) - 2 : At(t, j) \in {"str", ","}
<1>1. SUFFICES ASSUME NEW j \in a + 1 .. a + Size(items) - 2 PROVE At(t, j) \in {"str", ","}
  OBVIOUS
<1>2. Len(items) > 0 /\ j \in a + 1 .. a + 2 * Len(items) - 1
  BY DEF Size
<1>3. PICK k \in Nat : j = a + 2 * k - 1 \/ j = a + 2 * k
  <2>1. \E k \in Nat : j - a = 2 * k - 1 \/ j - a = 2 * k
    <3> DEFINE n == j - a
    <3>1. n \in Nat
      BY <1>2
    <3>2. \A n1 \in Nat : \E k \in Nat : n1 = 2 * k - 1 \/ n1 = 2 * k
      <4>1. SUFFICES ASSUME NEW n1 \in Nat PROVE \E k \in Nat : n1 = 2 * k - 1 \/ n1 = 2 * k
        OBVIOUS
      <4>2. (n1 + 1) \div 2 \in Nat /\ (n1 = 2 * ((n1 + 1) \div 2) - 1 \/ n1 = 2 * ((n1 + 1) \div 2))
        OBVIOUS
      <4> QED BY <4>2
    <3> QED BY <3>1, <3>2
  <2> QED BY <1>2, <2>1
<1>4. CASE j = a + 2 * k - 1
  <2>1. k \in 1 .. Len(items)
    BY <1>2, <1>4
  <2> QED BY <1>4, <2>1 DEF Listed, IsString
<1>5. CASE j = a + 2 * k
  <2>1. k \in 1 .. Len(items) - 1
    BY <1>2, <1>5
  <2> QED BY <1>5, <2>1 DEF Listed
<1> QED BY <1>3, <1>4, <1>5

\* The new array ends with its own bracket, wherever the scan ends.
LEMMA ListedClosed ==
  ASSUME NEW t, NEW a \in Nat, NEW items, Len(items) \in Nat, Listed(t, a, items),
         NEW end \in Nat, a + Size(items) <= end
  PROVE  /\ ValueEnd(t, a, end) = a + Size(items)
         /\ Skipped(t, a, a + Size(items), end)
<1> DEFINE last == a + Size(items) - 1
           T == {j \in 0 .. last : j > a => Closing(t, j, end, 0) = last}
<1>0. last \in Nat /\ last < end /\ a < last /\ a + Size(items) = last + 1 /\ At(t, last) = "]"
  <2>1. Size(items) \in Nat /\ Size(items) > 1
    BY DEF Size
  <2>2. At(t, last) = "]"
    BY DEF Listed
  <2>3. last \in Nat /\ last < end /\ a < last /\ a + Size(items) = last + 1
    BY <2>1
  <2> QED BY <2>2, <2>3
<1>1. ASSUME NEW j \in 0 .. last, \A k \in j + 1 .. last : k \in T, j > a
      PROVE  Closing(t, j, end, 0) = last
  <2>1. CASE j = last
    <3>1. At(t, j) \notin Openers /\ At(t, j) \in Closers
      BY <1>0, <2>1 DEF Openers, Closers
    <3> HIDE DEF last
    <3>2. Closing(t, j, end, 0) = Onward(t, j, end, 0)
      BY <1>0, <2>1, ClosingOn
    <3> QED BY <2>1, <3>1, <3>2 DEF Onward
  <2>2. CASE j < last
    <3>1. At(t, j) \in {"str", ","}
      <4>1. j \in a + 1 .. a + Size(items) - 2
        <5>1. Size(items) \in Nat
          BY DEF Size
        <5> QED BY <5>1, <1>1, <2>2
      <4> QED BY <4>1, ListedFlat
    <3>2. At(t, j) \notin Openers /\ At(t, j) \notin Closers
      BY <3>1 DEF Openers, Closers
    <3> HIDE DEF last
    <3>3. Closing(t, j, end, 0) = Onward(t, j, end, 0)
      BY <1>0, <2>2, ClosingOn
    <3>4. Closing(t, j + 1, end, 0) = last
      BY <1>0, <1>1, <2>2
    <3> QED BY <3>2, <3>3, <3>4 DEF Onward
  <2> QED BY <1>0, <2>1, <2>2
<1>2. \A j \in 0 .. last : (\A k \in j + 1 .. last : k \in T) => j \in T
  BY <1>1
<1>3. \A j \in 0 .. last : j \in T
  <2> HIDE DEF T, last
  <2> QED BY <1>0, <1>2, Downward
<1>4. Closing(t, a + 1, end, 0) = last
  <2>1. a + 1 \in 0 .. last /\ a + 1 > a
    BY <1>0
  <2> QED BY <1>3, <2>1
<1>5. ValueEnd(t, a, end) = last + 1
  <2> HIDE DEF last
  <2> QED BY <1>0, <1>4 DEF ValueEnd
<1>6. Skipped(t, a, ValueEnd(t, a, end), end)
  <2>1. At(t, a) \in Openers
    BY DEF Listed, Openers
  <2>2. end \in 0 .. end /\ a < end
    BY <1>0
  <2> QED BY <2>1, <2>2, SkippedIn
<1> QED BY <1>0, <1>5, <1>6

\* The tokens of a text whose strings and literals are in X.
Token(X) == [t : {"{", "}", "[", "]", ",", ":"}] \cup [t : {"str", "lit"}, v : X]
            \cup [t : {"num"}, m : Nat, e : Int]

\* What a token can be.
LEMMA TokenOf ==
  ASSUME NEW X
  PROVE  /\ \A m \in {"{", "}", "[", "]", ",", ":"} : Mark(m) \in Token(X) /\ Mark(m).t = m
         /\ \A x \in X : Str(x) \in Token(X) /\ Str(x).t = "str" /\ Str(x).v = x
         /\ \A k \in Token(X) : k.t \in {"{", "}", "[", "]", ",", ":", "str", "lit", "num"}
         /\ \A k \in Token(X) : k.t = "str" => k.v \in X
<1>1. \A m \in {"{", "}", "[", "]", ",", ":"} : Mark(m) \in Token(X) /\ Mark(m).t = m
  BY DEF Token, Mark
<1>2. ASSUME NEW x \in X PROVE Str(x) \in Token(X) /\ Str(x).t = "str" /\ Str(x).v = x
  <2>1. [t |-> "str", v |-> x] \in [t : {"str", "lit"}, v : X]
    OBVIOUS
  <2> QED BY <2>1 DEF Token, Str
<1>3. \A k \in Token(X) : k.t \in {"{", "}", "[", "]", ",", ":", "str", "lit", "num"}
  BY DEF Token
<1>4. \A k \in Token(X) : k.t = "str" => k.v \in X
  BY DEF Token
<1> QED BY <1>1, <1>2, <1>3, <1>4

\* A sequence of one.
LEMMA Single ==
  ASSUME NEW S, NEW x \in S
  PROVE  <<x>> \in Seq(S) /\ Len(<<x>>) = 1 /\ <<x>>[1] = x
  OBVIOUS

\* w is x, y and z in this order.
InOrder(w, x, y, z) ==
    /\ Len(w) = Len(x) + Len(y) + Len(z)
    /\ \A i \in 1 .. Len(x) : w[i] = x[i]
    /\ \A i \in 1 .. Len(y) : w[Len(x) + i] = y[i]
    /\ \A i \in 1 .. Len(z) : w[Len(x) + Len(y) + i] = z[i]

\* Three sequences one after the other.
LEMMA Joined ==
  ASSUME NEW S, NEW x \in Seq(S), NEW y \in Seq(S), NEW z \in Seq(S)
  PROVE  x \o y \o z \in Seq(S) /\ InOrder(x \o y \o z, x, y, z)
<1> DEFINE w == x \o y
<1>1. w \in Seq(S) /\ Len(w) = Len(x) + Len(y) /\ Len(x) \in Nat /\ Len(y) \in Nat
  OBVIOUS
<1>2. \A i \in 1 .. Len(x) : w[i] = x[i]
  OBVIOUS
<1>3. \A i \in 1 .. Len(y) : w[Len(x) + i] = y[i]
  OBVIOUS
<1> HIDE DEF w
<1>4. w \o z \in Seq(S) /\ Len(w \o z) = Len(w) + Len(z)
  BY <1>1, ConcatProperties
<1>5. \A i \in 1 .. Len(w) : (w \o z)[i] = w[i]
  BY <1>1
<1>6. \A i \in 1 .. Len(z) : (w \o z)[Len(w) + i] = z[i]
  BY <1>1
<1>7. \A i \in 1 .. Len(x) : (w \o z)[i] = x[i]
  BY <1>1, <1>2, <1>5
<1>8. \A i \in 1 .. Len(y) : (w \o z)[Len(x) + i] = y[i]
  BY <1>1, <1>3, <1>5
<1>9. \A i \in 1 .. Len(z) : (w \o z)[Len(x) + Len(y) + i] = z[i]
  BY <1>1, <1>6
<1>10. Len(w \o z) = Len(x) + Len(y) + Len(z)
  BY <1>1, <1>4
<1> QED BY <1>4, <1>7, <1>8, <1>9, <1>10 DEF w, InOrder

\* The tokens of the new array, one by one.
LEMMA QuotedParts ==
  ASSUME NEW X, NEW items \in Seq(X)
  PROVE  /\ Quoted(items) \in Seq(Token(X))
         /\ Len(Quoted(items)) = Size(items)
         /\ Quoted(items)[1] = Mark("[") /\ Quoted(items)[Size(items)] = Mark("]")
         /\ \A k \in 1 .. Len(items) : Quoted(items)[2 * k] = Str(items[k])
         /\ \A k \in 1 .. Len(items) - 1 : Quoted(items)[2 * k + 1] = Mark(",")
<1> DEFINE n == Len(items)
           N == IF n = 0 THEN 0 ELSE 2 * n - 1
           body == [k \in 1 .. 2 * n - 1 |->
                      IF k % 2 = 0 THEN Mark(",") ELSE Str(items[(k + 1) \div 2])]
<1>0. n \in Nat /\ N \in Nat
  OBVIOUS
<1>1. 1 .. 2 * n - 1 = 1 .. N
  BY <1>0
<1>a. Mark(",") \in Token(X) /\ Mark("[") \in Token(X) /\ Mark("]") \in Token(X)
  BY TokenOf
<1>b. \A i \in 1 .. n : Str(items[i]) \in Token(X)
  <2> TAKE i \in 1 .. n
  <2>1. items[i] \in X
    OBVIOUS
  <2> QED BY <2>1, TokenOf
<1>2. ASSUME NEW k \in 1 .. N PROVE body[k] \in Token(X)
  <2>1. k % 2 # 0 => (k + 1) \div 2 \in 1 .. n
    BY <1>0
  <2> QED BY <1>1, <1>a, <1>b, <2>1
<1>3. body \in Seq(Token(X)) /\ Len(body) = N
  <2>1. body \in [1 .. N -> Token(X)]
    BY <1>1, <1>2
  <2> HIDE DEF body, N
  <2> QED BY <1>0, <2>1
<1>4. ASSUME NEW k \in 1 .. n PROVE body[2 * k - 1] = Str(items[k])
  <2>1. k \in Nat /\ 2 * k - 1 \in 1 .. 2 * n - 1
    BY <1>0
  <2>2. (2 * k - 1) % 2 # 0 /\ ((2 * k - 1) + 1) \div 2 = k
    BY <2>1
  <2> QED BY <2>1, <2>2
<1>5. ASSUME NEW k \in 1 .. n - 1 PROVE body[2 * k] = Mark(",")
  <2>1. k \in Nat /\ 2 * k \in 1 .. 2 * n - 1
    BY <1>0
  <2>2. (2 * k) % 2 = 0
    BY <2>1
  <2> QED BY <2>1, <2>2
<1>7. Quoted(items) = <<Mark("[")>> \o body \o <<Mark("]")>>
  BY DEF Quoted
<1>8. Size(items) = N + 2
  BY <1>0 DEF Size
<1> HIDE DEF body
<1>9. /\ Quoted(items) \in Seq(Token(X)) /\ Len(Quoted(items)) = N + 2
      /\ Quoted(items)[1] = Mark("[") /\ Quoted(items)[N + 2] = Mark("]")
      /\ \A k \in 1 .. N : Quoted(items)[k + 1] = body[k]
  <2> HIDE DEF N, n
  <2> DEFINE l == <<Mark("[")>>
             r == <<Mark("]")>>
  <2>1. l \in Seq(Token(X)) /\ Len(l) = 1 /\ l[1] = Mark("[")
    BY <1>a, Single
  <2>2. r \in Seq(Token(X)) /\ Len(r) = 1 /\ r[1] = Mark("]")
    BY <1>a, Single
  <2>3. Quoted(items) = l \o body \o r
    BY <1>7
  <2> HIDE DEF l, r
  <2>4. /\ l \o body \o r \in Seq(Token(X)) /\ Len(l \o body \o r) = 1 + N + 1
        /\ (l \o body \o r)[1] = l[1]
        /\ \A k \in 1 .. N : (l \o body \o r)[1 + k] = body[k]
        /\ (l \o body \o r)[1 + N + 1] = r[1]
    <3>1. l \o body \o r \in Seq(Token(X)) /\ InOrder(l \o body \o r, l, body, r)
      BY <1>3, <2>1, <2>2, Joined
    <3> DEFINE w == l \o body \o r
    <3> HIDE DEF w
    <3>2. /\ w \in Seq(Token(X)) /\ Len(w) = 1 + N + 1
          /\ \A i \in 1 .. 1 : w[i] = l[i]
          /\ \A i \in 1 .. N : w[1 + i] = body[i]
          /\ \A i \in 1 .. 1 : w[1 + N + i] = r[i]
      BY <1>3, <2>1, <2>2, <3>1 DEF w, InOrder
    <3>3. w[1] = l[1] /\ w[1 + N + 1] = r[1]
      BY <3>2
    <3> QED BY <3>2, <3>3 DEF w
  <2>5. 1 + N + 1 = N + 2 /\ \A k \in 1 .. N : 1 + k = k + 1
    BY <1>0
  <2> QED BY <2>1, <2>2, <2>3, <2>4, <2>5
<1>10. \A k \in 1 .. n : Quoted(items)[2 * k] = Str(items[k])
  <2> TAKE k \in 1 .. n
  <2>1. 2 * k - 1 \in 1 .. N /\ (2 * k - 1) + 1 = 2 * k
    BY <1>0
  <2> QED BY <1>4, <1>9, <2>1
<1>11. \A k \in 1 .. n - 1 : Quoted(items)[2 * k + 1] = Mark(",")
  <2> TAKE k \in 1 .. n - 1
  <2>1. 2 * k \in 1 .. N
    BY <1>0
  <2> QED BY <1>5, <1>9, <2>1
<1>12. Quoted(items)[Size(items)] = Mark("]") /\ Len(Quoted(items)) = Size(items)
  <2> HIDE DEF N
  <2> QED BY <1>8, <1>9
<1> QED BY <1>9, <1>10, <1>11, <1>12

\* s with the array of items for s[a .. b - 1].
Rewrite(s, a, b, items) == SubSeq(s, 1, a - 1) \o Quoted(items) \o SubSeq(s, b, Len(s))

\* One of s, seen from outside.
LEMMA AtOf ==
  ASSUME NEW X, NEW s \in Seq(Token(X))
  PROVE  /\ \A i \in 1 .. Len(s) : At(s, i) = s[i].t /\ s[i] \in Token(X)
         /\ \A i \in Nat : i = 0 \/ i > Len(s) => At(s, i) = "end"
<1>1. DOMAIN s = 1 .. Len(s) /\ Len(s) \in Nat
  OBVIOUS
<1>2. \A i \in 1 .. Len(s) : s[i] \in Token(X)
  OBVIOUS
<1> QED BY <1>1, <1>2 DEF At

\* The tokens of the new text, one by one.
LEMMA RewriteParts ==
  ASSUME NEW X, NEW s \in Seq(Token(X)), NEW items \in Seq(X),
         NEW a \in Nat, NEW b \in Nat, 0 < a, a < b, b <= Len(s) + 1
  PROVE  LET t == Rewrite(s, a, b, items)
             m == Size(items) IN
         /\ t \in Seq(Token(X)) /\ m \in Nat /\ m > 1
         /\ Len(t) = Shift(Len(s), a, b, m)
         /\ \A i \in 1 .. a - 1 : t[i] = s[i]
         /\ \A i \in 1 .. m : t[a - 1 + i] = Quoted(items)[i]
         /\ \A i \in b .. Len(s) : t[Shift(i, a, b, m)] = s[i]
<1> DEFINE x == SubSeq(s, 1, a - 1)
           y == Quoted(items)
           z == SubSeq(s, b, Len(s))
           w == x \o y \o z
           m == Size(items)
<1>0. Len(s) \in Nat /\ (\A i \in 1 .. Len(s) : s[i] \in Token(X)) /\ m \in Nat /\ m > 1
  <2>1. Len(items) \in Nat
    OBVIOUS
  <2> QED BY <2>1 DEF Size
<1>1. x \in Seq(Token(X)) /\ Len(x) = a - 1 /\ \A i \in 1 .. a - 1 : x[i] = s[i]
  <2>1. \A i \in 1 .. a - 1 : s[i] \in Token(X)
    BY <1>0
  <2>2. /\ SubSeq(s, 1, a - 1) \in Seq(Token(X))
        /\ Len(SubSeq(s, 1, a - 1)) = IF 1 <= a - 1 THEN (a - 1) - 1 + 1 ELSE 0
        /\ \A i \in 1 .. (a - 1) - 1 + 1 : SubSeq(s, 1, a - 1)[i] = s[1 + i - 1]
    <3>1. 1 \in Int /\ a - 1 \in Int
      OBVIOUS
    <3> QED BY <2>1, <3>1, SubSeqProperties
  <2>3. (a - 1) - 1 + 1 = a - 1 /\ \A i \in 1 .. a - 1 : 1 + i - 1 = i
    OBVIOUS
  <2>4. (IF 1 <= a - 1 THEN (a - 1) - 1 + 1 ELSE 0) = a - 1
    OBVIOUS
  <2> HIDE DEF x
  <2> QED BY <2>2, <2>3, <2>4 DEF x
<1>2. z \in Seq(Token(X)) /\ Len(z) = Len(s) - b + 1 /\ \A i \in 1 .. Len(s) - b + 1 : z[i] = s[b + i - 1]
  <2>1. \A i \in b .. Len(s) : s[i] \in Token(X)
    BY <1>0
  <2>2. /\ SubSeq(s, b, Len(s)) \in Seq(Token(X))
        /\ Len(SubSeq(s, b, Len(s))) = IF b <= Len(s) THEN Len(s) - b + 1 ELSE 0
        /\ \A i \in 1 .. Len(s) - b + 1 : SubSeq(s, b, Len(s))[i] = s[b + i - 1]
    BY <1>0, <2>1, SubSeqProperties
  <2>3. (IF b <= Len(s) THEN Len(s) - b + 1 ELSE 0) = Len(s) - b + 1
    BY <1>0
  <2> QED BY <2>2, <2>3
<1>3. y \in Seq(Token(X)) /\ Len(y) = m
  BY QuotedParts
<1> HIDE DEF x, y, z
<1>4. w \in Seq(Token(X)) /\ InOrder(w, x, y, z)
  BY <1>1, <1>2, <1>3, Joined
<1> HIDE DEF w, m
<1>5. /\ Len(w) = a - 1 + m + (Len(s) - b + 1)
      /\ \A i \in 1 .. a - 1 : w[i] = x[i]
      /\ \A i \in 1 .. m : w[a - 1 + i] = y[i]
      /\ \A i \in 1 .. Len(s) - b + 1 : w[a - 1 + m + i] = z[i]
  BY <1>1, <1>2, <1>3, <1>4 DEF InOrder
<1>6. ASSUME NEW i \in b .. Len(s) PROVE w[Shift(i, a, b, m)] = s[i]
  <2>1. i - b + 1 \in 1 .. Len(s) - b + 1
    BY <1>0
  <2>2. a - 1 + m + (i - b + 1) = Shift(i, a, b, m) /\ b + (i - b + 1) - 1 = i
    BY <1>0 DEF Shift
  <2>3. w[a - 1 + m + (i - b + 1)] = z[i - b + 1] /\ z[i - b + 1] = s[b + (i - b + 1) - 1]
    BY <1>2, <1>5, <2>1
  <2> QED BY <2>2, <2>3
<1>7. Len(w) = Shift(Len(s), a, b, m)
  BY <1>0, <1>5 DEF Shift
<1>8. \A i \in 1 .. a - 1 : w[i] = s[i]
  BY <1>1, <1>5
<1>9. w = Rewrite(s, a, b, items)
  BY DEF w, x, y, z, Rewrite
<1> QED BY <1>0, <1>4, <1>5, <1>6, <1>7, <1>8, <1>9 DEF y, m

\* The new text is the old one with the new array in its place.
LEMMA RewriteReplaces ==
  ASSUME NEW X, NEW s \in Seq(Token(X)), NEW items \in Seq(X),
         NEW a \in Nat, NEW b \in Nat, 0 < a, a < b, b <= Len(s) + 1
  PROVE  /\ Replaced(s, Rewrite(s, a, b, items), a, b, Size(items))
         /\ Listed(Rewrite(s, a, b, items), a, items)
<1> DEFINE t == Rewrite(s, a, b, items)
           m == Size(items)
<1>1. /\ t \in Seq(Token(X)) /\ m \in Nat /\ m > 1
      /\ Len(t) = Shift(Len(s), a, b, m)
      /\ \A i \in 1 .. a - 1 : t[i] = s[i]
      /\ \A i \in 1 .. m : t[a - 1 + i] = Quoted(items)[i]
      /\ \A i \in b .. Len(s) : t[Shift(i, a, b, m)] = s[i]
  BY RewriteParts
<1> HIDE DEF t
<1>2. Len(s) \in Nat /\ Len(items) \in Nat
  OBVIOUS
<1>3. /\ \A i \in 1 .. Len(s) : At(s, i) = s[i].t
      /\ \A i \in Nat : i = 0 \/ i > Len(s) => At(s, i) = "end"
  BY AtOf
<1>4. /\ \A i \in 1 .. Len(t) : At(t, i) = t[i].t
      /\ \A i \in Nat : i = 0 \/ i > Len(t) => At(t, i) = "end"
  BY <1>1, AtOf
<1>5. ASSUME NEW i \in Nat, i < a
      PROVE  At(t, i) = At(s, i) /\ (At(s, i) = "str" => t[i] = s[i])
  <2>1. CASE i = 0
    BY <1>3, <1>4, <2>1
  <2>2. CASE i # 0
    <3>1. i \in 1 .. a - 1 /\ i \in 1 .. Len(s) /\ i \in 1 .. Len(t)
      <4> HIDE DEF m
      <4> QED BY <1>1, <1>2, <1>5, <2>2 DEF Shift
    <3> QED BY <1>1, <1>3, <1>4, <3>1
  <2> QED BY <2>1, <2>2
<1>6. ASSUME NEW i \in Nat, i >= b PROVE At(t, Shift(i, a, b, m)) = At(s, i)
  <2> DEFINE j == Shift(i, a, b, m)
  <2>0. j \in Nat /\ j > 0 /\ Len(t) \in Nat
    <3> HIDE DEF m
    <3> QED BY <1>1, <1>2, <1>6 DEF Shift
  <2>1. CASE i <= Len(s)
    <3>1. j \in 1 .. Len(t) /\ i \in 1 .. Len(s) /\ i \in b .. Len(s)
      <4> HIDE DEF m
      <4> QED BY <1>1, <1>2, <1>6, <2>1 DEF Shift
    <3>2. t[j] = s[i]
      BY <1>1, <3>1
    <3> HIDE DEF j
    <3>3. At(t, j) = At(s, i)
      BY <1>3, <1>4, <3>1, <3>2
    <3> QED BY <3>3 DEF j
  <2>2. CASE i > Len(s)
    <3>1. j > Len(t)
      <4> HIDE DEF m
      <4> QED BY <1>1, <1>2, <1>6, <2>2 DEF Shift
    <3> HIDE DEF j
    <3>2. At(t, j) = "end" /\ At(s, i) = "end"
      BY <1>3, <1>4, <2>0, <2>2, <3>1
    <3> QED BY <3>2 DEF j
  <2> QED BY <1>2, <2>1, <2>2
<1>7. Replaced(s, t, a, b, m)
  <2> HIDE DEF m
  <2> QED BY <1>1, <1>5, <1>6 DEF Replaced
<1>8. \A k \in 1 .. m : a - 1 + k \in 1 .. Len(t) /\ At(t, a - 1 + k) = Quoted(items)[k].t
                        /\ t[a - 1 + k] = Quoted(items)[k]
  <2> TAKE k \in 1 .. m
  <2>1. a - 1 + k \in 1 .. Len(t)
    <3> HIDE DEF m
    <3> QED BY <1>1, <1>2 DEF Shift
  <2> QED BY <1>1, <1>4, <2>1
<1>9. /\ Quoted(items)[1] = Mark("[") /\ Quoted(items)[m] = Mark("]")
      /\ \A k \in 1 .. Len(items) : Quoted(items)[2 * k] = Str(items[k])
      /\ \A k \in 1 .. Len(items) - 1 : Quoted(items)[2 * k + 1] = Mark(",")
  BY QuotedParts
<1>10. At(t, a) = "[" /\ At(t, a + m - 1) = "]"
  <2>1. 1 \in 1 .. m /\ m \in 1 .. m /\ a - 1 + 1 = a /\ a - 1 + m = a + m - 1
    <3> HIDE DEF m
    <3> QED BY <1>1
  <2>2. Mark("[").t = "[" /\ Mark("]").t = "]"
    BY DEF Mark
  <2> HIDE DEF m
  <2>3. At(t, a - 1 + 1) = "[" /\ At(t, a - 1 + m) = "]"
    BY <1>8, <1>9, <2>1, <2>2
  <2> QED BY <2>1, <2>3
<1>11. ASSUME NEW k \in 1 .. Len(items)
       PROVE  IsString(t, a + 2 * k - 1, items[k])
  <2>1. 2 * k \in 1 .. m /\ a - 1 + 2 * k = a + 2 * k - 1
    BY <1>2 DEF Size
  <2>2. Str(items[k]).t = "str" /\ Str(items[k]).v = items[k]
    BY DEF Str
  <2> HIDE DEF m
  <2>3. At(t, a - 1 + 2 * k) = "str" /\ t[a - 1 + 2 * k].v = items[k]
    BY <1>8, <1>9, <2>1, <2>2
  <2> QED BY <2>1, <2>3 DEF IsString
<1>12. ASSUME NEW k \in 1 .. Len(items) - 1 PROVE At(t, a + 2 * k) = ","
  <2>1. 2 * k + 1 \in 1 .. m /\ a - 1 + (2 * k + 1) = a + 2 * k
    BY <1>2 DEF Size
  <2>2. Mark(",").t = ","
    BY DEF Mark
  <2> HIDE DEF m
  <2>3. At(t, a - 1 + (2 * k + 1)) = ","
    BY <1>8, <1>9, <2>1, <2>2
  <2> QED BY <2>1, <2>3
<1>13. Listed(t, a, items)
  <2> HIDE DEF m
  <2> QED BY <1>10, <1>11, <1>12 DEF Listed, m
<1> QED BY <1>7, <1>13 DEF t

\* The rest of a sequence.
LEMMA SubOf ==
  ASSUME NEW X, NEW u \in Seq(X), NEW k \in Nat, 0 < k, k <= Len(u) + 1
  PROVE  LET w == SubSeq(u, k, Len(u)) IN
         w \in Seq(X) /\ Len(w) = Len(u) - k + 1 /\ \A i \in 1 .. Len(u) - k + 1 : w[i] = u[k + i - 1]
<1>1. Len(u) \in Nat /\ \A i \in k .. Len(u) : u[i] \in X
  OBVIOUS
<1>2. /\ SubSeq(u, k, Len(u)) \in Seq(X)
      /\ Len(SubSeq(u, k, Len(u))) = IF k <= Len(u) THEN Len(u) - k + 1 ELSE 0
      /\ \A i \in 1 .. Len(u) - k + 1 : SubSeq(u, k, Len(u))[i] = u[k + i - 1]
  BY <1>1, SubSeqProperties
<1>3. (IF k <= Len(u) THEN Len(u) - k + 1 ELSE 0) = Len(u) - k + 1
  BY <1>1
<1> QED BY <1>2, <1>3

\* The rest of a sequence is its first element and the rest of that.
LEMMA SubFirst ==
  ASSUME NEW X, NEW u \in Seq(X), NEW k \in 1 .. Len(u)
  PROVE  <<u[k]>> \o SubSeq(u, k + 1, Len(u)) = SubSeq(u, k, Len(u))
<1> DEFINE n == Len(u)
           w == SubSeq(u, k, n)
           r == SubSeq(u, k + 1, n)
           l == <<u[k]>>
<1>0. n \in Nat /\ k \in Nat /\ 0 < k /\ k <= n /\ u[k] \in X
  OBVIOUS
<1>1. w \in Seq(X) /\ Len(w) = n - k + 1 /\ \A i \in 1 .. n - k + 1 : w[i] = u[k + i - 1]
  BY <1>0, SubOf
<1>2. r \in Seq(X) /\ Len(r) = n - k /\ \A i \in 1 .. n - k : r[i] = u[k + i]
  <2>1. k + 1 \in Nat /\ 0 < k + 1 /\ k + 1 <= n + 1
    BY <1>0
  <2>2. /\ r \in Seq(X) /\ Len(r) = n - (k + 1) + 1
        /\ \A i \in 1 .. n - (k + 1) + 1 : r[i] = u[k + 1 + i - 1]
    BY <2>1, SubOf
  <2>3. n - (k + 1) + 1 = n - k /\ \A i \in 1 .. n - k : k + 1 + i - 1 = k + i
    BY <1>0
  <2> HIDE DEF r, n
  <2> QED BY <2>2, <2>3
<1>3. l \in Seq(X) /\ Len(l) = 1 /\ l[1] = u[k]
  BY <1>0, Single
<1> HIDE DEF l, r, w, n
<1>4. /\ l \o r \in Seq(X) /\ Len(l \o r) = n - k + 1
      /\ \A i \in 1 .. n - k + 1 : (l \o r)[i] = IF i <= 1 THEN l[i] ELSE r[i - 1]
  <2>1. /\ l \o r \in Seq(X) /\ Len(l \o r) = Len(l) + Len(r)
        /\ \A i \in 1 .. Len(l) + Len(r) : (l \o r)[i] = IF i <= Len(l) THEN l[i] ELSE r[i - Len(l)]
    BY <1>2, <1>3, ConcatProperties
  <2>2. Len(l) + Len(r) = n - k + 1
    BY <1>0, <1>2, <1>3
  <2> QED BY <1>3, <2>1, <2>2
<1>5. ASSUME NEW i \in 1 .. n - k + 1 PROVE (l \o r)[i] = w[i]
  <2>1. CASE i = 1
    <3>1. k + 1 - 1 = k
      BY <1>0
    <3>2. (l \o r)[1] = u[k]
      BY <1>3, <1>4, <2>1
    <3>3. w[1] = u[k + 1 - 1]
      BY <1>1, <2>1
    <3> QED BY <2>1, <3>1, <3>2, <3>3
  <2>2. CASE i # 1
    <3>1. i - 1 \in 1 .. n - k /\ ~(i <= 1) /\ k + (i - 1) = k + i - 1
      BY <1>0, <2>2
    <3>2. (l \o r)[i] = r[i - 1]
      BY <1>4, <3>1
    <3>3. r[i - 1] = u[k + (i - 1)]
      BY <1>2, <3>1
    <3> QED BY <1>1, <3>1, <3>2, <3>3
  <2> QED BY <2>1, <2>2
<1>6. l \o r = w
  BY <1>1, <1>4, <1>5, SeqEqual
<1> QED BY <1>6 DEF l, r, w, n

\* Strings reads the items of an array that was written of them.
LEMMA ListedStrings ==
  ASSUME NEW X, NEW items \in Seq(X), NEW t, NEW a \in Nat, Listed(t, a, items)
  PROVE  Strings(t, a + 1, a + Size(items)) = items
<1> DEFINE n == Len(items)
           end == a + Size(items)
           T == {k \in 0 .. n : k > 0 => Strings(t, a + 2 * k - 1, end) = SubSeq(items, k, n)}
<1>a. n \in Nat /\ Size(items) \in Nat /\ (n = 0 => Size(items) = 2) /\ (n # 0 => Size(items) = 2 * n + 1)
  <2>1. n \in Nat
    OBVIOUS
  <2> QED BY <2>1 DEF Size
<1>b. At(t, end - 1) = "]"
  <2>1. (a + Size(items)) - 1 = a + Size(items) - 1
    BY <1>a
  <2> QED BY <2>1 DEF Listed
<1>c. /\ \A k \in 1 .. n : IsString(t, a + 2 * k - 1, items[k])
      /\ \A k \in 1 .. n - 1 : At(t, a + 2 * k) = ","
  BY DEF Listed
<1>0. /\ n \in Nat /\ end \in Nat /\ At(t, end - 1) = "]" /\ end - 1 \in Nat
      /\ (n = 0 => end = a + 2) /\ (n # 0 => end = a + 2 * n + 1)
      /\ \A k \in 1 .. n : IsString(t, a + 2 * k - 1, items[k])
      /\ \A k \in 1 .. n - 1 : At(t, a + 2 * k) = ","
  <2>1. end \in Nat /\ end - 1 \in Nat /\ (n = 0 => end = a + 2) /\ (n # 0 => end = a + 2 * n + 1)
    BY <1>a
  <2> QED BY <1>a, <1>b, <1>c, <2>1
<1> HIDE DEF end
<1>n. n \in Nat /\ end \in Nat /\ end - 1 \in Nat /\ (n = 0 => end = a + 2) /\ (n # 0 => end = a + 2 * n + 1)
  BY <1>0
<1>1. Strings(t, end - 1, end) = <<>>
  BY <1>0, StringsStep
<1>2. ASSUME NEW k \in 0 .. n, \A l \in k + 1 .. n : l \in T, k > 0
      PROVE  Strings(t, a + 2 * k - 1, end) = SubSeq(items, k, n)
  <2> DEFINE j == a + 2 * k - 1
  <2>0. j \in Nat /\ j + 1 = a + 2 * k /\ j + 1 < end /\ k \in 1 .. n
    BY <1>n, <1>2
  <2>1. At(t, j) = "str" /\ t[j].v = items[k]
    <3>1. IsString(t, a + 2 * k - 1, items[k])
      BY <1>c, <2>0
    <3> QED BY <3>1 DEF IsString
  <2>2. SkipValue(t, j, end) = j + 1
    <3> HIDE DEF j
    <3> QED BY <1>n, <2>0, <2>1 DEF SkipValue
  <2>3. Strings(t, j, end) = <<items[k]>> \o Strings(t, NextElement(t, j, end), end)
    <3>1. ~(j >= end)
      BY <1>n, <2>0
    <3>2. At(t, j) # "]"
      BY <2>1
    <3> HIDE DEF j
    <3> QED BY <1>n, <2>0, <2>1, <3>1, <3>2, StringsStep
  <2>4. Strings(t, NextElement(t, j, end), end) = SubSeq(items, k + 1, n)
    <3>1. CASE k = n
      <4>1. j + 1 = end - 1
        BY <1>n, <2>0, <3>1
      <4>4. At(t, j + 1) # ","
        BY <1>b, <4>1
      <4>2. NextElement(t, j, end) = end - 1
        <5> HIDE DEF j
        <5> QED BY <2>2, <4>1, <4>4 DEF NextElement
      <4>3. SubSeq(items, k + 1, n) = <<>>
        <5>1. n < k + 1 /\ n \in Int /\ k + 1 \in Int
          BY <1>n, <3>1
        <5> QED BY <5>1, SubSeqEmpty
      <4> QED BY <1>1, <4>2, <4>3
    <3>2. CASE k < n
      <4>1. At(t, j + 1) = "," /\ j + 1 + 1 = a + 2 * (k + 1) - 1
        <5>1. k \in 1 .. n - 1 /\ j + 1 + 1 = a + 2 * (k + 1) - 1
          BY <1>n, <2>0, <3>2
        <5>2. At(t, a + 2 * k) = ","
          BY <1>c, <5>1
        <5> QED BY <2>0, <5>1, <5>2
      <4>2. NextElement(t, j, end) = a + 2 * (k + 1) - 1
        <5> HIDE DEF j
        <5> QED BY <2>0, <2>2, <4>1 DEF NextElement
      <4>3. k + 1 \in T /\ k + 1 > 0
        <5>1. k + 1 \in k + 1 .. n /\ k + 1 > 0
          BY <1>n, <2>0, <3>2
        <5>2. k + 1 \in T
          BY <1>2, <5>1
        <5> QED BY <5>1, <5>2
      <4> QED BY <4>2, <4>3
    <3> QED BY <1>n, <2>0, <3>1, <3>2
  <2>5. <<items[k]>> \o SubSeq(items, k + 1, n) = SubSeq(items, k, n)
    BY <2>0, SubFirst
  <2> QED BY <2>3, <2>4, <2>5
<1>3. \A k \in 0 .. n : (\A l \in k + 1 .. n : l \in T) => k \in T
  BY <1>2
<1>4. \A k \in 0 .. n : k \in T
  <2> HIDE DEF T, n
  <2> QED BY <1>n, <1>3, Downward
<1>5. CASE n = 0
  <2>1. items = <<>> /\ end - 1 = a + 1
    BY <1>n, <1>5
  <2> QED BY <1>1, <2>1 DEF end
<1>6. CASE n # 0
  <2>1. 1 \in T /\ a + 2 * 1 - 1 = a + 1
    BY <1>n, <1>4, <1>6
  <2>2. Strings(t, a + 1, end) = SubSeq(items, 1, n)
    BY <2>1
  <2>3. SubSeq(items, 1, n) = items
    <3>1. 1 \in Nat /\ 0 < 1 /\ 1 <= n + 1 /\ n - 1 + 1 = n /\ \A i \in 1 .. n : 1 + i - 1 = i
      BY <1>n
    <3>2. /\ SubSeq(items, 1, n) \in Seq(X) /\ Len(SubSeq(items, 1, n)) = n - 1 + 1
          /\ \A i \in 1 .. n - 1 + 1 : SubSeq(items, 1, n)[i] = items[1 + i - 1]
      BY <3>1, SubOf
    <3>3. Len(SubSeq(items, 1, n)) = n /\ \A i \in 1 .. n : SubSeq(items, 1, n)[i] = items[i]
      <4> HIDE DEF n
      <4> QED BY <3>1, <3>2
    <3> QED BY <3>2, <3>3, SeqEqual
  <2> QED BY <2>2, <2>3 DEF end
<1> QED BY <1>5, <1>6

\* A span longer than a string is that of an object or an array.
LEMMA OpenSpan ==
  ASSUME NEW s, NEW end \in Nat, NEW f \in 0 .. end, NEW q, q = ValueSpan(s, f, end),
         q # NoSpan, q.to > f + 1
  PROVE  At(s, f) \in Openers /\ q.to = ValueEnd(s, f, end)
<1>0. f < end /\ f \in Nat
  BY ValueSpanRange
<1>1. At(s, f) # "str"
  <2>1. At(s, f) = "str" => q.to = f + 1
    BY <1>0 DEF ValueSpan
  <2> QED BY <1>0, <2>1
<1>2. At(s, f) \in Openers
  BY <1>0, <1>1 DEF ValueSpan
<1>3. q = [from |-> f, to |-> ValueEnd(s, f, end)]
  BY <1>0, <1>1, <1>2 DEF ValueSpan
<1> QED BY <1>2, <1>3

\* The spans d, p and r that lead to the array of s.
Path(s, d, p, r) ==
    /\ d = FindValueRange(s, 1, Len(s) + 1, "dsh")
    /\ p = FindValueRange(s, d.from, d.to, "profile")
    /\ r = FindValueRange(s, p.from, p.to, "bundles")

\* How they nest, and what they are spans of.
Nested(s, end, d, p, r) ==
    /\ d # NoSpan /\ p # NoSpan /\ r # NoSpan
    /\ d.from \in Nat /\ p.from \in Nat /\ r.from \in Nat /\ d.to \in Nat /\ p.to \in Nat /\ r.to \in Nat
    /\ 0 < d.from /\ d.from + 1 < p.from /\ p.from + 1 < r.from
    /\ r.from < r.to /\ r.to <= p.to /\ p.to <= d.to /\ d.to <= end
    /\ d = ValueSpan(s, d.from, end) /\ p = ValueSpan(s, p.from, d.to)
    /\ r = ValueSpan(s, r.from, p.to)
    /\ d.to = ValueEnd(s, d.from, end) /\ p.to = ValueEnd(s, p.from, d.to)
    /\ r.to = ValueEnd(s, r.from, p.to)

\* FindValueRange looks for each key inside the value of the one before.
LEMMA PathNested ==
  ASSUME NEW X, NEW s \in Seq(Token(X)), NEW d, NEW p, NEW r, Path(s, d, p, r), At(s, r.from) = "["
  PROVE  Nested(s, Len(s) + 1, d, p, r)
<1> DEFINE end == Len(s) + 1
<1>0. end \in Nat /\ 0 \in Nat /\ 0 \in 0 .. 0 /\ 1 \in 0 .. end
  OBVIOUS
<1>1. NoSpan.from = 0 /\ NoSpan.to = 0
  BY DEF NoSpan
<1>2. At(s, 0) = "end"
  BY AtOf
<1> HIDE DEF end
<1>3. \A key : FindValueRange(s, 0, 0, key) = NoSpan
  <2> TAKE key
  <2>1. 0 >= 0
    OBVIOUS
  <2> QED BY <2>1, FindStep
<1>4. r # NoSpan /\ p # NoSpan /\ d # NoSpan
  <2>1. r # NoSpan
    BY <1>1, <1>2
  <2>2. p # NoSpan
    BY <1>1, <1>3, <2>1 DEF Path
  <2> QED BY <1>1, <1>3, <2>1, <2>2 DEF Path
<1>5. Holds(s, 1, end, "dsh", d)
  BY <1>0, <1>4, FindRange DEF Path, end
<1>6. d.from \in 3 .. end - 1 /\ d.to \in d.from + 1 .. end /\ d = ValueSpan(s, d.from, end)
  <2>1. 1 + 2 = 3
    OBVIOUS
  <2> QED BY <1>5, <2>1 DEF Holds
<1>7. d.to \in Nat /\ d.from \in 0 .. d.to /\ d.from \in Nat
  BY <1>0, <1>6
<1>8. Holds(s, d.from, d.to, "profile", p)
  BY <1>4, <1>7, FindRange DEF Path
<1>9. p.from \in d.from + 2 .. d.to - 1 /\ p.to \in p.from + 1 .. d.to /\ p = ValueSpan(s, p.from, d.to)
  BY <1>8 DEF Holds
<1>10. p.to \in Nat /\ p.from \in 0 .. p.to /\ p.from \in Nat
  BY <1>7, <1>9
<1>11. Holds(s, p.from, p.to, "bundles", r)
  BY <1>4, <1>10, FindRange DEF Path
<1>12. r.from \in p.from + 2 .. p.to - 1 /\ r.to \in r.from + 1 .. p.to /\ r = ValueSpan(s, r.from, p.to)
  BY <1>11 DEF Holds
<1>13. /\ r.from \in Nat /\ r.to \in Nat
       /\ 0 < d.from /\ d.from + 1 < p.from /\ p.from + 1 < r.from
       /\ r.from < r.to /\ r.to <= p.to /\ p.to <= d.to /\ d.to <= end
  <2>1. 0 < d.from /\ d.to <= end
    BY <1>0, <1>6, <1>7
  <2>2. d.from + 1 < p.from /\ p.to <= d.to
    BY <1>7, <1>9, <1>10
  <2>3. r.from \in Nat /\ r.to \in Nat /\ p.from + 1 < r.from /\ r.from < r.to /\ r.to <= p.to
    BY <1>10, <1>12
  <2> QED BY <2>1, <2>2, <2>3
<1>14. d.to = ValueEnd(s, d.from, end)
  <2>1. d.from \in 0 .. end /\ d.to > d.from + 1
    BY <1>0, <1>7, <1>10, <1>13
  <2> QED BY <1>0, <1>4, <1>6, <2>1, OpenSpan
<1>15. p.to = ValueEnd(s, p.from, d.to)
  <2>1. p.from \in 0 .. d.to /\ p.to > p.from + 1
    BY <1>7, <1>10, <1>13
  <2> QED BY <1>4, <1>7, <1>9, <2>1, OpenSpan
<1>16. r.to = ValueEnd(s, r.from, p.to)
  <2>1. r.from < p.to /\ At(s, r.from) # "str" /\ At(s, r.from) \in Openers
    BY <1>10, <1>13 DEF Openers
  <2>2. r = [from |-> r.from, to |-> ValueEnd(s, r.from, p.to)]
    BY <1>12, <2>1 DEF ValueSpan
  <2> QED BY <2>2
<1>17. Nested(s, end, d, p, r)
  BY <1>4, <1>6, <1>7, <1>9, <1>10, <1>12, <1>13, <1>14, <1>15, <1>16 DEF Nested
<1> QED BY <1>17 DEF end

\* A scan of s, or of one of the three values, that comes to the array goes on behind it.
LEMMA NestedSkipped ==
  ASSUME NEW s, NEW end \in Nat, NEW d, NEW p, NEW r, Nested(s, end, d, p, r), At(s, r.from) = "["
  PROVE  Skipped(s, r.from, r.to, end) /\ Skipped(s, r.from, r.to, d.to) /\ Skipped(s, r.from, r.to, p.to)
<1> DEFINE a == r.from
           e == p.to
<1>0. /\ d.from \in Nat /\ p.from \in Nat /\ a \in Nat /\ d.to \in Nat /\ e \in Nat /\ r.to \in Nat
      /\ d.from + 1 < p.from /\ p.from + 1 < a /\ a < r.to /\ r.to <= e /\ e <= d.to /\ d.to <= end
      /\ d.to = ValueEnd(s, d.from, end) /\ e = ValueEnd(s, p.from, d.to) /\ r.to = ValueEnd(s, a, e)
  BY DEF Nested
<1>1. At(s, a) \in Openers
  BY DEF Openers
<1> HIDE DEF a, e
<1>2. a < e /\ a < d.to /\ p.from < a /\ d.from < a /\ e \in 0 .. end /\ e \in 0 .. d.to /\ e \in 0 .. e
  BY <1>0
<1>3. Closing(s, a + 1, e, 0) < e \/ e = d.to
  BY <1>0, <1>1, <1>2, UnclosedOuter
<1>4. Closing(s, a + 1, e, 0) < e \/ (e = d.to /\ e = end)
  <2>1. CASE Closing(s, a + 1, e, 0) < e
    BY <2>1
  <2>2. CASE ~(Closing(s, a + 1, e, 0) < e)
    <3>1. e = d.to
      BY <1>3, <2>2
    <3>2. d.to = end
      BY <1>0, <1>1, <1>2, <2>2, <3>1, UnclosedOuter
    <3> QED BY <3>1, <3>2
  <2> QED BY <2>1, <2>2
<1>5. Skipped(s, a, ValueEnd(s, a, e), end)
  BY <1>0, <1>1, <1>2, <1>4, SkippedIn
<1>6. Skipped(s, a, ValueEnd(s, a, e), d.to)
  BY <1>0, <1>1, <1>2, <1>4, SkippedIn
<1>7. Skipped(s, a, ValueEnd(s, a, e), e)
  BY <1>0, <1>1, <1>2, <1>4, SkippedIn
<1> QED BY <1>0, <1>5, <1>6, <1>7 DEF a, e

\* The end of the text moves with the array, and so does the end of the array.
LEMMA ShiftEnd ==
  ASSUME NEW a \in Nat, NEW b \in Nat, NEW m \in Nat, NEW end \in Nat, b <= end
  PROVE  /\ Shift(end, a, b, m) \in Nat /\ a + m <= Shift(end, a, b, m)
         /\ Shift(b, a, b, m) = a + m
BY DEF Shift

\* A key whose value holds the array is found in t where it is in s.
LEMMA ThroughValue ==
  ASSUME NEW s, NEW t, NEW items, Len(items) \in Nat, NEW a \in Nat, NEW b \in Nat,
         Replaced(s, t, a, b, Size(items)), Listed(t, a, items),
         NEW end \in Nat, b <= end, Skipped(s, a, b, end),
         NEW i \in 0 .. end, NEW key, NEW q, FindValueRange(s, i, end, key) = q,
         q # NoSpan, q.from \in Nat, q.from < a, q = ValueSpan(s, q.from, end), q.to >= b
  PROVE  FindValueRange(t, i, Shift(end, a, b, Size(items)), key)
           = [from |-> q.from, to |-> Shift(q.to, a, b, Size(items))]
<1> DEFINE m == Size(items)
           n == Shift(end, a, b, m)
<1>1. m \in Nat
  BY DEF Size
<1> HIDE DEF m
<1>2. n \in Nat /\ a + m <= n
  <2>1. b <= end
    OBVIOUS
  <2> QED BY <1>1, <2>1, ShiftEnd
<1> HIDE DEF n
<1>3. Skipped(t, a, a + m, n)
  BY <1>2, ListedClosed DEF m
<1>4. Skipped(t, a, a + m, Shift(end, a, b, m)) /\ Replaced(s, t, a, b, m)
  BY <1>3 DEF n, m
<1>5. ValueSpan(t, q.from, Shift(end, a, b, m)) = [from |-> q.from, to |-> Shift(q.to, a, b, m)]
  BY <1>4, SpanThrough
<1>6. q.from <= a
  OBVIOUS
<1>7. \A k \in 0 .. end : FindValueRange(s, k, end, key) = q =>
        FindValueRange(t, k, Shift(end, a, b, m), key) = [from |-> q.from, to |-> Shift(q.to, a, b, m)]
  BY <1>4, <1>5, <1>6, FindThrough
<1> QED BY <1>7 DEF m

\* So is the key whose value is the array.
LEMMA ThroughArray ==
  ASSUME NEW s, NEW t, NEW items, Len(items) \in Nat, NEW a \in Nat, NEW b \in Nat,
         Replaced(s, t, a, b, Size(items)), Listed(t, a, items),
         NEW end \in Nat, b <= end, Skipped(s, a, b, end),
         NEW i \in 0 .. end, NEW key, NEW q, FindValueRange(s, i, end, key) = q,
         q # NoSpan
  PROVE  q.from = a /\ q.to = b =>
           FindValueRange(t, i, Shift(end, a, b, Size(items)), key)
             = [from |-> a, to |-> Shift(b, a, b, Size(items))]
<1> DEFINE m == Size(items)
           n == Shift(end, a, b, m)
<1>1. m \in Nat /\ m > 1
  BY DEF Size
<1> HIDE DEF m
<1>2. n \in Nat /\ a + m <= n /\ Shift(b, a, b, m) = a + m
  <2>1. m \in Nat
    BY <1>1
  <2>2. b <= end
    OBVIOUS
  <2> QED BY <2>1, <2>2, ShiftEnd
<1>3. a < n
  <2> HIDE DEF n
  <2> QED BY <1>1, <1>2
<1> HIDE DEF n
<1>4. Skipped(t, a, a + m, n) /\ ValueEnd(t, a, n) = a + m
  BY <1>2, ListedClosed DEF m
<1>5. At(t, a) # "str" /\ At(t, a) \in Openers
  BY DEF Listed, Openers
<1>6. ValueSpan(t, a, n) = [from |-> a, to |-> ValueEnd(t, a, n)]
  BY <1>3, <1>5 DEF ValueSpan
<1>7. HAVE q.from = a /\ q.to = b
<1>8. ValueSpan(t, q.from, Shift(end, a, b, m)) = [from |-> q.from, to |-> Shift(q.to, a, b, m)]
  BY <1>2, <1>4, <1>6, <1>7 DEF n
<1>9. Skipped(t, a, a + m, Shift(end, a, b, m)) /\ Replaced(s, t, a, b, m)
  BY <1>4 DEF n, m
<1>10. q.from <= a
  BY <1>7
<1>11. \A k \in 0 .. end : FindValueRange(s, k, end, key) = q =>
        FindValueRange(t, k, Shift(end, a, b, m), key) = [from |-> q.from, to |-> Shift(q.to, a, b, m)]
  BY <1>8, <1>9, <1>10, FindThrough
<1> QED BY <1>11, <1>7 DEF m

\* Where s has its array, t has the new one, under the same keys.
LEMMA PathThrough ==
  ASSUME NEW X, NEW s \in Seq(Token(X)), NEW items \in Seq(X), NEW d, NEW p, NEW r,
         Path(s, d, p, r), At(s, r.from) = "["
  PROVE  LET t == Rewrite(s, r.from, r.to, items)
             new(q) == [from |-> q.from, to |-> Shift(q.to, r.from, r.to, Size(items))]
         IN Path(t, new(d), new(p), new(r)) /\ Listed(t, r.from, items)
<1> DEFINE end == Len(s) + 1
<1>1. Nested(s, end, d, p, r)
  BY PathNested
<1>2. end \in Nat /\ Len(s) \in Nat /\ Len(items) \in Nat
  OBVIOUS
<1>3. PICK a \in Nat, b \in Nat : a = r.from /\ b = r.to
  BY <1>1 DEF Nested
<1> DEFINE t == Rewrite(s, a, b, items)
           S(i) == Shift(i, a, b, Size(items))
<1>4. /\ d.from \in Nat /\ d.to \in Nat /\ p.from \in Nat /\ p.to \in Nat
      /\ 0 < a /\ d.from < a /\ p.from < a /\ a < b
      /\ b <= p.to /\ b <= d.to /\ b <= end
      /\ d # NoSpan /\ p # NoSpan /\ r # NoSpan
      /\ d = ValueSpan(s, d.from, end) /\ p = ValueSpan(s, p.from, d.to)
      /\ 1 \in 0 .. end /\ d.from \in 0 .. d.to /\ p.from \in 0 .. p.to
  <2> HIDE DEF end
  <2>1. /\ d.from \in Nat /\ d.to \in Nat /\ p.from \in Nat /\ p.to \in Nat
        /\ 0 < d.from /\ d.from + 1 < p.from /\ p.from + 1 < a
        /\ a < b /\ b <= p.to /\ p.to <= d.to /\ d.to <= end
    BY <1>1, <1>3 DEF Nested
  <2>2. /\ d # NoSpan /\ p # NoSpan /\ r # NoSpan
        /\ d = ValueSpan(s, d.from, end) /\ p = ValueSpan(s, p.from, d.to)
    BY <1>1 DEF Nested
  <2>3. /\ 0 < a /\ d.from < a /\ p.from < a /\ a < b
        /\ b <= p.to /\ b <= d.to /\ b <= end
    <3>1. 0 < a /\ d.from < a /\ p.from < a
      BY <2>1
    <3>2. b <= d.to /\ b <= end
      BY <1>2, <2>1
    <3> QED BY <2>1, <3>1, <3>2
  <2>4. 1 \in 0 .. end /\ d.from \in 0 .. d.to /\ p.from \in 0 .. p.to
    BY <1>2, <2>1
  <2> QED BY <2>1, <2>2, <2>3, <2>4
<1>5. Skipped(s, a, b, end) /\ Skipped(s, a, b, d.to) /\ Skipped(s, a, b, p.to)
  <2> HIDE DEF end
  <2> QED BY <1>1, <1>2, <1>3, NestedSkipped
<1>6. Replaced(s, t, a, b, Size(items)) /\ Listed(t, a, items)
  BY <1>4, RewriteReplaces
<1>7. Len(t) + 1 = S(end)
  <2>1. Len(t) = Shift(Len(s), a, b, Size(items))
    BY <1>4, RewriteParts
  <2>2. Size(items) \in Nat
    BY <1>2 DEF Size
  <2>3. Shift(Len(s), a, b, Size(items)) + 1 = Shift(Len(s) + 1, a, b, Size(items))
    BY <1>2, <2>2 DEF Shift
  <2> QED BY <2>1, <2>3
<1> HIDE DEF t
<1>8. FindValueRange(t, 1, S(end), "dsh") = [from |-> d.from, to |-> S(d.to)]
  <2>1. FindValueRange(s, 1, end, "dsh") = d
    BY DEF Path
  <2> HIDE DEF end
  <2>2. d.to >= b
    BY <1>4
  <2> QED BY <1>2, <1>4, <1>5, <1>6, <2>1, <2>2, ThroughValue
<1> HIDE DEF end
<1>9. FindValueRange(t, d.from, S(d.to), "profile") = [from |-> p.from, to |-> S(p.to)]
  <2>1. FindValueRange(s, d.from, d.to, "profile") = p
    BY DEF Path
  <2>2. p.to >= b
    BY <1>4
  <2> QED BY <1>2, <1>4, <1>5, <1>6, <2>1, <2>2, ThroughValue
<1>10. FindValueRange(t, p.from, S(p.to), "bundles") = [from |-> r.from, to |-> S(r.to)]
  <2>1. FindValueRange(s, p.from, p.to, "bundles") = r
    BY DEF Path
  <2>2. FindValueRange(t, p.from, S(p.to), "bundles") = [from |-> a, to |-> S(b)]
    BY <1>2, <1>3, <1>4, <1>5, <1>6, <2>1, ThroughArray
  <2> QED BY <1>3, <2>2
<1>11. Path(t, [from |-> d.from, to |-> S(d.to)], [from |-> p.from, to |-> S(p.to)],
               [from |-> r.from, to |-> S(r.to)])
  <2> HIDE DEF S
  <2> QED BY <1>7, <1>8, <1>9, <1>10 DEF Path
<1> QED BY <1>3, <1>6, <1>11 DEF t

\* The spans of a path are what the lookups of one key after another return.
LEMMA PathFound ==
  ASSUME NEW s, NEW d, NEW p, NEW r, Path(s, d, p, r)
  PROVE  /\ ValueRange(s, "dsh") = d
         /\ ValueRangeAt(s, d, "profile") = p
         /\ ValueRangeAt(s, p, "bundles") = r
BY DEF Path, ValueRange, ValueRangeAt

\* The same, as Strings reads it.
LEMMA ReadsBack ==
  ASSUME NEW X, NEW s \in Seq(Token(X)), NEW items \in Seq(X), NEW d, NEW p, NEW r,
         Path(s, d, p, r), At(s, r.from) = "[",
         NEW t, t = Rewrite(s, r.from, r.to, items)
  PROVE  GetStringArray(t, ValueRangeAt(t, ValueRange(t, "dsh"), "profile"), "bundles") = items
<1> DEFINE new(q) == [from |-> q.from, to |-> Shift(q.to, r.from, r.to, Size(items))]
<1>1. Path(t, new(d), new(p), new(r)) /\ Listed(t, r.from, items)
  BY PathThrough
<1>2. Nested(s, Len(s) + 1, d, p, r)
  BY PathNested
<1>3. r.from \in Nat /\ r.to \in Nat /\ Shift(r.to, r.from, r.to, Size(items)) = r.from + Size(items)
  <2>1. r.from \in Nat /\ r.to \in Nat
    BY <1>2 DEF Nested
  <2>2. Len(items) \in Nat
    OBVIOUS
  <2>3. Size(items) \in Nat
    BY <2>2 DEF Size
  <2> QED BY <2>1, <2>3 DEF Shift
<1>4. new(r) = [from |-> r.from, to |-> r.from + Size(items)]
  <2>1. Shift(r.to, r.from, r.to, Size(items)) = r.from + Size(items)
    BY <1>3
  <2> QED BY <2>1
<1> HIDE DEF new
<1>5. /\ ValueRange(t, "dsh") = new(d)
      /\ ValueRangeAt(t, new(d), "profile") = new(p)
      /\ ValueRangeAt(t, new(p), "bundles") = new(r)
  BY <1>1, PathFound
<1>6. GetStringArray(t, new(p), "bundles")
        = IF At(t, r.from) = "[" THEN Strings(t, r.from + 1, r.from + Size(items)) ELSE <<>>
  BY <1>4, <1>5 DEF GetStringArray
<1>7. At(t, r.from) = "["
  BY <1>1 DEF Listed
<1>8. Strings(t, r.from + 1, r.from + Size(items)) = items
  BY <1>1, <1>3, ListedStrings
<1> QED BY <1>5, <1>6, <1>7, <1>8

\* Strings returns strings unless it comes to a brace that ends its array.
LEMMA StringsTyped ==
  ASSUME NEW X, NEW s \in Seq(Token(X)), NEW end \in Nat
  PROVE  \A j \in 0 .. end : (Closing(s, j, end, 0) < end => At(s, Closing(s, j, end, 0)) # "}") => Strings(s, j, end) \in Seq(X)
<1> DEFINE c(j) == Closing(s, j, end, 0)
           Ok(j) == c(j) < end => At(s, c(j)) # "}"
           T == {j \in 0 .. end : Ok(j) => Strings(s, j, end) \in Seq(X)}
<1>1. <<>> \in Seq(X)
  OBVIOUS
<1>2. \A j \in Nat : At(s, j) = "str" => s[j].v \in X
  <2> SUFFICES ASSUME NEW j \in Nat, At(s, j) = "str" PROVE s[j].v \in X
    OBVIOUS
  <2>1. j \in 1 .. Len(s)
    <3>1. ~(j = 0 \/ j > Len(s))
      BY AtOf
    <3>2. Len(s) \in Nat
      OBVIOUS
    <3> QED BY <3>1, <3>2
  <2>2. s[j] \in Token(X) /\ s[j].t = "str"
    BY <2>1, AtOf
  <2> QED BY <2>2, TokenOf
<1>3. ASSUME NEW j \in 0 .. end, \A k \in j + 1 .. end : k \in T, Ok(j)
      PROVE  Strings(s, j, end) \in Seq(X)
  <2>0. j \in Nat
    OBVIOUS
  <2>1. CASE j >= end \/ At(s, j) = "]"
    <3>1. Strings(s, j, end) = <<>>
      BY <2>0, <2>1, StringsStep
    <3> QED BY <1>1, <3>1
  <2>2. CASE j < end /\ At(s, j) = "str"
    <3>1. c(j) = c(j + 1) /\ j + 1 \in 0 .. end
      <4>1. At(s, j) \notin Openers /\ At(s, j) \notin Closers
        BY <2>2 DEF Openers, Closers
      <4>2. c(j) = Onward(s, j, end, 0)
        BY <2>0, <2>2, ClosingOn
      <4> QED BY <2>0, <2>2, <4>1, <4>2 DEF Onward
    <3>2. PICK k \in Nat : k = j + 1
      BY <2>0
    <3>3. ASSUME NEW l \in j + 1 .. end, c(j) = c(l), NextElement(s, j, end) = l
          PROVE  Strings(s, j, end) \in Seq(X)
      <4>1. l \in T
        BY <1>3, <3>3
      <4>2. Strings(s, l, end) \in Seq(X)
        BY <1>3, <3>3, <4>1
      <4>3. s[j].v \in X
        BY <1>2, <2>0, <2>2
      <4>4. <<s[j].v>> \in Seq(X)
        BY <4>3
      <4>5. Strings(s, j, end) = <<s[j].v>> \o Strings(s, NextElement(s, j, end), end)
        <5>1. ~(j >= end) /\ At(s, j) # "]"
          BY <2>0, <2>2
        <5> QED BY <2>0, <2>2, <5>1, StringsStep
      <4>6. Strings(s, j, end) = <<s[j].v>> \o Strings(s, l, end)
        BY <3>3, <4>5
      <4> QED BY <4>2, <4>4, <4>6, ConcatProperties
    <3>4. CASE k < end /\ At(s, k) = ","
      <4>0. k < end
        BY <3>4
      <4>1. k + 1 \in j + 1 .. end
        BY <2>0, <3>2, <4>0
      <4>2. NextElement(s, j, end) = k + 1
        BY <2>0, <2>2, <3>2, <3>4 DEF NextElement, SkipValue
      <4>3. At(s, k) \notin Openers /\ At(s, k) \notin Closers
        BY <3>4 DEF Openers, Closers
      <4>4. Closing(s, k, end, 0) = Onward(s, k, end, 0)
        BY <3>4, ClosingOn
      <4>5. c(j) = c(k + 1)
        BY <3>1, <3>2, <4>3, <4>4 DEF Onward
      <4> HIDE DEF c
      <4> QED BY <3>3, <4>1, <4>2, <4>5
    <3>5. CASE ~(k < end /\ At(s, k) = ",")
      <4>1. k \in j + 1 .. end
        BY <2>0, <2>2, <3>2
      <4>2. NextElement(s, j, end) = k
        BY <2>0, <2>2, <3>2, <3>5 DEF NextElement, SkipValue
      <4>3. c(j) = c(k)
        BY <3>1, <3>2
      <4> HIDE DEF c
      <4> QED BY <3>3, <4>1, <4>2, <4>3
    <3> QED BY <3>4, <3>5
  <2>3. CASE j < end /\ At(s, j) # "str" /\ At(s, j) # "]"
    <3>1. SkipValue(s, j, end) = c(j)
      BY <2>3 DEF SkipValue
    <3>2. c(j) \in j .. end /\ (c(j) < end => At(s, c(j)) \in Closers)
      BY ClosingRange
    <3>3. c(j) < end => At(s, c(j)) = "]"
      BY <1>3, <3>2 DEF Closers
    <3>4. NextElement(s, j, end) = c(j)
      BY <3>1, <3>3 DEF NextElement
    <3>5. c(j) \in Nat /\ (c(j) >= end \/ At(s, c(j)) = "]")
      BY <2>0, <3>2, <3>3
    <3> HIDE DEF c
    <3>6. Strings(s, c(j), end) = <<>>
      BY <3>5, StringsStep
    <3>7. Strings(s, j, end) = Strings(s, c(j), end)
      <4>1. ~(j >= end)
        BY <2>0, <2>3
      <4> QED BY <2>0, <2>3, <3>4, <4>1, StringsStep
    <3> QED BY <1>1, <3>6, <3>7
  <2> QED BY <2>0, <2>1, <2>2, <2>3
<1>4. \A j \in 0 .. end : (\A k \in j + 1 .. end : k \in T) => j \in T
  BY <1>3
<1>5. \A j \in 0 .. end : j \in T
  <2> HIDE DEF T
  <2> QED BY <1>4, Downward
<1> QED BY <1>5

\* There is a closing brace at s[i].
Brace(s, i) == At(s, i) = "}"

\* What ends an array is the bracket that a scan of its elements comes to.
LEMMA ArrayEnds ==
  ASSUME NEW s, NEW a \in Nat, NEW b \in Nat, NEW e \in Nat,
         a < b, b <= e, b = ValueEnd(s, a, e), ~Brace(s, b - 1)
  PROVE  /\ a + 1 \in 0 .. b
         /\ Closing(s, a + 1, b, 0) < b => ~Brace(s, Closing(s, a + 1, b, 0))
<1> DEFINE c == Closing(s, a + 1, b, 0)
<1>1. a + 1 \in 0 .. b /\ a + 1 \in 0 .. e /\ b \in 0 .. e
  OBVIOUS
<1>2. c \in a + 1 .. b
  BY <1>1, ClosingRange
<1> HIDE DEF c
<1>3. c < b => c = b - 1
  <2> SUFFICES ASSUME c < b PROVE c = b - 1
    OBVIOUS
  <2>1. \A d \in Nat : Closing(s, a + 1, b, d) < b => Closing(s, a + 1, e, d) = Closing(s, a + 1, b, d)
    BY <1>1, ClosingKept
  <2>2. Closing(s, a + 1, e, 0) = c
    BY <2>1 DEF c
  <2>3. c < e /\ c \in Nat
    BY <1>2
  <2>4. b = c + 1
    BY <2>2, <2>3 DEF ValueEnd
  <2> QED BY <2>3, <2>4
<1>4. c < b => ~Brace(s, c)
  BY <1>3
<1> QED BY <1>1, <1>4 DEF c

\* What Strings reads in an array that no brace ends.
LEMMA ArrayTyped ==
  ASSUME NEW X, NEW s \in Seq(Token(X)), NEW a \in Nat, NEW b \in Nat, NEW e \in Nat,
         a < b, b <= e, b = ValueEnd(s, a, e), ~Brace(s, b - 1)
  PROVE  Strings(s, a + 1, b) \in Seq(X)
<1>1. /\ a + 1 \in 0 .. b
      /\ Closing(s, a + 1, b, 0) < b => ~Brace(s, Closing(s, a + 1, b, 0))
  BY ArrayEnds
<1> QED BY <1>1, StringsTyped DEF Brace

\* The operators of WindowsJson are the same wherever they are instantiated.
LEMMA WindowsScans ==
  /\ \A s, r : W!GetStringArray(s, r, "bundles") = GetStringArray(s, r, "bundles")
  /\ \A s, key : W!ValueRange(s, key) = ValueRange(s, key)
  /\ \A s, r, key : W!ValueRangeAt(s, r, key) = ValueRangeAt(s, r, key)
  /\ \A s, r, key, items : W!ReplaceStringArray(s, r, key, items) = ReplaceStringArray(s, r, key, items)
<1>1. \A s, i : W!At(s, i) = At(s, i)
  BY DEF At, W!At
<1>2. W!Openers = Openers /\ W!Closers = Closers /\ W!NoSpan = NoSpan
  BY DEF Openers, Closers, W!Openers, W!Closers, NoSpan, W!NoSpan
<1>3. \A s, i, end, d : W!Closing(s, i, end, d) = Closing(s, i, end, d)
  BY DEF Closing, W!Closing, At, W!At, Openers, Closers, W!Openers, W!Closers
<1>4. \A s, a, end : W!ValueEnd(s, a, end) = ValueEnd(s, a, end)
  BY <1>3 DEF ValueEnd, W!ValueEnd
<1>5. \A s, a, end : W!SkipValue(s, a, end) = SkipValue(s, a, end)
  BY <1>1, <1>3 DEF SkipValue, W!SkipValue
<1>6. \A s, i, end : W!IsKey(s, i, end) = IsKey(s, i, end)
  BY DEF At, W!At, IsKey, W!IsKey
<1>7. \A s, a, end : W!ValueSpan(s, a, end) = ValueSpan(s, a, end)
  BY <1>1, <1>2, <1>4 DEF ValueSpan, W!ValueSpan
<1>8. \A s, j, end : W!NextElement(s, j, end) = NextElement(s, j, end)
  BY <1>1, <1>5 DEF NextElement, W!NextElement
<1>9. \A s, i, end, key : W!FindValueRange(s, i, end, key) = FindValueRange(s, i, end, key)
  BY DEF FindValueRange, W!FindValueRange, NoSpan, W!NoSpan, IsKey, W!IsKey, At, W!At,
         SkipValue, W!SkipValue, ValueSpan, W!ValueSpan, ValueEnd, W!ValueEnd, Closing, W!Closing,
         Openers, Closers, W!Openers, W!Closers
<1>10. \A s, i, end : W!Strings(s, i, end) = Strings(s, i, end)
  BY DEF Strings, W!Strings, NextElement, W!NextElement, At, W!At,
         SkipValue, W!SkipValue, Closing, W!Closing,
         Openers, Closers, W!Openers, W!Closers
<1>11. \A s, key : W!ValueRange(s, key) = ValueRange(s, key)
  BY <1>9 DEF ValueRange, W!ValueRange
<1>12. \A s, r, key : W!ValueRangeAt(s, r, key) = ValueRangeAt(s, r, key)
  BY <1>9 DEF ValueRangeAt, W!ValueRangeAt
<1>13. \A s, r, key : W!GetStringArray(s, r, key) = GetStringArray(s, r, key)
  BY <1>1, <1>10, <1>12 DEF GetStringArray, W!GetStringArray
<1>14. \A items : W!Quoted(items) = Quoted(items)
  BY DEF Quoted, W!Quoted, Mark, W!Mark, Str, W!Str
<1>15. \A s, r, key, items : W!ReplaceStringArray(s, r, key, items) = ReplaceStringArray(s, r, key, items)
  BY <1>1, <1>12, <1>14 DEF ReplaceStringArray, W!ReplaceStringArray
<1> QED BY <1>11, <1>12, <1>13, <1>15

\* The span of dsh.profile.bundles.
BundlesRange(doc) == W!ValueRangeAt(doc, W!ProfileRange(doc), "bundles")

\* SetEnabled of the Windows shell (plugins_manager.cpp, json.cpp), on a text of any
\* length: if it writes anything, EnabledBundles reads back the list that was meant,
\* and every token outside dsh.profile.bundles is where it was. The one text that is
\* left out has an array that a brace ends: there JsonObjectGetStringArray never does.
THEOREM WindowsOneBundle ==
  ASSUME NEW X, NEW doc \in Seq(Token(X)), NEW name \in X, NEW on \in BOOLEAN,
         ~Brace(doc, BundlesRange(doc).to - 1), W!SetEnabled(doc, name, on) # <<>>
  PROVE  LET r == BundlesRange(doc)
             old == W!EnabledBundles(doc)
             new == IF on THEN Append(old, name) ELSE RemoveFirst(old, name)
             text == W!SetEnabled(doc, name, on)
         IN IF on = Contains(old, name) THEN text = doc
            ELSE W!EnabledBundles(text) = new /\ text = Rewrite(doc, r.from, r.to, new)
<1> DEFINE d == ValueRange(doc, "dsh")
           p == ValueRangeAt(doc, d, "profile")
           r == ValueRangeAt(doc, p, "bundles")
           old == GetStringArray(doc, p, "bundles")
           new == IF on THEN Append(old, name) ELSE RemoveFirst(old, name)
           text == W!SetEnabled(doc, name, on)
<1>1. \A s : W!ProfileRange(s) = ValueRangeAt(s, ValueRange(s, "dsh"), "profile")
  BY WindowsScans DEF W!ProfileRange
<1>2. \A s : W!EnabledBundles(s) = GetStringArray(s, ValueRangeAt(s, ValueRange(s, "dsh"), "profile"), "bundles")
  BY <1>1, WindowsScans DEF W!EnabledBundles
<1>3. BundlesRange(doc) = r
  BY <1>1, WindowsScans DEF BundlesRange
<1>4. /\ \A s, x : W!Contains(s, x) = Contains(s, x)
      /\ \A s, x : W!RemoveFirst(s, x) = RemoveFirst(s, x)
  <2>1. \A s, x : W!Contains(s, x) = Contains(s, x)
    BY DEF Contains, W!Contains
  <2>2. \A s, x : W!RemoveFirst(s, x) = RemoveFirst(s, x)
    BY DEF RemoveFirst, W!RemoveFirst, RemoveAt, W!RemoveAt, SelectInSeq, W!SelectInSeq, Min, W!Min
  <2> QED BY <2>1, <2>2
<1> HIDE DEF d, p, r, old, new
<1>5. text = IF on = Contains(old, name) THEN doc ELSE ReplaceStringArray(doc, p, "bundles", new)
  BY <1>1, <1>2, <1>4, WindowsScans DEF W!SetEnabled, old, new, p, d
<1>6. CASE on = Contains(old, name)
  BY <1>2, <1>5, <1>6 DEF old, p, d
<1>7. CASE ~(on = Contains(old, name))
  <2>1. text = ReplaceStringArray(doc, p, "bundles", new)
    BY <1>5, <1>7
  <2>2. At(doc, r.from) = "[" /\ text = Rewrite(doc, r.from, r.to, new)
    BY <2>1 DEF ReplaceStringArray, Rewrite, r
  <2>3. Path(doc, d, p, r)
    BY DEF Path, d, p, r, ValueRange, ValueRangeAt
  <2>4. old \in Seq(X)
    <3>1. Nested(doc, Len(doc) + 1, d, p, r)
      BY <2>2, <2>3, PathNested
    <3>2. PICK a \in Nat, b \in Nat, e \in Nat : a = r.from /\ b = r.to /\ e = p.to
      BY <3>1 DEF Nested
    <3>3. a < b /\ b <= e /\ b = ValueEnd(doc, a, e)
      BY <3>1, <3>2 DEF Nested
    <3>4. ~Brace(doc, b - 1)
      BY <1>3, <3>2
    <3>5. Strings(doc, a + 1, b) \in Seq(X)
      BY <3>3, <3>4, ArrayTyped
    <3>6. old = Strings(doc, a + 1, b)
      BY <2>2, <3>2 DEF old, r, GetStringArray
    <3> QED BY <3>5, <3>6
  <2>5. new \in Seq(X)
    <3>1. Append(old, name) \in Seq(X)
      BY <2>4, AppendProperties
    <3>2. RemoveFirst(old, name) \in Seq(X)
      BY <2>4, RemoveOne
    <3> QED BY <3>1, <3>2 DEF new
  <2>6. GetStringArray(text, ValueRangeAt(text, ValueRange(text, "dsh"), "profile"), "bundles") = new
    BY <2>2, <2>3, <2>5, ReadsBack
  <2>7. W!EnabledBundles(text) = new
    BY <1>2, <2>6
  <2>8. W!EnabledBundles(doc) = old
    BY <1>2 DEF old, p, d
  <2> QED BY <1>3, <1>7, <2>2, <2>7, <2>8 DEF new
<1> QED BY <1>6, <1>7
=============================================================================
