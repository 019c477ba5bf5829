------------------------------- MODULE Plugins -------------------------------
(* The plugin dialogs of both shells over one profile, and what they promise.  *)
EXTENDS PluginDialog

L == INSTANCE LinuxPlugins
W == INSTANCE WindowsPlugins

VARIABLE profile   \* history: what a reader of JSON finds in file and in seen, of
                   \* each number no more than Linux writes

\* The rest of the file: what dependencies and dsh.profile.bundles leave
All(v, but) == {m \in ToSet(Members(v)) : m.k # but}
Sections(v) ==
    LET dsh == Get(v, "dsh")
        inner == Get(dsh, "profile")
    IN [installed |-> ToSet(Keys(Get(v, "dependencies"))),
        enabled |-> ToSet(Names(Bundles(v))),
        other |-> {m \in All(v, "dsh") : m.k # "dependencies"}
                  \cup All(dsh, "profile") \cup All(inner, "bundles")]
Exact(doc) == Sections(Document(doc))
Profile(doc) == Exact(Shortened(doc))

ReaderInit == profile = [now |-> Profile(file), seen |-> [w \in Worker |-> {}]]
Reader == profile' = [now |-> IF file' = file THEN profile.now ELSE Profile(file'),
                      seen |-> [w \in Worker |-> {Profile(doc) : doc \in seen'[w]}]]

Linux == L!LinuxNext /\ Reader
Windows == W!WindowsNext /\ Reader
Thread == ThreadStep /\ Reader
PluginsInit == Init /\ ReaderInit
PluginsNext == Linux \/ Windows \/ Thread
Spec == PluginsInit /\ [][PluginsNext]_<<vars, profile>>

Promise == INSTANCE PluginProfile WITH
    Run <- Worker, profile <- profile.now, read <- profile.seen

---------------------------------------------------------------------------
(* Properties. *)

\* What a shell writes when it enables or disables what is selected
Selected == {row.name : row \in {sel.installed} \ {None}} \cup ({sel.enabled} \ {None})
Written(name, on) == IF port = "linux" THEN L!SetEnabled(file, name, on)
                     ELSE {W!SetEnabled(file, name, on)} \ {<<>>}

\* A text that a shell or dsh plugin is about to write reads as the change that was
\* meant: for each row that is selected, the bundle is switched and nothing else, if
\* the file can be read at all; for each run, a package more or less than it has read.
\* On Linux the switch may also cost digits: of a number that is not whole, six stay.
TextsKept ==
    /\ ~busy => \A name \in Selected, on \in BOOLEAN : \A text \in Written(name, on) :
         IF Parse(file) = {} THEN Profile(text) = Profile(file)
         ELSE /\ Profile(text) = Promise!Switched(Profile(file), name, on)
              /\ port = "windows" => Exact(text) = Promise!Switched(Exact(file), name, on)
    /\ \A w \in Worker : \A doc \in seen[w] : \A v \in Parse(doc) :
         Possible(v, worker[w].verb, worker[w].spec) =>
             \A more \in Reconciled(v, worker[w].verb, worker[w].spec) :
                 Promise!Runs(Profile(doc), Profile(Text(more)))

\* Both dialogs keep the promise of PluginProfile: whatever the order of the
\* members of package.json, a dialog adds or removes one bundle and leaves the
\* rest as it was but for digits of numbers that are not whole, and a profile it
\* cannot read stays as it is.
ProfileKept == Promise!Spec

\* What json.cpp of Windows finds is there: in a file whose keys come once and whose
\* sections are objects, the packages and the bundles it lists are the first ones of
\* those a parser finds, never the members of something nested in another value. It
\* may miss some or all of them, for it gives up at the first value that is no string.
Usual(v) ==
    LET dsh == Get(v, "dsh") IN
    {Get(v, "dependencies").t, dsh.t, Get(dsh, "profile").t} \subseteq {"obj", "none"}
ScanSound ==
    \A v \in Parse(file) :
        Usual(v) /\ Text(v) = file =>
            /\ IsPrefix(W!InstalledPackages(file), Keys(Get(v, "dependencies")))
            /\ IsPrefix(W!EnabledBundles(file), Names(Bundles(v)))

\* What a run of dsh plugin has read is what the file still holds when it writes,
\* so that no change is lost, unless its dialog was closed and another one opened.
NoLostUpdate ==
    \A w \in Worker : worker[w].pc = "cli" /\ ~overlap => seen[w] = {file}

\* What each shell reads in the file, and the rows it makes of it
Installed(doc) == IF port = "linux" THEN L!InstalledPackages(doc) ELSE W!InstalledPackages(doc)
Enabled(doc) == IF port = "linux" THEN L!EnabledBundles(doc) ELSE W!EnabledBundles(doc)
Tree(installed, enabled) ==
    IF port = "linux" THEN L!DependencyTree(installed, enabled) ELSE W!DependencyTree(installed, enabled)

\* A dialog at rest shows, on the page that is open, what its shell's own reader makes
\* of package.json as it is now; on Windows that may be less than the file holds. A row
\* of the market belongs to a plugin that was loaded. With the same exception.
ListsCurrent ==
    open # None /\ ~busy /\ ~overlap =>
        CASE page = "installed" -> rows.installed = Tree(Installed(file), Enabled(file))
          [] page = "enabled" -> rows.enabled = Enabled(file)
          [] page = "market" -> rows.market \subseteq DOMAIN data.market

\* The memory of a Linux dialog is there for as long as a thread uses it, and no
\* longer once the dialog is closed.
FreedInTime ==
    port = "linux" =>
        \A d \in Dialog :
            LET users == {w \in Worker : worker[w].dialog = d} IN
            /\ phase[d] = "none" => users = {}
            /\ phase[d] = "closed" => users # {}
=============================================================================
