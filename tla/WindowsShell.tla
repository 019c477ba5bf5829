------------------------------ MODULE WindowsShell ------------------------------
(* The Windows desktop shell: the UI thread of windows/src/main_window.cpp,    *)
(* the threads it starts for the dsh server, ServerManager                     *)
(* (windows/src/server_manager.cpp), whose globals every thread reads and      *)
(* writes without a lock, the dsh children, and the remote-connect bridge.     *)
(* Worker thread w starts at most one server, so the child process and the job *)
(* object it creates carry its number. Worker 1 is the thread of OnCreate; the *)
(* others run RestartServer's thread or RefreshUpdate. Overlay texts, progress *)
(* and log lines, which steer nothing, are left out. A posted message is       *)
(* dispatched before the user's input and before a timer (GetMessage's order), *)
(* also by the nested loop of a modal box.                                     *)
EXTENDS Integers, Sequences, FiniteSets

CONSTANTS MaxStarts,   \* servers started after the first one, at most
          Plans,       \* what may happen in one session:
                       \* [restart, update, toggle, line, refusal, port]
          None

Foreign == {"none", "web", "other"}
Plan == [restart : Nat, update : Nat, toggle : Nat, line : Nat, refusal : Nat,
         port : Foreign]
ASSUME BoundsAssumption ==
    /\ MaxStarts \in Nat /\ None \notin Nat
    /\ Plans \subseteq Plan
    /\ \A p \in Plans : p.restart + p.update <= MaxStarts

Worker == 1 .. (1 + MaxStarts)
Verdict == {"ready", "failed", "updated"}
Line == {"registered", "online"}

VARIABLES thread,     \* where each worker is
          updates,    \* the workers that run RefreshUpdate
          left,       \* what the plan still allows: restarts, accepted updates,
                      \* Remote Connect toggles, lines of the bridge; and, not
                      \* counted down, how many workers Windows may refuse a job
                      \* and what listens on the port at first
          child,      \* the dsh process of each worker
          jobOf,      \* the job object each child was assigned to
          log,        \* DSHWebView-dsh.log holds a "dsh web: " line
          foreign,    \* what another program serves on the port: nothing, web
                        \* pages (a dsh of another launch, say) or something else
          g_process, g_job, g_reusing, g_authUrl,
          clash,      \* history: two threads were inside Start/Stop at once
          refused,    \* history: the workers that Windows refused a job, or the
                        \* assignment to it; the code does not notice
          ui, view, posted, modal, grace, page,
          bridge, pipe, bridgeToken, bridgeRunning, registered, registerTimer,
          hostToken, relayKnows

threadVars == <<thread, updates, left>>
procVars   == <<child, jobOf, log>>
smVars     == <<g_process, g_job, g_reusing, g_authUrl, clash, refused>>
uiVars     == <<ui, view, posted, modal, grace, page>>
bridgeVars == <<bridge, pipe, bridgeToken, bridgeRunning, registered,
                registerTimer, hostToken, relayKnows>>
vars == <<threadVars, procVars, foreign, smVars, uiVars, bridgeVars>>

Live(w) == child[w] \in {"starting", "serving"}
IsRunning == g_process # None /\ Live(g_process)
Serving == \E w \in Worker : child[w] = "serving"
\* A bare connect, in WaitUntilReady, accepts whatever listens; the probe of Start
\* asks for a web page.
PortOpen == foreign # "none" \/ Serving
LooksLikeDshWeb == foreign = "web" \/ Serving
SpawnedChild == g_process # None

Init == /\ thread = [w \in Worker |-> IF w = 1 THEN "node" ELSE "idle"]
        /\ updates = {} /\ left \in Plans
        /\ child = [w \in Worker |-> "none"]
        /\ jobOf = [w \in Worker |-> None]
        /\ log = FALSE
        /\ foreign = left.port
        /\ g_process = None /\ g_job = None /\ g_reusing = FALSE
        /\ g_authUrl = FALSE /\ clash = FALSE /\ refused = {}
        /\ ui = "loop" /\ view = "init" /\ posted = <<>> /\ modal = <<>>
        /\ grace = FALSE /\ page = "none"
        /\ bridge = "none" /\ pipe = None /\ bridgeToken = FALSE
        /\ bridgeRunning = FALSE /\ registered = FALSE
        /\ registerTimer = FALSE /\ hostToken = FALSE /\ relayKnows = FALSE

---------------------------------------------------------------------------
(* ServerManager, as steps of the thread that calls it.                      *)

Inside == \/ \E w \in Worker : thread[w] \in {"halted", "stopped", "probe", "job", "create"}
          \/ ui \in {"restarting", "destroying"}

\* TerminateJobObject, or the last handle of the job closed (KILL_ON_JOB_CLOSE)
KillJob(j) == child' = [w \in Worker |->
                          IF jobOf[w] = j /\ Live(w) THEN "ended" ELSE child[w]]

\* Stop, first half: the job's processes are told to terminate
StopBegin == /\ clash' = (clash \/ Inside)
             /\ IF g_process # None /\ g_job # None THEN KillJob(g_job)
                                                    ELSE UNCHANGED child
             /\ UNCHANGED <<g_process, g_job, g_reusing, g_authUrl, refused, jobOf, log>>

\* Stop, second half: wait for the child (5 s at most), close both handles
StopEnd == /\ IF g_job # None THEN KillJob(g_job) ELSE UNCHANGED child
           /\ g_process' = None /\ g_job' = None
           /\ UNCHANGED <<g_reusing, g_authUrl, clash, refused, jobOf, log>>

Post(m) == /\ posted' = IF ui \in {"quit", "gone"} THEN posted ELSE Append(posted, m)
           /\ UNCHANGED <<ui, view, modal, grace, page>>
Goto(w, pc) == thread' = [thread EXCEPT ![w] = pc] /\ UNCHANGED <<updates, left>>

\* The verdict of a worker: PostServerFailed / PostServerReady, or, for an
\* update, PostUpdateFinished (whose two cases end in OnServerReady alike)
Finish(w, ok) ==
    IF w \in updates THEN Goto(w, "done") /\ Post("updated")
    ELSE IF ok THEN Goto(w, "check") /\ Post("ready")
    ELSE Goto(w, "done") /\ Post("failed")

Env == UNCHANGED <<foreign, bridgeVars>>
Quiet == UNCHANGED <<procVars, smVars>>

\* Faulty form of ProvideNode: a runtime that cannot be installed ends the thread
\* without a verdict.
ProvideSilently(w) ==
    /\ thread[w] = "node"
    /\ Goto(w, "stop") \/ Goto(w, "done")
    /\ UNCHANGED uiVars /\ Quiet /\ Env

\* NodeRuntimeManager::Provide: the runtime is there, or is installed, or not
ProvideNode(w) ==
    /\ thread[w] = "node"
    /\ \/ Goto(w, "stop") /\ UNCHANGED uiVars
       \/ Finish(w, FALSE)
    /\ Quiet /\ Env

\* RefreshToLatest clears the npx cache and runs npx; only when it succeeds is
\* the server stopped and started anew
RefreshToLatest(w) ==
    /\ thread[w] = "refresh"
    /\ \/ Goto(w, "halt") /\ UNCHANGED uiVars
       \/ Finish(w, FALSE)
    /\ Quiet /\ Env

CallStop(w) == /\ thread[w] \in {"halt", "stop"}
               /\ StopBegin
               /\ Goto(w, IF thread[w] = "halt" THEN "halted" ELSE "stopped")
               /\ UNCHANGED uiVars /\ Env
CallStopEnd(w) == /\ thread[w] \in {"halted", "stopped"}
                  /\ StopEnd
                  /\ Goto(w, IF thread[w] = "halted" THEN "stop" ELSE "probe")
                  /\ UNCHANGED uiVars /\ Env

\* A server that already answers on the port is reused
Probe(w) == /\ thread[w] = "probe"
            /\ g_reusing' = LooksLikeDshWeb
            /\ Goto(w, IF LooksLikeDshWeb THEN "wait" ELSE "job")
            /\ UNCHANGED <<procVars, g_process, g_job, g_authUrl, clash, refused, uiVars>> /\ Env

RefuseJob(w) == /\ refused' = refused \cup {w}
                /\ Cardinality(refused') <= left.refusal

\* CreateJobObject; without a job the start goes on
CreateJob(w) == /\ thread[w] = "job"
                /\ \/ g_job' = w /\ UNCHANGED refused
                   \/ g_job' = None /\ RefuseJob(w)
                /\ Goto(w, "create")
                /\ UNCHANGED <<procVars, g_process, g_reusing, g_authUrl, clash, uiVars>>
                /\ Env

NewChild(w) == /\ thread[w] = "create"
               /\ log' = FALSE
               /\ child' = [child EXCEPT ![w] = "starting"]
               /\ g_process' = w
               /\ Goto(w, "wait")
               /\ UNCHANGED <<g_job, g_reusing, g_authUrl, clash, uiVars>> /\ Env

\* Faulty form of CreateChild: the child is not assigned to the job.
CreateUnassigned(w) == NewChild(w) /\ UNCHANGED <<jobOf, refused>>

\* The log is recreated, the child created and assigned to the job that g_job
\* names by now, if there is one and Windows agrees
CreateChild(w) ==
    /\ NewChild(w)
    /\ \/ jobOf' = [jobOf EXCEPT ![w] = g_job] /\ UNCHANGED refused
       \/ g_job # None /\ RefuseJob(w) /\ UNCHANGED jobOf
\* CreateProcess fails: that job is closed
CreateFails(w) ==
    /\ thread[w] = "create"
    /\ log' = FALSE
    /\ IF g_job # None THEN KillJob(g_job) ELSE UNCHANGED child
    /\ g_job' = None
    /\ Finish(w, FALSE)
    /\ UNCHANGED <<jobOf, g_process, g_reusing, g_authUrl, clash, refused>> /\ Env

\* WaitUntilReady drains the log of a server it started before it looks at the
\* child and at the port; the URL is kept from an earlier server if none is there
DrainLog == g_authUrl' = (g_authUrl \/ (~g_reusing /\ log))
WaitMore(w) == /\ thread[w] = "wait"
               /\ DrainLog /\ g_authUrl' # g_authUrl
               /\ UNCHANGED <<threadVars, procVars, g_process, g_job, g_reusing, clash, refused, uiVars>>
               /\ Env
WaitEnds(w, ok) ==
    /\ thread[w] = "wait"
    /\ IF ok THEN (IsRunning \/ g_reusing) /\ PortOpen ELSE ~IsRunning /\ ~g_reusing
    /\ DrainLog
    /\ Finish(w, ok)
    /\ UNCHANGED <<procVars, g_process, g_job, g_reusing, clash, refused>> /\ Env
WaitTimesOut(w) == /\ thread[w] = "wait"
                   /\ Finish(w, FALSE)
                   /\ Quiet /\ Env

\* The thread of a start then looks for a newer dsh
CheckForUpdate(w) == /\ thread[w] = "check"
                     /\ Goto(w, "done")
                     /\ Post("update") \/ UNCHANGED uiVars
                     /\ Quiet /\ Env

WorkerStep(w) == \/ ProvideNode(w) \/ RefreshToLatest(w)
                 \/ CallStop(w) \/ CallStopEnd(w) \/ Probe(w) \/ CreateJob(w)
                 \/ CreateChild(w) \/ CreateFails(w)
                 \/ WaitMore(w) \/ WaitEnds(w, TRUE) \/ WaitEnds(w, FALSE)
                 \/ CheckForUpdate(w)

---------------------------------------------------------------------------
(* The children, and whatever else holds the port.                           *)

Serve(w) == /\ child[w] = "starting" /\ ~PortOpen
            /\ child' = [child EXCEPT ![w] = "serving"]
            /\ UNCHANGED <<jobOf, log>>
PrintUrl(w) == /\ Live(w) /\ ~log /\ log' = TRUE
               /\ UNCHANGED <<child, jobOf>>
Die(w) == /\ Live(w)
          /\ child' = [child EXCEPT ![w] = "ended"]
          /\ UNCHANGED <<jobOf, log>>
ChildStep == /\ ui # "gone"
             /\ \E w \in Worker : Serve(w) \/ PrintUrl(w) \/ Die(w)
             /\ UNCHANGED <<threadVars, smVars, uiVars>> /\ Env
ForeignEnds == /\ ui # "gone" /\ foreign # "none" /\ foreign' = "none"
               /\ UNCHANGED <<threadVars, procVars, smVars, uiVars, bridgeVars>>

---------------------------------------------------------------------------
(* The UI thread.                                                            *)

\* Without a WebView2, none yet or none at all, nothing is done, and nothing comes
\* back to it when there is one.
NavigateToDsh == page' = IF view = "ready" THEN "asked" ELSE "lost"

\* The overlay is hidden when the navigation succeeds, and stays up when it fails.
\* An earlier navigation that ends after the overlay came back is left out.
NavigationCompleted == /\ ui = "loop" /\ page = "asked" /\ page' \in {"shown", "broken"}
                       /\ UNCHANGED <<threadVars, procVars, smVars, ui, view, posted, modal, grace>>
                       /\ Env

OnServerReady ==
    IF ~g_authUrl /\ SpawnedChild
    THEN grace' = TRUE /\ UNCHANGED page
    ELSE NavigateToDsh /\ UNCHANGED grace

Spend(what) == left' = [left EXCEPT ![what] = @ - 1]

\* StartServerThread, or the thread of RefreshUpdate; the overlay is shown
StartWorker(pc, why) ==
    \E w \in Worker :
        /\ thread[w] = "idle" /\ \A v \in Worker : v < w => thread[v] # "idle"
        /\ thread' = [thread EXCEPT ![w] = pc]
        /\ updates' = IF pc = "refresh" THEN updates \cup {w} ELSE updates
        /\ Spend(why)

Has(q, S) == \E i \in DOMAIN q : q[i] \in S

\* A user acts, and a timer fires, only when no message is waiting
Pausing == ui = "loop" /\ posted = <<>>
UserActs == Pausing /\ modal = <<>>

\* The plugins dialog is modal too, but stays usable under the boxes that come up.
PluginsDialog == /\ UserActs /\ left.restart > 0
                 /\ modal' = <<"plugins">>
                 /\ UNCHANGED <<threadVars, procVars, smVars, ui, view, posted, grace, page>> /\ Env

\* RestartServer, a button of that dialog: Stop, the overlay, a new thread
RestartServer ==
    /\ Pausing /\ Has(modal, {"plugins"}) /\ left.restart > 0
    /\ StopBegin /\ ui' = "restarting"
    /\ UNCHANGED <<threadVars, view, posted, modal, grace, page>> /\ Env
RestartEnds ==
    /\ ui = "restarting"
    /\ StopEnd /\ ui' = "loop" /\ page' = "none"
    /\ StartWorker("node", "restart")
    /\ UNCHANGED <<view, posted, modal, grace>> /\ Env

\* WM_DESTROY: Stop, then PostQuitMessage ends every loop. The bridge is left.
OnDestroy == StopBegin /\ ui' = "destroying"
DestroyEnds ==
    /\ ui = "destroying"
    /\ StopEnd /\ ui' = "quit" /\ posted' = <<>> /\ modal' = <<>> /\ grace' = FALSE
    /\ UNCHANGED <<threadVars, view, page>> /\ Env
\* The process ends: its threads with it, and every job it still holds a handle of
Exit == /\ ui = "quit" /\ ui' = "gone"
        /\ thread' = [w \in Worker |-> "done"]
        /\ child' = [w \in Worker |->
                       IF jobOf[w] # None /\ Live(w) THEN "ended" ELSE child[w]]
        /\ UNCHANGED <<updates, left, jobOf, log, smVars,
                       view, posted, modal, grace, page>> /\ Env

OnMessage ==
    /\ ui = "loop" /\ posted # <<>>
    /\ posted' = Tail(posted)
    /\ \/ /\ Head(posted) \in {"ready", "updated"}
          /\ OnServerReady
          /\ UNCHANGED <<procVars, smVars, ui, modal>>
       \/ /\ Head(posted) \in {"failed", "update"}      \* OnServerFailed, PromptForUpdate
          /\ modal' = Append(modal, IF Head(posted) = "failed" THEN "fatal" ELSE "prompt")
          /\ UNCHANGED <<procVars, smVars, ui, grace, page>>
       \/ /\ Head(posted) = "close"
          /\ OnDestroy
          /\ UNCHANGED <<modal, grace, page>>
    /\ UNCHANGED <<threadVars, view>> /\ Env
UserCloses == /\ UserActs /\ OnDestroy
              /\ UNCHANGED <<threadVars, view, posted, modal, grace, page>> /\ Env

\* The innermost box returns: a fatal one posts WM_CLOSE, a prompt may start
\* RefreshUpdate
BoxReturns ==
    /\ Pausing /\ modal # <<>>
    /\ modal' = SubSeq(modal, 1, Len(modal) - 1)
    /\ LET box == modal[Len(modal)] IN
         \/ /\ box = "fatal"
            /\ posted' = <<"close">> /\ UNCHANGED <<threadVars, page>>
         \/ /\ box # "fatal" /\ UNCHANGED <<threadVars, posted, page>>
         \/ /\ box = "prompt" /\ left.update > 0
            /\ StartWorker("refresh", "update") /\ page' = "none"
            /\ UNCHANGED posted
    /\ UNCHANGED <<procVars, smVars, ui, view, grace>> /\ Env

\* Faulty form of GraceTimer: it waits for the URL however long.
GraceForever == /\ Pausing /\ grace /\ g_authUrl
                /\ grace' = FALSE /\ NavigateToDsh
                /\ UNCHANGED <<threadVars, procVars, smVars, ui, view, posted, modal>> /\ Env

\* OnTimer, kAuthGraceTimerId: the URL is known by now, or the ticks ran out
GraceTimer == /\ Pausing /\ grace
              /\ grace' = FALSE /\ NavigateToDsh
              /\ UNCHANGED <<threadVars, procVars, smVars, ui, view, posted, modal>> /\ Env

\* InitWebView2's callbacks
ViewReady == /\ ui = "loop" /\ view = "init" /\ view' = "ready"
             /\ UNCHANGED <<threadVars, procVars, smVars, ui, posted, modal, grace, page>>
             /\ Env
ViewFails == /\ ui = "loop" /\ view = "init" /\ view' = "failed"
             /\ modal' = Append(modal, "fatal")
             /\ UNCHANGED <<threadVars, procVars, smVars, ui, posted, grace, page>> /\ Env

---------------------------------------------------------------------------
(* Remote Connect.                                                           *)

Box == modal' = Append(modal, "note")
BridgeOnly == UNCHANGED <<thread, updates, procVars, foreign, smVars>>
NoServer == BridgeOnly /\ UNCHANGED left

\* StopBridge kills the bridge; a line left in the pipe is read or is lost,
\* and a line that was read is posted all the same
StopBridge ==
    /\ bridgeRunning' = FALSE /\ bridge' = "none" /\ pipe' = None
    /\ \/ posted' = posted
       \/ pipe # None /\ posted' = Append(posted, pipe)

\* A running bridge is stopped; the register timer is not
RemoteOff == /\ UserActs /\ bridgeRunning /\ left.toggle > 0
             /\ StopBridge /\ Spend("toggle")
             /\ UNCHANGED <<ui, view, modal, grace, page, bridgeToken, registered,
                            registerTimer, hostToken, relayKnows>>
             /\ BridgeOnly
\* StartBridge spawns the bridge with the token saved so far, or gives up: with
\* a box (no node, no script) or without (no pipe, no process)
StartBridge ==
    \/ /\ bridgeRunning' = TRUE /\ bridge' = "running"
       /\ bridgeToken' = hostToken /\ UNCHANGED modal
    \/ /\ Box \/ UNCHANGED modal
       /\ UNCHANGED <<bridgeRunning, bridge, bridgeToken>>
\* The timer is armed before StartBridge, and stays armed when that gives up
RemoteOn == /\ UserActs /\ ~bridgeRunning /\ left.toggle > 0
            /\ registered' = FALSE /\ registerTimer' = TRUE /\ Spend("toggle")
            /\ StartBridge
            /\ UNCHANGED <<ui, view, posted, grace, page, pipe, hostToken, relayKnows>>
            /\ BridgeOnly

\* Faulty form of RegisterTimer: the user is told, the bridge is left running.
RegisterTimerTells ==
    /\ Pausing /\ registerTimer /\ ~registered
    /\ registerTimer' = FALSE /\ Box
    /\ UNCHANGED <<ui, view, posted, grace, page, bridge, pipe, bridgeToken, bridgeRunning,
                   registered, hostToken, relayKnows>>
    /\ NoServer

\* OnTimer, kRegisterTimerId: the relay did not answer in time
RegisterTimer ==
    /\ Pausing /\ registerTimer /\ ~registered
    /\ registerTimer' = FALSE /\ StopBridge /\ Box
    /\ UNCHANGED <<ui, view, grace, page, bridgeToken, registered, hostToken,
                   relayKnows>>
    /\ NoServer

\* The bridge registers a host the relay does not know, or presents its token
BridgeSays ==
    /\ bridge = "running" /\ pipe = None /\ left.line > 0 /\ Spend("line")
    /\ \/ /\ bridgeToken /\ pipe' = "online"
          /\ UNCHANGED <<bridgeToken, relayKnows>>
       \/ /\ ~bridgeToken /\ ~relayKnows /\ pipe' = "registered"
          /\ bridgeToken' = TRUE /\ relayKnows' = TRUE
    /\ UNCHANGED <<uiVars, bridge, bridgeRunning, registered, registerTimer,
                   hostToken>>
    /\ BridgeOnly
\* The bridge ends by itself: bridgeRunning_ stays set until the user toggles
BridgeEnds ==
    /\ bridge = "running" /\ bridge' = "exited"
    /\ UNCHANGED <<uiVars, pipe, bridgeToken, bridgeRunning, registered,
                   registerTimer, hostToken, relayKnows>>
    /\ NoServer
BridgeReaderThread ==
    /\ ui # "gone" /\ pipe # None
    /\ Post(pipe) /\ pipe' = None
    /\ UNCHANGED <<bridge, bridgeToken, bridgeRunning, registered,
                   registerTimer, hostToken, relayKnows>>
    /\ NoServer

\* OnBridgeLine: both events end the wait and show the pairing dialog, whose
\* loop dispatches on; only "registered" brings a token to save
OnBridgeLine ==
    /\ ui = "loop" /\ posted # <<>> /\ Head(posted) \in Line
    /\ posted' = Tail(posted)
    /\ registered' = TRUE /\ registerTimer' = FALSE
    /\ hostToken' = (hostToken \/ Head(posted) = "registered")
    /\ Box
    /\ UNCHANGED <<ui, view, grace, page, bridge, pipe, bridgeToken, bridgeRunning,
                   relayKnows>>
    /\ NoServer

---------------------------------------------------------------------------
UiStep == \/ OnMessage \/ OnBridgeLine \/ GraceTimer \/ RegisterTimer
          \/ NavigationCompleted \/ RestartEnds \/ DestroyEnds \/ Exit
User == PluginsDialog \/ RestartServer \/ UserCloses \/ BoxReturns \/ RemoteOff \/ RemoteOn
Next == \/ \E w \in Worker : WorkerStep(w) \/ WaitTimesOut(w)
        \/ ChildStep \/ ForeignEnds
        \/ UiStep \/ User \/ ViewReady \/ ViewFails
        \/ BridgeSays \/ BridgeEnds \/ BridgeReaderThread

\* Threads that are ready run, the UI thread serves its queue and its timers,
\* WebView2 reports how each navigation ended,
\* and a child stops writing to its log at some time, so that the 180 s that
\* each new output restarts run out.
Fairness == /\ \A w \in Worker : WF_vars(WorkerStep(w)) /\ WF_vars(WaitTimesOut(w))
            /\ WF_vars(UiStep)
Spec == Init /\ [][Next]_vars /\ Fairness

---------------------------------------------------------------------------
(* Properties.                                                               *)

Place == {"idle", "node", "refresh", "halt", "halted", "stop", "stopped",
          "probe", "job", "create", "wait", "check", "done"}
ThreadTypes == /\ thread \in [Worker -> Place] /\ updates \in SUBSET Worker
               /\ left \in Plan
ProcTypes == /\ child \in [Worker -> {"none", "starting", "serving", "ended"}]
             /\ jobOf \in [Worker -> Worker \cup {None}]
             /\ log \in BOOLEAN
SmTypes == /\ g_process \in Worker \cup {None} /\ g_job \in Worker \cup {None}
           /\ g_reusing \in BOOLEAN /\ g_authUrl \in BOOLEAN /\ clash \in BOOLEAN
           /\ refused \subseteq Worker
Dialog == {"fatal", "prompt", "note", "plugins"}
Page == {"none", "asked", "shown", "broken", "lost"}
UiTypes == /\ ui \in {"loop", "restarting", "destroying", "quit", "gone"}
           /\ view \in {"init", "ready", "failed"}  /\ page \in Page
           /\ posted \in Seq(Verdict \cup Line \cup {"update", "close"})
           /\ modal \in Seq(Dialog) /\ grace \in BOOLEAN
BridgeTypes == /\ bridge \in {"none", "running", "exited"} /\ pipe \in Line \cup {None}
               /\ bridgeToken \in BOOLEAN /\ bridgeRunning \in BOOLEAN
               /\ registered \in BOOLEAN /\ registerTimer \in BOOLEAN
               /\ hostToken \in BOOLEAN /\ relayKnows \in BOOLEAN
TypeOK == /\ ThreadTypes /\ ProcTypes /\ SmTypes /\ UiTypes /\ BridgeTypes
          /\ foreign \in Foreign
          /\ ui = "restarting" => left.restart > 0   \* that restart is still to be counted

\* Unless two threads were inside Start or Stop at the same time, every dsh
\* that lives is the one ServerManager holds, in the job it holds, so that the
\* next Stop, or the end of the shell, kills it; or it is one that Windows
\* refused a job or the assignment (server_manager.cpp:210, 272).
ChildHeld ==
    ~clash => \A w \in Worker :
        Live(w) => w \in refused \/ (g_process = w /\ jobOf[w] = g_job /\ g_job # None)

\* Once the shell has ended, no dsh that it started lives, but for those that
\* Windows refused a job: README.md:233 says that it "terminates the whole child
\* process tree on window close".
NoneLeftBehind == ui = "gone" => \A w \in Worker : Live(w) => w \in refused

\* As long as no verdict has been acted on (page = "none"), a thread is still to
\* give one, or it is on its way through the queue, a box or the grace timer: the
\* shell never waits for nobody. It is not said that the overlay goes: it stays
\* when the verdict finds no WebView2 ("lost") and when the page fails ("broken").
Waiting == {"node", "refresh", "halt", "halted", "stop", "stopped",
            "probe", "job", "create", "wait"}
NobodyForgotten ==
    ui = "loop" /\ page = "none" =>
        \/ grace \/ Has(modal, {"fatal"}) \/ Has(posted, Verdict \cup {"close"})
        \/ \E w \in Worker : thread[w] \in Waiting

\* A bridge that has not registered is under the 12 s timer, which stops it
\* and tells the user.
BridgeTimed == bridgeRunning /\ ~registered => registerTimer

\* A wait for a server ends: the page is shown or has failed, or could not be
\* asked for (main_window.cpp:1215), or a fatal box comes up, or the shell ends.
\* Only the first of these hides the overlay, and the last two end the shell.
VerdictComes ==
    page = "none" ~> page \in {"shown", "broken", "lost"} \/ Has(modal, {"fatal"}) \/ ui = "gone"
=============================================================================
