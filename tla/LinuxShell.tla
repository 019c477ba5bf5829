----------------------------- MODULE LinuxShell -----------------------------
(***************************************************************************)
(* The Linux shell (linux/src): the dsh server that it starts, watches and *)
(* restarts (server_manager.cpp, main_window.cpp), the installation of     *)
(* node when there is none, and the bridge process for phones.             *)
(*                                                                         *)
(* A step is one callback of the GTK main loop, or one thing that another  *)
(* process or a worker thread does.  A dialog runs a loop of its own, so a *)
(* callback that opens one is split there.  ServerManager::Stop blocks the *)
(* loop until the process group is dead.                                   *)
(*                                                                         *)
(* Servers that the shell spawns are numbered; the log holds the output of *)
(* the latest one, for every spawn truncates it.  A server is a process    *)
(* group that ends as a whole.  Not modelled: message boxes, which hold no *)
(* state, and the files of the node installation.                          *)
(***************************************************************************)
EXTENDS Naturals

CONSTANTS
    MaxStarts,   \* bound: servers that the shell spawns
    MaxLines,    \* bound: lines that a server writes
    MaxTimers,   \* bound: poll timers, grace timers and closed installs
    MaxBridges   \* bound: times the user turns the remote connection on

ASSUME ShellAssumption ==
    /\ MaxStarts \in Nat \ {0} /\ MaxLines \in Nat \ {0}
    /\ MaxTimers \in Nat \ {0} /\ MaxBridges \in Nat

VARIABLES
    node,        \* node and npx can be found
    foreign,     \* what another program has on the configured port
    server,      \* the servers the shell has spawned: phase and port
    spawned,     \* how many
    activePort,  \* g_activePort
    childPid,    \* g_childPid; its watch (g_childWatchId) goes with it
    running,     \* g_running
    lines,       \* lines in the log
    urlLine,     \* the line with the tokened URL, 0 if there is none
    logPos,      \* how far the window has read the log
    authUrl,     \* authUrl_: the server it is the URL of
    window,      \* not yet shown, open, closed
    serverReady, \* serverReady_: there is nothing to poll for
    polls,       \* OnPollServer timers
    overdue,     \* three minutes since pollStartedUs_
    graces,      \* NavigateGraceTick timers
    page,        \* what the web view loaded last
    install,     \* the dialog of the node installation is open
    orphans,     \* installations whose dialog was closed
    bridge,      \* the process bridgePid_
    attempt,     \* times the remote connection was turned on
    timers,      \* register timers, by the attempt they were armed for
    timeoutId,   \* registerTimeoutId_
    registered   \* registered_

serverVars == <<node, foreign, server, spawned, activePort, childPid, running,
                lines, urlLine>>
windowVars == <<logPos, authUrl, window, serverReady, polls, overdue, graces,
                page, install, orphans>>
bridgeVars == <<bridge, attempt, timers, timeoutId, registered>>
vars == <<serverVars, windowVars, bridgeVars>>

Port == 1..2      \* the configured port, and the next one
Spawn == 1..MaxStarts
Servers == [Spawn -> [phase : {"unborn", "starting", "serving", "announced", "gone"},
                      port : Port]]
NoPage == [auth |-> 0, port |-> 0]

Init ==
    /\ node \in BOOLEAN
    /\ foreign \in {"none", "web", "other"}
    /\ server = [s \in Spawn |-> [phase |-> "unborn", port |-> 1]]
    /\ spawned = 0 /\ activePort = 0 /\ childPid = 0 /\ running = FALSE
    /\ lines = 0 /\ urlLine = 0 /\ logPos = 0 /\ authUrl = 0
    /\ window = "new" /\ serverReady = FALSE /\ polls = 0 /\ overdue = FALSE
    /\ graces = 0 /\ page = NoPage
    /\ install = FALSE /\ orphans = 0
    /\ bridge = "none" /\ attempt = 0 /\ timers = {} /\ timeoutId = 0
    /\ registered = FALSE

-----------------------------------------------------------------------------
(* ServerManager. *)

Alive(srv, s) == srv[s].phase \in {"starting", "serving", "announced"}

Serving(srv, p) ==
    \E s \in Spawn : srv[s].phase \in {"serving", "announced"} /\ srv[s].port = p

TcpProbe(srv, p) == (p = 1 /\ foreign # "none") \/ Serving(srv, p)
LooksLikeDshWeb(srv, p) == (p = 1 /\ foreign = "web") \/ Serving(srv, p)

\* The configured port if dsh answers there, else the first that is free.
ResolvePort(srv) ==
    IF LooksLikeDshWeb(srv, 1) \/ \A p \in Port : TcpProbe(srv, p) THEN 1
    ELSE CHOOSE p \in Port : ~TcpProbe(srv, p) /\ \A q \in Port : q < p => TcpProbe(srv, q)

\* Start, with the servers and the pid that a Stop before it has left.  It
\* returns running'.  A server that answers already is used as it is.
Start(srv, pid, on) ==
    IF on \/ ~node'
    THEN /\ running' = on /\ childPid' = pid /\ server' = srv
         /\ UNCHANGED <<activePort, spawned, lines, urlLine>>
    ELSE LET p == ResolvePort(srv) IN
         /\ activePort' = p
         /\ IF TcpProbe(srv, p)
            THEN /\ running' = TRUE /\ childPid' = pid /\ server' = srv
                 /\ UNCHANGED <<spawned, lines, urlLine>>
            ELSE /\ lines' = 0 /\ urlLine' = 0
                 /\ \/ /\ spawned' = spawned + 1 /\ childPid' = spawned'
                       /\ running' = TRUE
                       /\ server' = [srv EXCEPT ![spawned'] =
                                       [phase |-> "starting", port |-> p]]
                    \/ /\ running' = FALSE /\ childPid' = pid /\ server' = srv
                       /\ UNCHANGED spawned

\* Faulty form of Stopped: only the leader of the process group is killed.
StoppedLeader == server

\* Stop: the process group of the child is dead when it returns.
Stopped == IF childPid = 0 THEN server ELSE [server EXCEPT ![childPid].phase = "gone"]

\* The child watch.
OnChildExited ==
    /\ window = "open" /\ childPid # 0
    /\ ~Alive(server, childPid)
    /\ childPid' = 0 /\ running' = FALSE
    /\ UNCHANGED <<node, foreign, server, spawned, activePort, lines, urlLine,
                   windowVars, bridgeVars>>

-----------------------------------------------------------------------------
(* MainWindow: starting, polling, loading the page. *)

\* OnServerFailed: without node the installation begins, else an error shows.
OnServerFailed ==
    /\ serverReady' = TRUE
    /\ install' = (install \/ ~node)

\* What every start but the first does after ServerManager::Start.
PollAgain == serverReady' = FALSE /\ overdue' = FALSE /\ polls' = polls + 1

\* StartServerAndPoll.
Launch ==
    /\ window = "new" /\ window' = "open"
    /\ UNCHANGED node
    /\ Start(server, childPid, running)
    /\ IF running' THEN PollAgain /\ UNCHANGED install
       ELSE OnServerFailed /\ UNCHANGED <<polls, overdue>>
    /\ UNCHANGED <<foreign, logPos, authUrl, graces, page, orphans, bridgeVars>>

\* RestartServer, from the plugins dialog; the update prompt does the same, and
\* may lie over the dialog of an installation.
RestartServer ==
    /\ window = "open"
    /\ polls < MaxTimers /\ spawned < MaxStarts
    /\ UNCHANGED node
    /\ Start(Stopped, 0, FALSE)
    /\ PollAgain
    /\ UNCHANGED <<foreign, logPos, authUrl, window, graces, page, install,
                   orphans, bridgeVars>>

\* DrainServerLogs: a log that is shorter than what was read was truncated.
Grew == lines > logPos
DrainServerLogs ==
    /\ logPos' = IF Grew THEN lines ELSE IF lines < logPos THEN 0 ELSE logPos
    /\ authUrl' = IF urlLine > logPos THEN spawned ELSE authUrl

NavigateToDsh(auth) == page' = [auth |-> auth, port |-> activePort]

\* Faulty form of OnServerReady: it goes on polling.
ReadyForgotten ==
    /\ UNCHANGED serverReady
    /\ NavigateToDsh(authUrl') /\ UNCHANGED graces

\* OnServerReady and NavigateToDshWithAuth.
OnServerReady ==
    /\ serverReady' = TRUE
    /\ IF authUrl' = 0 /\ childPid # 0
       THEN graces' = graces + 1 /\ UNCHANGED page
       ELSE NavigateToDsh(authUrl') /\ UNCHANGED graces

\* The timer finds that the start is judged already.
PollEnds ==
    /\ serverReady
    /\ polls' = polls - 1
    /\ UNCHANGED <<logPos, authUrl, serverReady, overdue, graces, page, install>>

PollFails ==
    /\ ~serverReady
    /\ \/ ~running /\ UNCHANGED <<logPos, authUrl>>
       \/ running /\ overdue /\ ~Grew /\ DrainServerLogs
    /\ OnServerFailed
    /\ polls' = polls - 1
    /\ UNCHANGED <<overdue, graces, page>>

PollGoesOn ==
    /\ ~serverReady /\ running /\ (overdue => Grew)
    /\ DrainServerLogs
    /\ overdue' = FALSE
    /\ IF TcpProbe(server, activePort)
       THEN OnServerReady /\ polls' = polls - 1
       ELSE UNCHANGED <<serverReady, polls, graces, page>>
    /\ UNCHANGED install

OnPollServer ==
    /\ window = "open" /\ polls > 0
    /\ PollEnds \/ PollFails \/ PollGoesOn
    /\ UNCHANGED <<serverVars, window, orphans, bridgeVars>>

\* Three minutes since the start or the last output.
ThreeMinutes ==
    /\ window = "open" /\ polls > 0 /\ ~serverReady
    /\ ~overdue /\ overdue' = TRUE
    /\ UNCHANGED <<serverVars, logPos, authUrl, window, serverReady, polls, graces,
                   page, install, orphans, bridgeVars>>

\* The URL is there, or twenty ticks are over.
NavigateGraceTick ==
    /\ window = "open" /\ graces > 0
    /\ graces' = graces - 1
    /\ NavigateToDsh(authUrl)
    /\ UNCHANGED <<serverVars, logPos, authUrl, window, serverReady, polls, overdue,
                   install, orphans, bridgeVars>>

\* NodeRuntimeManager::Provide.  It removes the runtime that is there before it
\* puts its own: when it fails, what another installation has left may be gone.
Provide(ok) ==
    \/ ok /\ node' = TRUE
    \/ ~ok /\ node' \in {node, FALSE}

\* The installation is over: with node, the server starts again.
InstallDone(ok) ==
    /\ window = "open" /\ install /\ install' = FALSE
    /\ polls < MaxTimers /\ spawned < MaxStarts
    /\ Provide(ok)
    /\ IF ok THEN Start(server, childPid, running) /\ PollAgain
       ELSE UNCHANGED <<server, spawned, activePort, childPid, running, lines, urlLine,
                        serverReady, overdue, polls>>
    /\ UNCHANGED <<foreign, logPos, authUrl, window, graces, page, orphans, bridgeVars>>

\* The user closes its dialog; the worker goes on.
CloseInstall ==
    /\ window = "open" /\ install /\ install' = FALSE
    /\ orphans < MaxTimers /\ orphans' = orphans + 1
    /\ UNCHANGED <<serverVars, logPos, authUrl, window, serverReady, polls, overdue,
                   graces, page, bridgeVars>>

OrphanDone(ok) ==
    /\ window = "open" /\ orphans > 0 /\ orphans' = orphans - 1
    /\ Provide(ok)
    /\ UNCHANGED <<foreign, server, spawned, activePort, childPid, running, lines, urlLine,
                   logPos, authUrl, window, serverReady, polls, overdue, graces, page,
                   install, bridgeVars>>

\* OnWindowDelete: the server goes, the bridge stays.
Close ==
    /\ window = "open" /\ ~install /\ window' = "closed"
    /\ server' = Stopped /\ childPid' = 0 /\ running' = FALSE
    /\ UNCHANGED <<node, foreign, spawned, activePort, lines, urlLine, logPos, authUrl,
                   serverReady, polls, overdue, graces, page, install, orphans, bridgeVars>>

-----------------------------------------------------------------------------
(* MainWindow: the bridge. *)

\* Faulty form of Armed: the register timer is not armed.
NotArmed(n) == UNCHANGED <<timers, timeoutId>>
Armed(n) == timers' = timers \cup {n} /\ timeoutId' = n

\* OnMobileRemoteActivate without a bridge: the register timer is armed, then
\* StartMobileBridge starts one, unless script or node is missing.
TurnOn ==
    /\ window = "open" /\ ~install /\ bridge = "none" /\ attempt < MaxBridges
    /\ attempt' = attempt + 1
    /\ registered' = FALSE
    /\ Armed(attempt')
    /\ bridge' \in {"none"} \cup (IF node THEN {"live"} ELSE {})
    /\ UNCHANGED <<serverVars, windowVars>>

\* StopMobileBridge: the process is gone when OnBridgeExit has seen it.
StopMobileBridge == bridge' = IF bridge = "live" THEN "dying" ELSE bridge

TurnOff ==
    /\ window = "open" /\ ~install /\ bridge # "none"
    /\ StopMobileBridge
    /\ UNCHANGED <<serverVars, windowVars, attempt, timers, timeoutId, registered>>

\* A register timer stops whatever bridge there is.
RegisterTimeout(n) ==
    /\ window = "open" /\ n \in timers
    /\ timers' = timers \ {n}
    /\ IF registered THEN UNCHANGED bridge ELSE StopMobileBridge
    /\ UNCHANGED <<serverVars, windowVars, attempt, timeoutId, registered>>

\* OnBridgeOutput: "registered" or "online".
OnBridgeOutput ==
    /\ window = "open" /\ bridge # "none"
    /\ registered' = TRUE
    /\ timers' = timers \ {timeoutId} /\ timeoutId' = 0
    /\ UNCHANGED <<serverVars, windowVars, bridge, attempt>>

OnBridgeExit ==
    /\ window = "open" /\ bridge = "dying" /\ bridge' = "none"
    /\ UNCHANGED <<serverVars, windowVars, attempt, timers, timeoutId, registered>>

-----------------------------------------------------------------------------
(* Other processes. *)

BridgeCrashes ==
    /\ bridge = "live" /\ bridge' = "dying"
    /\ UNCHANGED <<serverVars, windowVars, attempt, timers, timeoutId, registered>>

\* dsh: it opens its port or ends, then prints its URL, and may end any time.
ServerListens(s) ==
    /\ server[s].phase = "starting"
    /\ server' = [server EXCEPT ![s].phase =
                    IF TcpProbe(server, server[s].port) THEN "gone" ELSE "serving"]
    /\ UNCHANGED <<node, foreign, spawned, activePort, childPid, running, lines, urlLine,
                   windowVars, bridgeVars>>

ServerWrites(s) ==
    /\ Alive(server, s) /\ lines < MaxLines /\ lines' = lines + 1
    /\ \/ UNCHANGED <<server, urlLine>>
       \/ /\ server[s].phase = "serving"
          /\ server' = [server EXCEPT ![s].phase = "announced"]
          /\ urlLine' = lines'
    /\ UNCHANGED <<node, foreign, spawned, activePort, childPid, running,
                   windowVars, bridgeVars>>

ServerExits(s) ==
    /\ Alive(server, s)
    /\ server' = [server EXCEPT ![s].phase = "gone"]
    /\ UNCHANGED <<node, foreign, spawned, activePort, childPid, running, lines, urlLine,
                   windowVars, bridgeVars>>

\* Another program opens or leaves the configured port.
OtherProgram ==
    /\ ~Serving(server, 1)
    /\ foreign' \in {"none", "web", "other"} \ {foreign}
    /\ UNCHANGED <<node, server, spawned, activePort, childPid, running, lines, urlLine,
                   windowVars, bridgeVars>>

-----------------------------------------------------------------------------
User == Launch \/ RestartServer \/ CloseInstall \/ Close \/ TurnOn \/ TurnOff

Loop == OnChildExited \/ OnPollServer \/ ThreeMinutes \/ NavigateGraceTick
        \/ OnBridgeOutput \/ OnBridgeExit
        \/ (\E n \in timers : RegisterTimeout(n))
        \/ (\E ok \in BOOLEAN : InstallDone(ok) \/ OrphanDone(ok))

Others == BridgeCrashes \/ OtherProgram
          \/ \E s \in Spawn : ServerListens(s) \/ ServerWrites(s) \/ ServerExits(s)

Next == User \/ Loop \/ Others

Spec == Init /\ [][Next]_vars

\* Timers of the main loop fire.
FairSpec ==
    /\ Spec
    /\ WF_vars(OnPollServer) /\ WF_vars(ThreeMinutes)
    /\ WF_vars(OnBridgeExit) /\ WF_vars(\E n \in timers : RegisterTimeout(n))

-----------------------------------------------------------------------------
(* Properties. *)

ServerTypes ==
    /\ node \in BOOLEAN /\ foreign \in {"none", "web", "other"}
    /\ server \in Servers
    /\ spawned \in 0..MaxStarts /\ childPid \in 0..MaxStarts
    /\ activePort \in {0} \cup Port /\ running \in BOOLEAN
    /\ lines \in 0..MaxLines /\ urlLine \in 0..MaxLines

WindowTypes ==
    /\ logPos \in 0..MaxLines /\ authUrl \in 0..MaxStarts
    /\ window \in {"new", "open", "closed"} /\ serverReady \in BOOLEAN
    /\ polls \in 0..MaxTimers /\ overdue \in BOOLEAN /\ graces \in Nat
    /\ page \in [auth : 0..MaxStarts, port : {0} \cup Port]
    /\ install \in BOOLEAN /\ orphans \in 0..MaxTimers

BridgeTypes ==
    /\ bridge \in {"none", "live", "dying"} /\ registered \in BOOLEAN
    /\ attempt \in 0..MaxBridges /\ timers \subseteq 1..MaxBridges
    /\ timeoutId \in 0..MaxBridges

\* Types; no counter leaves its bound.
TypeOK == ServerTypes /\ WindowTypes /\ BridgeTypes

\* Over starts, restarts, installations and servers that end by themselves, the
\* only server that runs is the one the shell can stop, none outlives the window,
\* and g_running never denies a child (Start would then start a second one).
OneServer ==
    /\ childPid # 0 => running
    /\ \A s \in Spawn : Alive(server, s) => s = childPid
    /\ window = "closed" => \A s \in Spawn : ~Alive(server, s)

\* A start that has not been judged is watched by a timer: with the timers of
\* earlier starts about, which any verdict ends, it is never left without one.
StartAwaited == window = "open" /\ ~serverReady => polls > 0

\* Every start is judged in the end, whatever becomes of its server and of the
\* other programs on the port: output gives it more time, but not for ever (a
\* server that writes without end waits without end, which MaxLines excludes).
StartJudged == (window = "open" /\ ~serverReady) ~> (serverReady \/ window = "closed")

\* A bridge that has not registered has its own register timer running.
BridgeAwaited ==
    window = "open" /\ bridge = "live" /\ ~registered => timeoutId = attempt /\ attempt \in timers

\* The remote connection never hangs: it registers, or its process goes.
BridgeSettles ==
    (window = "open" /\ bridge = "live") ~> (registered \/ bridge = "none" \/ window = "closed")
=============================================================================
