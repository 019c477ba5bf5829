-------------------------- MODULE LinuxShellProofs --------------------------
(***************************************************************************)
(* Theorems about LinuxShell: types, one server, a timer for every start   *)
(* and a timer for every bridge.                                           *)
(***************************************************************************)
EXTENDS LinuxShell, TLAPS

\* Before the window shows, nothing has been started.
NothingYet ==
    window = "new" =>
        spawned = 0 /\ childPid = 0 /\ running = FALSE /\ polls = 0 /\ bridge = "none"

IInv == TypeOK /\ NothingYet /\ OneServer /\ StartAwaited /\ BridgeAwaited

\* The bounds as numbers.
LEMMA Bounds ==
    /\ MaxStarts \in Nat /\ MaxLines \in Nat /\ MaxTimers \in Nat /\ MaxBridges \in Nat
    /\ 0 < MaxStarts /\ 0 < MaxLines /\ 0 < MaxTimers
    /\ 0 \in 0..MaxStarts /\ 0 \in 0..MaxLines /\ 0 \in 0..MaxTimers /\ 0 \in 0..MaxBridges
BY ShellAssumption

-----------------------------------------------------------------------------
(* ServerManager, whatever the caller does beside it. *)

\* A free port, or the configured one, which is in use.
LEMMA PortResolved ==
    ASSUME NEW srv PROVE ResolvePort(srv) \in Port
BY DEF ResolvePort, Port

\* What Stop leaves: the same table with no server alive.
LEMMA StopKills ==
    ASSUME TypeOK, OneServer
    PROVE  /\ Stopped \in Servers
           /\ \A s \in Spawn : ~Alive(Stopped, s)
<1>1. CASE childPid = 0
  BY <1>1, Bounds DEF Stopped, TypeOK, ServerTypes, OneServer, Alive, Spawn
<1>2. CASE childPid # 0
  <2>1. childPid \in Spawn
    BY <1>2, Bounds DEF TypeOK, ServerTypes, Spawn
  <2>2. Stopped = [server EXCEPT ![childPid].phase = "gone"]
    BY <1>2 DEF Stopped
  <2>3. \A s \in Spawn : Stopped[s] = IF s = childPid THEN [server[s] EXCEPT !.phase = "gone"]
                                      ELSE server[s]
    BY <2>1, <2>2 DEF TypeOK, ServerTypes, Servers
  <2>4. \A s \in Spawn : Stopped[s].phase = IF s = childPid THEN "gone" ELSE server[s].phase
    BY <2>1, <2>3 DEF TypeOK, ServerTypes, Servers
  <2>5. Stopped \in Servers
    BY <2>1, <2>2 DEF TypeOK, ServerTypes, Servers
  <2> QED BY <2>4, <2>5 DEF OneServer, Alive
<1> QED BY <1>1, <1>2

\* What Start promises when no server is alive, or a server runs already.
StartPromise ==
    /\ server' \in Servers
    /\ spawned' \in 0..MaxStarts /\ childPid' \in 0..MaxStarts
    /\ activePort' \in {0} \cup Port /\ running' \in BOOLEAN
    /\ lines' \in 0..MaxLines /\ urlLine' \in 0..MaxLines
    /\ childPid' # 0 => running'
    /\ \A s \in Spawn : Alive(server', s) => s = childPid'

LEMMA StartKeeps ==
    ASSUME NEW srv, NEW pid \in 0..MaxStarts, NEW on \in BOOLEAN,
           TypeOK, spawned < MaxStarts,
           srv \in Servers,
           pid # 0 => on,
           \A s \in Spawn : Alive(srv, s) => s = pid,
           Start(srv, pid, on)
    PROVE  StartPromise
<1> DEFINE p == ResolvePort(srv)
<1>p. p \in Port
  BY PortResolved
<1>b. 0 \in 0..MaxLines
  BY ShellAssumption
<1>1. CASE on \/ ~node'
  BY <1>1 DEF Start, StartPromise, TypeOK, ServerTypes
<1>2. CASE ~(on \/ ~node') /\ TcpProbe(srv, p)
  BY <1>2, <1>p DEF Start, StartPromise, TypeOK, ServerTypes
<1>3. CASE ~(on \/ ~node') /\ ~TcpProbe(srv, p)
  <2>0. /\ activePort' = p /\ lines' = 0 /\ urlLine' = 0
        /\ \/ /\ spawned' = spawned + 1 /\ childPid' = spawned'
              /\ running' = TRUE
              /\ server' = [srv EXCEPT ![spawned'] = [phase |-> "starting", port |-> p]]
           \/ /\ running' = FALSE /\ childPid' = pid /\ server' = srv
              /\ UNCHANGED spawned
    BY <1>3 DEF Start
  <2> HIDE DEF p
  <2>1. CASE running' = FALSE /\ childPid' = pid /\ server' = srv /\ UNCHANGED spawned
    BY <1>3, <1>p, <1>b, <2>0, <2>1 DEF StartPromise, TypeOK, ServerTypes
  <2>2. CASE /\ spawned' = spawned + 1 /\ childPid' = spawned' /\ running' = TRUE
             /\ server' = [srv EXCEPT ![spawned'] = [phase |-> "starting", port |-> p]]
    <3>1. pid = 0
      BY <1>3
    <3>2. spawned' \in Spawn
      BY <2>2, Bounds DEF TypeOK, ServerTypes, Spawn
    <3>3. server' \in Servers
      BY <2>2, <3>2, <1>p DEF Servers
    <3>4. \A s \in Spawn : Alive(server', s) => s = childPid'
      BY <2>2, <3>1, <3>2, Bounds DEF Alive, Spawn
    <3>5. spawned' \in 0..MaxStarts /\ childPid' \in 0..MaxStarts
      BY <2>2, <3>2, Bounds DEF Spawn
    <3> QED BY <2>0, <2>2, <3>3, <3>4, <3>5, <1>p, <1>b DEF StartPromise
  <2> QED BY <2>0, <2>1, <2>2
<1> QED BY <1>1, <1>2, <1>3

-----------------------------------------------------------------------------
(* The invariant. *)

LEMMA InitOK == Init => IInv
<1> SUFFICES ASSUME Init PROVE IInv
  OBVIOUS
<1>1. server \in Servers /\ \A s \in Spawn : ~Alive(server, s)
  BY DEF Init, Servers, Port, Alive
<1>2. ServerTypes
  BY <1>1, Bounds DEF Init, ServerTypes
<1>3. WindowTypes
  BY Bounds DEF Init, WindowTypes, NoPage
<1>4. BridgeTypes
  BY Bounds DEF Init, BridgeTypes
<1>5. NothingYet /\ OneServer /\ StartAwaited /\ BridgeAwaited
  BY <1>1 DEF Init, NothingYet, OneServer, StartAwaited, BridgeAwaited
<1> QED BY <1>2, <1>3, <1>4, <1>5 DEF IInv, TypeOK

\* What a step does not touch keeps its part of the invariant.
LEMMA Frames ==
    /\ UNCHANGED serverVars /\ ServerTypes => ServerTypes'
    /\ UNCHANGED windowVars /\ WindowTypes => WindowTypes'
    /\ UNCHANGED bridgeVars /\ BridgeTypes => BridgeTypes'
BY DEF serverVars, windowVars, bridgeVars, ServerTypes, WindowTypes, BridgeTypes

\* DrainServerLogs and the navigation keep the types of what they set.
LEMMA DrainTyped ==
    ASSUME ServerTypes, WindowTypes, DrainServerLogs
    PROVE  logPos' \in 0..MaxLines /\ authUrl' \in 0..MaxStarts
BY Bounds DEF ServerTypes, WindowTypes, DrainServerLogs, Grew

LEMMA NavigateTyped ==
    ASSUME ServerTypes, NEW auth \in 0..MaxStarts, NavigateToDsh(auth)
    PROVE  page' \in [auth : 0..MaxStarts, port : {0} \cup Port]
BY DEF ServerTypes, NavigateToDsh

\* A new start is polled for.
LEMMA PollAgainTyped ==
    ASSUME WindowTypes, PollAgain, polls < MaxTimers
    PROVE  serverReady' \in BOOLEAN /\ overdue' \in BOOLEAN /\ polls' \in 0..MaxTimers
           /\ polls' > 0
<1>1. polls \in 0..MaxTimers /\ polls < MaxTimers
  BY DEF WindowTypes
<1>2. polls + 1 \in 0..MaxTimers /\ polls + 1 > 0
  BY <1>1, Bounds
<1> QED BY <1>2 DEF PollAgain

\* The callbacks that start a server.
LEMMA LaunchOK == ASSUME IInv, Launch PROVE IInv'
<1>0. ServerTypes /\ WindowTypes /\ BridgeTypes /\ NothingYet /\ OneServer /\ TypeOK
  BY DEF IInv, TypeOK
<1>s. spawned = 0 /\ childPid = 0 /\ running = FALSE /\ polls = 0 /\ bridge = "none"
  BY <1>0 DEF Launch, NothingYet
<1>1. StartPromise
  <2>1. \A s \in Spawn : Alive(server, s) => s = childPid
    BY <1>0 DEF OneServer
  <2> QED BY <1>0, <1>s, <2>1, StartKeeps, Bounds DEF Launch, ServerTypes
<1>2. ServerTypes'
  BY <1>0, <1>1 DEF Launch, StartPromise, ServerTypes
<1>3. WindowTypes' /\ StartAwaited'
  <2>1. CASE running' = TRUE
    <3>1. PollAgain /\ UNCHANGED install
      BY <2>1 DEF Launch
    <3>2. serverReady' \in BOOLEAN /\ overdue' \in BOOLEAN /\ polls' \in 0..MaxTimers
          /\ polls' > 0
      BY <1>0, <1>s, <3>1, PollAgainTyped, Bounds
    <3> QED BY <1>0, <3>1, <3>2 DEF Launch, WindowTypes, StartAwaited
  <2>2. CASE running' = FALSE
    <3>1. OnServerFailed /\ UNCHANGED <<polls, overdue>>
      BY <2>2 DEF Launch
    <3> QED BY <1>0, <3>1 DEF Launch, OnServerFailed, WindowTypes, StartAwaited
  <2> QED BY <1>1, <2>1, <2>2 DEF StartPromise
<1>4. BridgeTypes'
  BY <1>0, Frames DEF Launch
<1>5. OneServer' /\ NothingYet' /\ BridgeAwaited'
  BY <1>1, <1>s DEF Launch, StartPromise, OneServer, NothingYet, BridgeAwaited, bridgeVars
<1> QED BY <1>2, <1>3, <1>4, <1>5 DEF IInv, TypeOK

LEMMA RestartServerOK == ASSUME IInv, RestartServer PROVE IInv'
<1>0. ServerTypes /\ WindowTypes /\ BridgeTypes /\ OneServer /\ TypeOK /\ BridgeAwaited
  BY DEF IInv, TypeOK
<1>1. StartPromise
  <2>1. Stopped \in Servers /\ \A s \in Spawn : ~Alive(Stopped, s)
    BY <1>0, StopKills
  <2>2. 0 \in 0..MaxStarts /\ FALSE \in BOOLEAN /\ spawned < MaxStarts
        /\ Start(Stopped, 0, FALSE)
    BY Bounds DEF RestartServer
  <2> QED BY <1>0, <2>1, <2>2, StartKeeps
<1>2. ServerTypes'
  BY <1>0, <1>1 DEF RestartServer, StartPromise, ServerTypes
<1>3. WindowTypes' /\ StartAwaited'
  BY <1>0, PollAgainTyped DEF RestartServer, WindowTypes, StartAwaited
<1>4. BridgeTypes'
  BY <1>0, Frames DEF RestartServer
<1>5. OneServer' /\ NothingYet' /\ BridgeAwaited'
  BY <1>0, <1>1 DEF RestartServer, StartPromise, OneServer, NothingYet, BridgeAwaited, bridgeVars
<1> QED BY <1>2, <1>3, <1>4, <1>5 DEF IInv, TypeOK

LEMMA InstallDoneOK == ASSUME IInv, NEW ok \in BOOLEAN, InstallDone(ok) PROVE IInv'
<1>0. ServerTypes /\ WindowTypes /\ BridgeTypes /\ OneServer /\ TypeOK /\ BridgeAwaited
      /\ StartAwaited
  BY DEF IInv, TypeOK
<1>n. node' \in BOOLEAN
  BY <1>0 DEF InstallDone, Provide, ServerTypes
<1>4. BridgeTypes'
  BY <1>0, Frames DEF InstallDone
<1>6. NothingYet' /\ BridgeAwaited'
  BY <1>0 DEF InstallDone, NothingYet, BridgeAwaited, bridgeVars
<1>7. CASE ok
  <2>0. Start(server, childPid, running) /\ PollAgain
    BY <1>7 DEF InstallDone
  <2>1. StartPromise
    <3>1. /\ childPid # 0 => running
          /\ \A s \in Spawn : Alive(server, s) => s = childPid
      BY <1>0 DEF OneServer
    <3> QED BY <1>0, <2>0, <3>1, StartKeeps DEF InstallDone, ServerTypes
  <2>2. ServerTypes'
    BY <1>0, <1>n, <2>1 DEF InstallDone, StartPromise, ServerTypes
  <2>3. WindowTypes' /\ StartAwaited'
    BY <1>0, <2>0, PollAgainTyped DEF InstallDone, WindowTypes, StartAwaited
  <2>4. OneServer'
    BY <1>0, <2>1 DEF InstallDone, StartPromise, OneServer
  <2> QED BY <1>4, <1>6, <2>2, <2>3, <2>4 DEF IInv, TypeOK
<1>8. CASE ~ok
  <2>1. ServerTypes' /\ OneServer'
    BY <1>0, <1>n, <1>8 DEF InstallDone, ServerTypes, OneServer
  <2>2. WindowTypes' /\ StartAwaited'
    BY <1>0, <1>8 DEF InstallDone, WindowTypes, StartAwaited
  <2> QED BY <1>4, <1>6, <2>1, <2>2 DEF IInv, TypeOK
<1> QED BY <1>7, <1>8

\* The callback that polls.
LEMMA OnPollServerOK == ASSUME IInv, OnPollServer PROVE IInv'
<1>0. ServerTypes /\ WindowTypes /\ BridgeTypes /\ OneServer /\ BridgeAwaited /\ StartAwaited
  BY DEF IInv, TypeOK
<1>1. ServerTypes' /\ BridgeTypes'
  BY <1>0, Frames DEF OnPollServer
<1>2. OneServer' /\ NothingYet' /\ BridgeAwaited'
  BY <1>0 DEF OnPollServer, OneServer, NothingYet, BridgeAwaited, serverVars, bridgeVars
<1>p. polls - 1 \in 0..MaxTimers
  BY <1>0, Bounds DEF OnPollServer, WindowTypes
<1>3. WindowTypes' /\ StartAwaited'
  <2>1. CASE PollEnds
    BY <1>0, <1>p, <2>1 DEF OnPollServer, PollEnds, WindowTypes, StartAwaited
  <2>2. CASE PollFails
    <3>1. logPos' \in 0..MaxLines /\ authUrl' \in 0..MaxStarts
      BY <1>0, <2>2, DrainTyped DEF PollFails, WindowTypes
    <3> QED BY <1>0, <1>p, <2>2, <3>1
            DEF OnPollServer, PollFails, OnServerFailed, WindowTypes, StartAwaited
  <2>3. CASE PollGoesOn
    <3>1. authUrl' \in 0..MaxStarts /\ logPos' \in 0..MaxLines
      BY <1>0, <2>3, DrainTyped DEF PollGoesOn
    <3>2. CASE OnServerReady /\ polls' = polls - 1
      <4>1. page' \in [auth : 0..MaxStarts, port : {0} \cup Port] /\ graces' \in Nat
        BY <1>0, <3>1, <3>2, NavigateTyped DEF OnServerReady, WindowTypes
      <4> QED BY <1>0, <1>p, <2>3, <3>1, <3>2, <4>1
              DEF OnPollServer, PollGoesOn, OnServerReady, WindowTypes, StartAwaited
    <3>3. CASE UNCHANGED <<serverReady, polls, graces, page>>
      BY <1>0, <2>3, <3>1, <3>3 DEF OnPollServer, PollGoesOn, WindowTypes, StartAwaited
    <3> QED BY <2>3, <3>2, <3>3 DEF PollGoesOn
  <2> QED BY <2>1, <2>2, <2>3 DEF OnPollServer
<1> QED BY <1>1, <1>2, <1>3 DEF IInv, TypeOK

\* The other callbacks and the user's acts that leave the server alone.
LEMMA WindowStepsOK ==
    ASSUME IInv, NavigateGraceTick \/ ThreeMinutes \/ CloseInstall
    PROVE  IInv'
<1>0. ServerTypes /\ WindowTypes /\ BridgeTypes /\ OneServer /\ BridgeAwaited /\ StartAwaited
  BY DEF IInv, TypeOK
<1>1. ServerTypes' /\ BridgeTypes'
  <2>1. UNCHANGED serverVars /\ UNCHANGED bridgeVars
    BY DEF NavigateGraceTick, ThreeMinutes, CloseInstall, bridgeVars
  <2> QED BY <1>0, <2>1, Frames
<1>2. OneServer' /\ NothingYet' /\ BridgeAwaited' /\ StartAwaited'
  BY <1>0 DEF NavigateGraceTick, ThreeMinutes, CloseInstall, OneServer, NothingYet,
              BridgeAwaited, StartAwaited, serverVars, bridgeVars
<1>3. WindowTypes'
  <2>1. CASE NavigateGraceTick
    <3>1. page' \in [auth : 0..MaxStarts, port : {0} \cup Port]
      BY <1>0, <2>1, NavigateTyped DEF NavigateGraceTick, WindowTypes
    <3> QED BY <1>0, <2>1, <3>1 DEF NavigateGraceTick, WindowTypes
  <2>2. CASE ThreeMinutes
    BY <1>0, <2>2 DEF ThreeMinutes, WindowTypes
  <2>3. CASE CloseInstall
    <3>1. orphans \in 0..MaxTimers /\ orphans < MaxTimers
      BY <1>0, <2>3 DEF CloseInstall, WindowTypes
    <3>2. orphans + 1 \in 0..MaxTimers
      BY <3>1, Bounds
    <3> QED BY <1>0, <2>3, <3>2 DEF CloseInstall, WindowTypes
  <2> QED BY <2>1, <2>2, <2>3
<1> QED BY <1>1, <1>2, <1>3 DEF IInv, TypeOK

LEMMA OrphanDoneOK == ASSUME IInv, NEW ok \in BOOLEAN, OrphanDone(ok) PROVE IInv'
<1>0. ServerTypes /\ WindowTypes /\ BridgeTypes /\ OneServer /\ BridgeAwaited /\ StartAwaited
  BY DEF IInv, TypeOK
<1>1. ServerTypes'
  BY <1>0 DEF OrphanDone, Provide, ServerTypes
<1>2. WindowTypes'
  BY <1>0, Bounds DEF OrphanDone, WindowTypes
<1>3. BridgeTypes'
  BY <1>0, Frames DEF OrphanDone
<1>4. OneServer' /\ NothingYet' /\ BridgeAwaited' /\ StartAwaited'
  BY <1>0 DEF OrphanDone, OneServer, NothingYet, BridgeAwaited, StartAwaited, bridgeVars
<1> QED BY <1>1, <1>2, <1>3, <1>4 DEF IInv, TypeOK

\* The user closes the window: no server outlives it.
LEMMA CloseOK == ASSUME IInv, Close PROVE IInv'
<1>0. ServerTypes /\ WindowTypes /\ BridgeTypes /\ OneServer /\ TypeOK
  BY DEF IInv, TypeOK
<1>1. Stopped \in Servers /\ \A s \in Spawn : ~Alive(Stopped, s)
  BY <1>0, StopKills
<1>2. ServerTypes'
  BY <1>0, <1>1, Bounds DEF Close, ServerTypes
<1>3. WindowTypes' /\ BridgeTypes'
  BY <1>0, Frames DEF Close, WindowTypes
<1>4. OneServer' /\ NothingYet' /\ BridgeAwaited' /\ StartAwaited'
  BY <1>1 DEF Close, OneServer, NothingYet, BridgeAwaited, StartAwaited
<1> QED BY <1>2, <1>3, <1>4 DEF IInv, TypeOK

\* The child watch, and what servers and other programs do by themselves.
LEMMA ProcessStepsOK ==
    ASSUME IInv, OnChildExited \/ OtherProgram
                 \/ \E s \in Spawn : ServerListens(s) \/ ServerWrites(s) \/ ServerExits(s)
    PROVE  IInv'
<1>0. ServerTypes /\ WindowTypes /\ BridgeTypes /\ OneServer /\ BridgeAwaited /\ StartAwaited
      /\ NothingYet
  BY DEF IInv, TypeOK
<1>1. WindowTypes' /\ BridgeTypes'
  <2>1. UNCHANGED windowVars /\ UNCHANGED bridgeVars
    BY DEF OnChildExited, OtherProgram, ServerListens, ServerWrites, ServerExits
  <2> QED BY <1>0, <2>1, Frames
<1>2. NothingYet' /\ BridgeAwaited' /\ StartAwaited'
  BY <1>0 DEF OnChildExited, OtherProgram, ServerListens, ServerWrites, ServerExits,
              NothingYet, BridgeAwaited, StartAwaited, windowVars, bridgeVars
<1>3. ServerTypes' /\ OneServer'
  <2>1. CASE OnChildExited
    BY <1>0, <2>1, Bounds DEF OnChildExited, ServerTypes, OneServer, windowVars
  <2>2. CASE OtherProgram
    BY <1>0, <2>2 DEF OtherProgram, ServerTypes, OneServer, windowVars
  <2>3. CASE \E s \in Spawn : ServerListens(s) \/ ServerWrites(s) \/ ServerExits(s)
    <3> PICK s \in Spawn : ServerListens(s) \/ ServerWrites(s) \/ ServerExits(s)
      BY <2>3
    <3>1. server' \in Servers /\ \A t \in Spawn : Alive(server', t) => Alive(server, t)
      BY <1>0 DEF ServerListens, ServerWrites, ServerExits, ServerTypes, Servers, Alive
    <3>2. lines' \in 0..MaxLines /\ urlLine' \in 0..MaxLines
      BY <1>0, Bounds DEF ServerListens, ServerWrites, ServerExits, ServerTypes
    <3>3. UNCHANGED <<node, foreign, spawned, activePort, childPid, running, window>>
      BY DEF ServerListens, ServerWrites, ServerExits, windowVars
    <3> QED BY <1>0, <3>1, <3>2, <3>3 DEF ServerTypes, OneServer
  <2> QED BY <2>1, <2>2, <2>3
<1> QED BY <1>1, <1>2, <1>3 DEF IInv, TypeOK

\* The bridge and its register timers.
LEMMA BridgeStepsOK ==
    ASSUME IInv, TurnOn \/ TurnOff \/ OnBridgeOutput \/ OnBridgeExit \/ BridgeCrashes
                 \/ (\E n \in timers : RegisterTimeout(n))
    PROVE  IInv'
<1>0. ServerTypes /\ WindowTypes /\ BridgeTypes /\ OneServer /\ BridgeAwaited /\ StartAwaited
      /\ NothingYet
  BY DEF IInv, TypeOK
<1>u. UNCHANGED serverVars /\ UNCHANGED windowVars
  BY DEF TurnOn, TurnOff, OnBridgeOutput, OnBridgeExit, BridgeCrashes, RegisterTimeout
<1>1. ServerTypes' /\ WindowTypes'
  BY <1>0, <1>u, Frames
<1>2. OneServer' /\ StartAwaited'
  BY <1>0, <1>u DEF OneServer, StartAwaited, serverVars, windowVars
<1>3. NothingYet'
  <2>1. bridge = "none" => bridge' = "none" \/ window = "open"
    BY DEF TurnOn, TurnOff, OnBridgeOutput, OnBridgeExit, BridgeCrashes, RegisterTimeout
  <2> QED BY <1>0, <1>u, <2>1 DEF NothingYet, serverVars, windowVars
<1>4. BridgeTypes' /\ BridgeAwaited'
  <2>1. CASE TurnOn
    <3>1. attempt \in 0..MaxBridges /\ attempt < MaxBridges
      BY <1>0, <2>1 DEF TurnOn, BridgeTypes
    <3>2. attempt + 1 \in 0..MaxBridges /\ attempt + 1 \in 1..MaxBridges
      BY <3>1, Bounds
    <3>3. timers' \subseteq 1..MaxBridges
      BY <1>0, <2>1, <3>2 DEF TurnOn, Armed, BridgeTypes
    <3>4. timeoutId' = attempt' /\ attempt' \in timers' /\ attempt' = attempt + 1
      BY <2>1 DEF TurnOn, Armed
    <3> QED BY <2>1, <3>2, <3>3, <3>4 DEF TurnOn, BridgeTypes, BridgeAwaited
  <2>2. CASE TurnOff
    BY <1>0, <2>2 DEF TurnOff, StopMobileBridge, BridgeTypes, BridgeAwaited
  <2>3. CASE OnBridgeOutput
    BY <1>0, <2>3, Bounds DEF OnBridgeOutput, BridgeTypes, BridgeAwaited
  <2>4. CASE OnBridgeExit \/ BridgeCrashes
    BY <1>0, <2>4 DEF OnBridgeExit, BridgeCrashes, BridgeTypes, BridgeAwaited
  <2>5. CASE \E n \in timers : RegisterTimeout(n)
    BY <1>0, <2>5 DEF RegisterTimeout, StopMobileBridge, BridgeTypes, BridgeAwaited
  <2> QED BY <2>1, <2>2, <2>3, <2>4, <2>5
<1> QED BY <1>1, <1>2, <1>3, <1>4 DEF IInv, TypeOK

LEMMA NextOK == ASSUME IInv, [Next]_vars PROVE IInv'
<1>1. CASE UNCHANGED vars
  <2>1. UNCHANGED serverVars /\ UNCHANGED windowVars /\ UNCHANGED bridgeVars
    BY <1>1 DEF vars
  <2>2. TypeOK'
    BY <2>1, Frames DEF IInv, TypeOK
  <2> QED BY <2>1, <2>2 DEF IInv, NothingYet, OneServer, StartAwaited, BridgeAwaited,
                            serverVars, windowVars, bridgeVars
<1>2. CASE User
  BY <1>2, LaunchOK, RestartServerOK, WindowStepsOK, CloseOK, BridgeStepsOK DEF User
<1>3. CASE Loop
  BY <1>3, ProcessStepsOK, OnPollServerOK, WindowStepsOK, InstallDoneOK, OrphanDoneOK,
     BridgeStepsOK DEF Loop
<1>4. CASE Others
  BY <1>4, ProcessStepsOK, BridgeStepsOK DEF Others
<1> QED BY <1>1, <1>2, <1>3, <1>4 DEF Next

LEMMA Invariant == Spec => []IInv
<1>1. Init => IInv
  BY InitOK
<1>2. IInv /\ [Next]_vars => IInv'
  BY NextOK
<1> QED BY <1>1, <1>2, PTL DEF Spec

-----------------------------------------------------------------------------
(* Theorems. *)

\* The state of the server, the window and the bridge keeps its types, for any
\* number of starts, lines, timers and bridges.
THEOREM TypeCorrect == Spec => []TypeOK
<1>1. IInv => TypeOK
  BY DEF IInv
<1> QED BY <1>1, Invariant, PTL

\* The only server that runs is the child that Stop kills (server_manager.cpp),
\* and none outlives the window.
THEOREM OneServerRuns == Spec => []OneServer
<1>1. IInv => OneServer
  BY DEF IInv
<1> QED BY <1>1, Invariant, PTL

\* A start that has not been judged always has a poll timer (main_window.cpp).
THEOREM StartsAwaited == Spec => []StartAwaited
<1>1. IInv => StartAwaited
  BY DEF IInv
<1> QED BY <1>1, Invariant, PTL

\* A bridge that has not registered always has its own register timer
\* (OnMobileRemoteActivate), whatever timers of earlier attempts are about.
THEOREM BridgesAwaited == Spec => []BridgeAwaited
<1>1. IInv => BridgeAwaited
  BY DEF IInv
<1> QED BY <1>1, Invariant, PTL

=============================================================================
