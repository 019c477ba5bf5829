------------------------- MODULE WindowsShellProofs -------------------------
(***************************************************************************)
(* Theorems about WindowsShell: types, the timer of a bridge, a verdict    *)
(* owed to every overlay, and the children that ServerManager holds.       *)
(***************************************************************************)
EXTENDS WindowsShell, TLAPS

Message == Verdict \cup Line \cup {"update", "close"}

LEMMA Bounds == 1 \in Worker /\ None \notin Worker
BY BoundsAssumption DEF Worker

LEMMA ShorterSeq ==
    ASSUME NEW S, NEW q \in Seq(S), q # <<>>
    PROVE  /\ SubSeq(q, 1, Len(q) - 1) \in Seq(S)
           /\ Len(SubSeq(q, 1, Len(q) - 1)) = Len(q) - 1
           /\ \A i \in 1 .. Len(q) - 1 : SubSeq(q, 1, Len(q) - 1)[i] = q[i]
OBVIOUS

-----------------------------------------------------------------------------
(* Types. *)

LEMMA KillJobTypes ==
    ASSUME ProcTypes, NEW j, KillJob(j)
    PROVE  child' \in [Worker -> {"none", "starting", "serving", "ended"}]
BY DEF ProcTypes, KillJob

LEMMA StopBeginTypes ==
    ASSUME ProcTypes, SmTypes, StopBegin PROVE ProcTypes' /\ SmTypes'
<1>1. child' \in [Worker -> {"none", "starting", "serving", "ended"}]
  BY KillJobTypes DEF StopBegin, ProcTypes
<1>2. clash' \in BOOLEAN
  BY DEF StopBegin, Inside
<1> QED BY <1>1, <1>2 DEF StopBegin, ProcTypes, SmTypes

LEMMA StopEndTypes ==
    ASSUME ProcTypes, SmTypes, StopEnd PROVE ProcTypes' /\ SmTypes'
<1>1. child' \in [Worker -> {"none", "starting", "serving", "ended"}]
  BY KillJobTypes DEF StopEnd, ProcTypes
<1> QED BY <1>1 DEF StopEnd, ProcTypes, SmTypes

LEMMA PostTypes ==
    ASSUME UiTypes, NEW m \in Message, Post(m) PROVE UiTypes'
BY DEF UiTypes, Post, Message

LEMMA GotoTypes ==
    ASSUME ThreadTypes, NEW w \in Worker, NEW pc \in Place, Goto(w, pc) PROVE ThreadTypes'
BY DEF ThreadTypes, Goto

LEMMA FinishTypes ==
    ASSUME ThreadTypes, UiTypes, NEW w \in Worker, NEW ok \in BOOLEAN, Finish(w, ok)
    PROVE  ThreadTypes' /\ UiTypes'
<1>1. PICK pc \in {"done", "check"}, m \in Verdict : Goto(w, pc) /\ Post(m)
  BY DEF Finish, Verdict
<1> QED BY <1>1, GotoTypes, PostTypes DEF Place, Message

LEMMA StartWorkerTypes ==
    ASSUME ThreadTypes, NEW pc \in Place, NEW why \in {"restart", "update"}, left[why] > 0,
           StartWorker(pc, why)
    PROVE  ThreadTypes'
BY DEF ThreadTypes, StartWorker, Spend, Plan

LEMMA StopBridgeTypes ==
    ASSUME BridgeTypes, UiTypes, StopBridge
    PROVE  /\ bridge' = "none" /\ pipe' = None /\ bridgeRunning' = FALSE
           /\ posted' \in Seq(Message)
BY DEF BridgeTypes, UiTypes, StopBridge, Message

LEMMA EnvTypes ==
    ASSUME BridgeTypes, foreign \in Foreign, Env PROVE BridgeTypes' /\ foreign' \in Foreign
BY DEF BridgeTypes, Env, bridgeVars
LEMMA ThreadFrame == ASSUME ThreadTypes, UNCHANGED threadVars PROVE ThreadTypes'
BY DEF ThreadTypes, threadVars
LEMMA ProcFrame == ASSUME ProcTypes, UNCHANGED procVars PROVE ProcTypes'
BY DEF ProcTypes, procVars
LEMMA SmFrame == ASSUME SmTypes, UNCHANGED smVars PROVE SmTypes'
BY DEF SmTypes, smVars
LEMMA UiFrame == ASSUME UiTypes, UNCHANGED uiVars PROVE UiTypes'
BY DEF UiTypes, uiVars

LEMMA WorkerTypes ==
    ASSUME TypeOK, NEW w \in Worker, WorkerStep(w) \/ WaitTimesOut(w) PROVE TypeOK'
<1> USE DEF TypeOK
<1>a. UNCHANGED <<left, ui>>
  BY DEF WorkerStep, ProvideNode, RefreshToLatest, CallStop, CallStopEnd, Probe,
     CreateJob, RefuseJob, CreateChild, NewChild, CreateFails, WaitMore, WaitEnds, WaitTimesOut, CheckForUpdate,
     Goto, Finish, Post, uiVars, threadVars
<1>e. SUFFICES ASSUME Env PROVE ThreadTypes' /\ ProcTypes' /\ SmTypes' /\ UiTypes'
  BY <1>a, EnvTypes DEF WorkerStep, ProvideNode, RefreshToLatest, CallStop, CallStopEnd, Probe,
     CreateJob, RefuseJob, CreateChild, NewChild, CreateFails, WaitMore, WaitEnds, WaitTimesOut, CheckForUpdate
<1>1. CASE ProvideNode(w)
  BY <1>1, GotoTypes, FinishTypes, ProcFrame, SmFrame, UiFrame DEF ProvideNode, Quiet, Place
<1>2. CASE RefreshToLatest(w)
  BY <1>2, GotoTypes, FinishTypes, ProcFrame, SmFrame, UiFrame DEF RefreshToLatest, Quiet, Place
<1>3. CASE CallStop(w)
  BY <1>3, GotoTypes, StopBeginTypes, UiFrame DEF CallStop, Place
<1>4. CASE CallStopEnd(w)
  BY <1>4, GotoTypes, StopEndTypes, UiFrame DEF CallStopEnd, Place
<1>5. CASE Probe(w)
  <2>1. g_reusing' \in BOOLEAN
    BY <1>5 DEF Probe, LooksLikeDshWeb, PortOpen
  <2> QED BY <1>5, <2>1, GotoTypes, ProcFrame, UiFrame DEF Probe, Place, SmTypes
<1>6. CASE CreateJob(w)
  BY <1>6, GotoTypes, ProcFrame, UiFrame DEF CreateJob, RefuseJob, Place, SmTypes
<1>7. CASE CreateChild(w)
  BY <1>7, GotoTypes, UiFrame DEF CreateChild, NewChild, RefuseJob, Place, SmTypes, ProcTypes
<1>8. CASE CreateFails(w)
  <2>1. child' \in [Worker -> {"none", "starting", "serving", "ended"}]
    BY <1>8, KillJobTypes DEF CreateFails, ProcTypes
  <2> QED BY <1>8, <2>1, FinishTypes DEF CreateFails, SmTypes, ProcTypes
<1>9. CASE WaitMore(w)
  BY <1>9, ThreadFrame, ProcFrame, UiFrame DEF WaitMore, DrainLog, SmTypes, ProcTypes
<1>10. CASE \E ok \in BOOLEAN : WaitEnds(w, ok)
  BY <1>10, FinishTypes, ProcFrame DEF WaitEnds, DrainLog, SmTypes, ProcTypes
<1>11. CASE WaitTimesOut(w)
  BY <1>11, FinishTypes, ProcFrame, SmFrame DEF WaitTimesOut, Quiet
<1>12. CASE CheckForUpdate(w)
  BY <1>12, GotoTypes, PostTypes, ProcFrame, SmFrame, UiFrame
     DEF CheckForUpdate, Quiet, Place, Message
<1> QED BY <1>1, <1>2, <1>3, <1>4, <1>5, <1>6, <1>7, <1>8, <1>9, <1>10, <1>11, <1>12
        DEF WorkerStep

LEMMA UiTypesKept ==
    ASSUME TypeOK, UiStep \/ User \/ ViewReady \/ ViewFails \/ BridgeSays \/ BridgeEnds
                   \/ BridgeReaderThread
    PROVE  TypeOK'
<1> USE DEF TypeOK
<1>s. ui' = "restarting" => left'.restart > 0
  <2>1. CASE ui' = ui /\ UNCHANGED left
    BY <2>1
  <2>2. CASE ui' # ui \/ left' # left
    BY <2>2 DEF UiStep, User, OnMessage, OnBridgeLine, GraceTimer, RegisterTimer, RestartEnds,
       DestroyEnds, Exit, RestartServer, UserCloses, BoxReturns, RemoteOff, RemoteOn, ViewReady,
       ViewFails, BridgeSays, BridgeEnds, BridgeReaderThread, OnDestroy, UserActs, Pausing,
       Spend, StartWorker, NoServer, BridgeOnly, Post, uiVars, threadVars, ThreadTypes, Plan,
       NavigationCompleted, PluginsDialog
  <2> QED BY <2>1, <2>2
<1>n. <<>> \in Seq(Message) /\ <<>> \in Seq(Dialog)
  OBVIOUS
<1>0. /\ SubSeq(modal, 1, Len(modal) - 1) \in Seq(Dialog) \/ modal = <<>>
      /\ \A m \in Dialog : Append(modal, m) \in Seq(Dialog)
  BY ShorterSeq DEF UiTypes, Dialog
<1>1. CASE OnMessage
  <2>1. ThreadTypes' /\ BridgeTypes' /\ foreign' \in Foreign
    BY <1>1, ThreadFrame, EnvTypes DEF OnMessage
  <2>2. ProcTypes' /\ SmTypes'
    BY <1>1, ProcFrame, SmFrame, StopBeginTypes DEF OnMessage, OnDestroy
  <2>3. posted' \in Seq(Message)
    BY <1>1 DEF OnMessage, UiTypes, Message
  <2>4. modal' \in Seq(Dialog)
    BY <1>1, <1>0 DEF OnMessage, UiTypes, Dialog
  <2>5. page' \in Page /\ grace' \in BOOLEAN
    BY <1>1 DEF OnMessage, OnServerReady, NavigateToDsh, UiTypes, Page
  <2>6. ui' \in {"loop", "restarting", "destroying", "quit", "gone"} /\ view' = view
    BY <1>1 DEF OnMessage, OnDestroy, UiTypes
  <2> QED BY <1>s, <2>1, <2>2, <2>3, <2>4, <2>5, <2>6 DEF UiTypes, Message
<1>2. CASE OnBridgeLine
  <2>1. ThreadTypes' /\ ProcTypes' /\ SmTypes' /\ foreign' \in Foreign
    BY <1>2, ThreadFrame, ProcFrame, SmFrame DEF OnBridgeLine, NoServer, BridgeOnly, threadVars
  <2>2. UiTypes'
    BY <1>2, <1>0 DEF OnBridgeLine, Box, UiTypes, Dialog
  <2>3. BridgeTypes'
    BY <1>2 DEF OnBridgeLine, BridgeTypes
  <2> QED BY <1>s, <2>1, <2>2, <2>3
<1>3. CASE GraceTimer
  BY <1>3, <1>s, ThreadFrame, ProcFrame, SmFrame, EnvTypes DEF GraceTimer, NavigateToDsh, UiTypes, Page
<1>4. CASE RegisterTimer
  <2>1. ThreadTypes' /\ ProcTypes' /\ SmTypes' /\ foreign' \in Foreign
    BY <1>4, ThreadFrame, ProcFrame, SmFrame DEF RegisterTimer, NoServer, BridgeOnly, threadVars
  <2>2. UiTypes' /\ BridgeTypes'
    BY <1>4, <1>0, StopBridgeTypes DEF RegisterTimer, Box, UiTypes, BridgeTypes, Message, Dialog
  <2> QED BY <1>s, <2>1, <2>2
<1>5. CASE RestartEnds
  <2>1. ThreadTypes'
    BY <1>5, StartWorkerTypes DEF RestartEnds, Place
  <2> QED BY <1>5, <1>s, <2>1, StopEndTypes, EnvTypes DEF RestartEnds, UiTypes, Page
<1>6. CASE DestroyEnds
  BY <1>6, <1>s, <1>n, StopEndTypes, ThreadFrame, EnvTypes DEF DestroyEnds, UiTypes, Message
<1>7. CASE Exit
  BY <1>7, <1>s, SmFrame, EnvTypes DEF Exit, UiTypes, ThreadTypes, ProcTypes, Place
<1>8. CASE RestartServer
  BY <1>8, <1>s, StopBeginTypes, ThreadFrame, EnvTypes DEF RestartServer, UiTypes
<1>9. CASE UserCloses
  BY <1>9, <1>s, StopBeginTypes, ThreadFrame, EnvTypes DEF UserCloses, OnDestroy, UiTypes
<1>10. CASE BoxReturns
  <2>1. ThreadTypes'
    BY <1>10, StartWorkerTypes, ThreadFrame DEF BoxReturns, Place, threadVars
  <2>2. UiTypes'
    <3>1. modal' \in Seq(Dialog)
      BY <1>10, <1>0 DEF BoxReturns
    <3>2. <<"close">> \in Seq(Message)
      BY DEF Message
    <3>3. posted' \in Seq(Message) /\ page' \in Page
      BY <1>10, <3>2 DEF BoxReturns, UiTypes, Message, Page
    <3> QED BY <1>10, <3>1, <3>3 DEF BoxReturns, UiTypes, Message
  <2> QED BY <1>10, <1>s, <2>1, <2>2, ProcFrame, SmFrame, EnvTypes DEF BoxReturns
<1>11. CASE RemoteOff
  <2>1. ThreadTypes' /\ ProcTypes' /\ SmTypes' /\ foreign' \in Foreign
    BY <1>11, ProcFrame, SmFrame DEF RemoteOff, BridgeOnly, Spend, ThreadTypes, Plan
  <2>2. UiTypes' /\ BridgeTypes'
    <3>1. bridge' = "none" /\ pipe' = None /\ bridgeRunning' = FALSE /\ posted' \in Seq(Message)
      BY <1>11, StopBridgeTypes DEF RemoteOff
    <3> QED BY <1>11, <3>1 DEF RemoteOff, UiTypes, BridgeTypes, Message
  <2> QED BY <1>s, <2>1, <2>2
<1>12. CASE RemoteOn
  <2>1. ThreadTypes' /\ ProcTypes' /\ SmTypes' /\ foreign' \in Foreign
    BY <1>12, ProcFrame, SmFrame DEF RemoteOn, BridgeOnly, Spend, ThreadTypes, Plan
  <2>2. UiTypes' /\ BridgeTypes'
    <3>1. /\ modal' \in Seq(Dialog)
          /\ bridge' \in {"none", "running", "exited"} /\ bridgeToken' \in BOOLEAN
          /\ bridgeRunning' \in BOOLEAN
      BY <1>12, <1>0 DEF RemoteOn, StartBridge, Box, UiTypes, BridgeTypes, Dialog
    <3> QED BY <1>12, <3>1 DEF RemoteOn, UiTypes, BridgeTypes
  <2> QED BY <1>s, <2>1, <2>2
<1>13. CASE ViewReady
  BY <1>13, <1>s, ThreadFrame, ProcFrame, SmFrame, EnvTypes DEF ViewReady, UiTypes
<1>14. CASE ViewFails
  BY <1>14, <1>s, <1>0, ThreadFrame, ProcFrame, SmFrame, EnvTypes DEF ViewFails, UiTypes, Dialog
<1>15. CASE BridgeSays
  <2>1. ThreadTypes' /\ ProcTypes' /\ SmTypes' /\ foreign' \in Foreign
    BY <1>15, ProcFrame, SmFrame DEF BridgeSays, BridgeOnly, Spend, ThreadTypes, Plan
  <2>2. UiTypes' /\ BridgeTypes'
    BY <1>15, UiFrame DEF BridgeSays, BridgeTypes, Line
  <2> QED BY <1>s, <2>1, <2>2
<1>16. CASE BridgeEnds
  BY <1>16, <1>s, ThreadFrame, ProcFrame, SmFrame, UiFrame
     DEF BridgeEnds, NoServer, BridgeOnly, threadVars, BridgeTypes
<1>17. CASE BridgeReaderThread
  <2>1. UiTypes'
    BY <1>17, PostTypes DEF BridgeReaderThread, BridgeTypes, Message
  <2> QED BY <1>17, <1>s, <2>1, ThreadFrame, ProcFrame, SmFrame
         DEF BridgeReaderThread, NoServer, BridgeOnly, threadVars, BridgeTypes
<1>18. CASE NavigationCompleted
  BY <1>18, <1>s, ThreadFrame, ProcFrame, SmFrame, EnvTypes
     DEF NavigationCompleted, UiTypes, Page
<1>19. CASE PluginsDialog
  <2>1. <<"plugins">> \in Seq(Dialog)
    BY DEF Dialog
  <2> QED BY <1>19, <1>s, <2>1, ThreadFrame, ProcFrame, SmFrame, EnvTypes
          DEF PluginsDialog, UiTypes
<1> QED BY <1>1, <1>2, <1>3, <1>4, <1>5, <1>6, <1>7, <1>8, <1>9, <1>10, <1>11, <1>12,
           <1>13, <1>14, <1>15, <1>16, <1>17, <1>18, <1>19 DEF UiStep, User

LEMMA InitTypes == Init => TypeOK
<1> SUFFICES ASSUME Init PROVE TypeOK
  OBVIOUS
<1>1. ThreadTypes
  BY BoundsAssumption DEF Init, ThreadTypes, Place, Plan
<1>2. <<>> \in Seq(Verdict \cup Line \cup {"update", "close"}) /\ <<>> \in Seq(Dialog)
  OBVIOUS
<1>3. foreign \in Foreign
  BY BoundsAssumption DEF Init, Plan
<1> QED BY <1>1, <1>2, <1>3 DEF Init, TypeOK, ProcTypes, SmTypes, UiTypes, BridgeTypes, Page

LEMMA StepTypes == ASSUME TypeOK, [Next]_vars PROVE TypeOK'
<1>1. CASE \E w \in Worker : WorkerStep(w) \/ WaitTimesOut(w)
  BY <1>1, WorkerTypes
<1>2. CASE ChildStep
  <2>1. ProcTypes'
    BY <1>2 DEF ChildStep, Serve, PrintUrl, Die, TypeOK, ProcTypes
  <2> QED BY <1>2, <2>1, ThreadFrame, SmFrame, UiFrame, EnvTypes
          DEF ChildStep, TypeOK, uiVars, threadVars
<1>3. CASE ForeignEnds
  BY <1>3, ThreadFrame, ProcFrame, SmFrame, UiFrame
     DEF ForeignEnds, Foreign, TypeOK, BridgeTypes, bridgeVars, uiVars, threadVars
<1>4. CASE UNCHANGED vars
  BY <1>4, ThreadFrame, ProcFrame, SmFrame, UiFrame DEF vars, TypeOK, BridgeTypes, bridgeVars, uiVars, threadVars
<1> QED BY <1>1, <1>2, <1>3, <1>4, UiTypesKept DEF Next

\* Every variable keeps its type.
THEOREM TypeCorrect == Spec => []TypeOK
BY InitTypes, StepTypes, PTL DEF Spec

-----------------------------------------------------------------------------
(* The register timer of a bridge. *)

LEMMA WorkerEnv ==
    ASSUME NEW w \in Worker, WorkerStep(w) \/ WaitTimesOut(w) PROVE UNCHANGED <<foreign, bridgeVars>>
BY DEF WorkerStep, ProvideNode, RefreshToLatest, CallStop, CallStopEnd, Probe,
   CreateJob, RefuseJob, CreateChild, NewChild, CreateFails, WaitMore, WaitEnds, WaitTimesOut, CheckForUpdate, Env

LEMMA StepTimed == ASSUME BridgeTimed, [Next]_vars PROVE BridgeTimed'
<1> USE DEF BridgeTimed
<1>1. CASE RemoteOff \/ RemoteOn \/ RegisterTimer \/ OnBridgeLine
  BY <1>1 DEF RemoteOff, RemoteOn, RegisterTimer, OnBridgeLine, StopBridge
<1>2. CASE BridgeSays \/ BridgeEnds \/ BridgeReaderThread
  BY <1>2 DEF BridgeSays, BridgeEnds, BridgeReaderThread
<1>3. CASE \E w \in Worker : WorkerStep(w) \/ WaitTimesOut(w)
  BY <1>3, WorkerEnv DEF bridgeVars
<1>4. CASE OnMessage \/ GraceTimer \/ RestartEnds \/ DestroyEnds \/ Exit
  BY <1>4 DEF OnMessage, GraceTimer, RestartEnds, DestroyEnds, Exit, Env, bridgeVars
<1>5. CASE RestartServer \/ UserCloses \/ BoxReturns \/ ViewReady \/ ViewFails
  BY <1>5 DEF RestartServer, UserCloses, BoxReturns, ViewReady, ViewFails, Env, bridgeVars
<1>6. CASE ChildStep \/ ForeignEnds \/ UNCHANGED vars
  BY <1>6 DEF ChildStep, ForeignEnds, vars, Env, bridgeVars
<1>7. CASE NavigationCompleted \/ PluginsDialog
  BY <1>7 DEF NavigationCompleted, PluginsDialog, Env, bridgeVars
<1> QED BY <1>1, <1>2, <1>3, <1>4, <1>5, <1>6, <1>7 DEF Next, UiStep, User

\* A bridge that has not registered is always under the timer that stops it:
\* toggling, stale lines and stale timers never take it away.
THEOREM BridgesTimed == Spec => []BridgeTimed
<1>1. Init => BridgeTimed
  BY DEF Init, BridgeTimed
<1> QED BY <1>1, StepTimed, PTL DEF Spec

-----------------------------------------------------------------------------
(* A verdict is owed. *)

LEMMA HasMore ==
    ASSUME NEW S, NEW q \in Seq(S), NEW m \in S, NEW T
    PROVE  /\ Has(q, T) => Has(Append(q, m), T)
           /\ m \in T => Has(Append(q, m), T)
           /\ q # <<>> /\ Head(q) \notin T /\ Has(q, T) => Has(Tail(q), T)
           /\ q # <<>> /\ q[Len(q)] \notin T /\ Has(q, T) => Has(SubSeq(q, 1, Len(q) - 1), T)
<1>1. Len(Append(q, m)) = Len(q) + 1 /\ Append(q, m)[Len(q) + 1] = m
  OBVIOUS
<1>2. \A i \in 1 .. Len(q) : Append(q, m)[i] = q[i]
  OBVIOUS
<1>3. Has(q, T) => Has(Append(q, m), T)
  BY <1>1, <1>2 DEF Has
<1>4. m \in T => Has(Append(q, m), T)
  BY <1>1 DEF Has
<1>5. ASSUME q # <<>>, Head(q) \notin T, Has(q, T) PROVE Has(Tail(q), T)
  <2>1. PICK i \in 1 .. Len(q) : q[i] \in T
    BY <1>5 DEF Has
  <2>2. i - 1 \in 1 .. Len(Tail(q)) /\ Tail(q)[i - 1] = q[i]
    BY <1>5, <2>1
  <2>3. DOMAIN Tail(q) = 1 .. Len(Tail(q))
    BY <1>5
  <2> QED BY <2>1, <2>2, <2>3 DEF Has
<1>6. ASSUME q # <<>>, q[Len(q)] \notin T, Has(q, T)
      PROVE  Has(SubSeq(q, 1, Len(q) - 1), T)
  <2>1. PICK i \in 1 .. Len(q) : q[i] \in T
    BY <1>6 DEF Has
  <2>2. i \in 1 .. Len(q) - 1
    BY <1>6, <2>1
  <2>3. /\ SubSeq(q, 1, Len(q) - 1)[i] = q[i]
        /\ i \in DOMAIN SubSeq(q, 1, Len(q) - 1)
    BY <1>6, <2>2, ShorterSeq
  <2> QED BY <2>1, <2>3 DEF Has
<1> QED BY <1>3, <1>4, <1>5, <1>6

\* A worker that was waited for still is, or has posted its verdict.
LEMMA WorkerOwes ==
    ASSUME TypeOK, NobodyForgotten, NEW w \in Worker, WorkerStep(w) \/ WaitTimesOut(w)
    PROVE  NobodyForgotten'
<1> SUFFICES ASSUME ui' = "loop", page' = "none" PROVE NobodyForgotten'
  BY DEF NobodyForgotten
<1>0. UNCHANGED <<ui, page, modal, grace>>
  BY DEF WorkerStep, ProvideNode, RefreshToLatest, CallStop, CallStopEnd, Probe,
     CreateJob, RefuseJob, CreateChild, NewChild, CreateFails, WaitMore, WaitEnds, WaitTimesOut, CheckForUpdate,
     Finish, Post, uiVars
<1>1. \/ posted' = posted
      \/ \E m \in Message : posted' = Append(posted, m)
  BY <1>0 DEF WorkerStep, ProvideNode, RefreshToLatest, CallStop, CallStopEnd, Probe,
     CreateJob, RefuseJob, CreateChild, NewChild, CreateFails, WaitMore, WaitEnds, WaitTimesOut, CheckForUpdate,
     Finish, Post, uiVars, Message, Verdict
<1>2. posted \in Seq(Message)
  BY DEF TypeOK, UiTypes, Message
<1>3. Has(posted, Verdict \cup {"close"}) => Has(posted', Verdict \cup {"close"})
  <2>1. ASSUME NEW m \in Message, posted' = Append(posted, m), Has(posted, Verdict \cup {"close"})
        PROVE  Has(posted', Verdict \cup {"close"})
    BY <1>2, <2>1, HasMore
  <2> QED BY <1>1, <2>1
<1>4. \A v \in Worker : v # w => thread'[v] = thread[v]
  BY DEF WorkerStep, ProvideNode, RefreshToLatest, CallStop, CallStopEnd, Probe,
     CreateJob, RefuseJob, CreateChild, NewChild, CreateFails, WaitMore, WaitEnds, WaitTimesOut, CheckForUpdate,
     Finish, Goto, threadVars, TypeOK, ThreadTypes
<1>5. \/ thread[w] = "check"
      \/ thread'[w] \in Waiting
      \/ \E m \in Verdict : posted' = Append(posted, m)
  BY <1>0 DEF WorkerStep, ProvideNode, RefreshToLatest, CallStop, CallStopEnd, Probe,
     CreateJob, RefuseJob, CreateChild, NewChild, CreateFails, WaitMore, WaitEnds, WaitTimesOut, CheckForUpdate,
     Finish, Post, Goto, threadVars, TypeOK, ThreadTypes, Waiting, Verdict
<1>6. thread[w] # "check" => thread'[w] \in Waiting \/ Has(posted', Verdict \cup {"close"})
  <2>1. ASSUME NEW m \in Verdict, posted' = Append(posted, m)
        PROVE  Has(posted', Verdict \cup {"close"})
    BY <1>2, <2>1, HasMore DEF Message
  <2> QED BY <1>5, <2>1
<1> QED BY <1>0, <1>3, <1>4, <1>6 DEF NobodyForgotten, Waiting

LEMMA UiOwes ==
    ASSUME TypeOK, NobodyForgotten, UiStep \/ User \/ ViewReady \/ ViewFails \/ BridgeSays
                                    \/ BridgeEnds \/ BridgeReaderThread
    PROVE  NobodyForgotten'
<1> DEFINE V == Verdict \cup {"close"}
           B == Dialog
<1>t. posted \in Seq(Message) /\ modal \in Seq(B)
  BY DEF TypeOK, UiTypes, Message
<1>b. \A b \in B : Has(modal, {"fatal"}) => Has(Append(modal, b), {"fatal"})
  BY <1>t, HasMore
<1>p. \A m \in Message : /\ Has(posted, V) => Has(Append(posted, m), V)
                        /\ m \in V => Has(Append(posted, m), V)
  BY <1>t, HasMore
<1>f. Has(Append(modal, "fatal"), {"fatal"}) /\ Has(<<"close">>, V)
  <2>1. Has(Append(modal, "fatal"), {"fatal"})
    BY <1>t, HasMore DEF Dialog
  <2>2. DOMAIN <<"close">> = {1} /\ <<"close">>[1] = "close"
    OBVIOUS
  <2> QED BY <2>1, <2>2 DEF Has
<1>h. ASSUME posted # <<>>, Head(posted) \notin V, Has(posted, V) PROVE Has(Tail(posted), V)
  BY <1>h, <1>t, HasMore DEF Message
<1>u. ASSUME modal # <<>>, modal[Len(modal)] # "fatal", Has(modal, {"fatal"})
      PROVE  Has(SubSeq(modal, 1, Len(modal) - 1), {"fatal"})
  <2> HIDE DEF B
  <2>1. "note" \in B
    BY DEF B, Dialog
  <2> QED BY <1>u, <1>t, <2>1, HasMore
<1>o. pipe # None /\ Has(posted, V) => Has(Append(posted, pipe), V)
  <2>1. pipe # None => pipe \in Message
    BY DEF TypeOK, BridgeTypes, Message
  <2>2. ASSUME pipe \in Message PROVE Has(posted, V) => Has(Append(posted, pipe), V)
    <3> HIDE DEF V
    <3> QED BY <2>2, <1>t, HasMore
  <2> QED BY <2>1, <2>2
<1> HIDE DEF V, B
<1>v. "close" \in V /\ \A l \in Line \cup {"update"} : l \notin V
  BY DEF V, Verdict, Line
<1>n. NobodyForgotten <=>
        (ui = "loop" /\ page = "none" =>
           grace \/ Has(modal, {"fatal"}) \/ Has(posted, V) \/ \E w \in Worker : thread[w] \in Waiting)
  BY DEF NobodyForgotten, V
<1>m. SUFFICES ASSUME ui' = "loop", page' = "none"
      PROVE  grace' \/ Has(modal', {"fatal"}) \/ Has(posted', V)
               \/ \E w \in Worker : thread'[w] \in Waiting
  BY DEF NobodyForgotten, V
<1>1. CASE OnMessage
  <2>1. CASE Head(posted) \in {"ready", "updated"}
    BY <1>1, <1>m, <2>1 DEF OnMessage, OnServerReady, NavigateToDsh
  <2>2. CASE Head(posted) = "failed"
    BY <1>1, <1>f, <2>2 DEF OnMessage
  <2>3. CASE Head(posted) = "update"
    <3>1. /\ posted # <<>> /\ posted' = Tail(posted) /\ Head(posted) \notin V
          /\ modal' = Append(modal, "prompt")
          /\ UNCHANGED <<ui, grace, page, thread>>
      BY <1>1, <1>v, <2>3 DEF OnMessage, threadVars
    <3>2. "prompt" \in B
      BY DEF B, Dialog
    <3> QED BY <1>m, <1>n, <1>h, <1>b, <3>1, <3>2
  <2>4. CASE Head(posted) = "close"
    BY <1>1, <1>m, <2>4 DEF OnMessage, OnDestroy
  <2> QED BY <1>1, <2>1, <2>2, <2>3, <2>4 DEF OnMessage
<1>2. CASE OnBridgeLine
  <2>1. "note" \in B
    BY DEF B, Dialog
  <2> QED BY <1>2, <1>m, <1>n, <1>h, <1>b, <1>v, <2>1 DEF OnBridgeLine, Box, NoServer, BridgeOnly
<1>3. CASE GraceTimer
  BY <1>3, <1>m DEF GraceTimer, NavigateToDsh
<1>4. CASE RegisterTimer
  <2>1. "note" \in B
    BY DEF B, Dialog
  <2>2. Has(posted, V) => Has(posted', V)
    BY <1>4, <1>o DEF RegisterTimer, StopBridge
  <2>3. modal' = Append(modal, "note") /\ UNCHANGED <<ui, grace, page, thread>>
    BY <1>4 DEF RegisterTimer, Box, NoServer, BridgeOnly
  <2> QED BY <1>m, <1>n, <1>b, <2>1, <2>2, <2>3
<1>5. CASE RestartEnds
  BY <1>5 DEF RestartEnds, StartWorker, Waiting, TypeOK, ThreadTypes
<1>6. CASE DestroyEnds \/ Exit \/ RestartServer \/ UserCloses
  BY <1>6, <1>m DEF DestroyEnds, Exit, RestartServer, UserCloses, OnDestroy
<1>7. CASE BoxReturns
  <2>1. CASE modal[Len(modal)] = "fatal"
    BY <1>7, <1>f, <2>1 DEF BoxReturns
  <2>2. CASE modal[Len(modal)] # "fatal" /\ UNCHANGED <<threadVars, posted, page>>
    BY <1>7, <1>m, <1>n, <1>u, <2>2 DEF BoxReturns, Pausing, threadVars
  <2>3. CASE StartWorker("refresh", "update")
    BY <2>3 DEF StartWorker, Waiting, TypeOK, ThreadTypes
  <2> QED BY <1>7, <2>1, <2>2, <2>3 DEF BoxReturns
<1>8. CASE RemoteOff
  <2>1. Has(posted, V) => Has(posted', V)
    BY <1>8, <1>o DEF RemoteOff, StopBridge
  <2> QED BY <1>8, <1>m, <1>n, <2>1 DEF RemoteOff, BridgeOnly
<1>9. CASE RemoteOn
  BY <1>9, <1>m, <1>n, <1>b DEF RemoteOn, StartBridge, Box, B, Dialog, BridgeOnly
<1>10. CASE ViewReady
  BY <1>10, <1>m, <1>n DEF ViewReady, threadVars
<1>11. CASE ViewFails
  BY <1>11, <1>f DEF ViewFails
<1>12. CASE BridgeSays \/ BridgeEnds
  BY <1>12, <1>m, <1>n DEF BridgeSays, BridgeEnds, uiVars, NoServer, BridgeOnly
<1>13. CASE BridgeReaderThread
  <2>1. posted' = posted \/ posted' = Append(posted, pipe)
    BY <1>13 DEF BridgeReaderThread, Post
  <2>2. Has(posted, V) => Has(posted', V)
    BY <1>13, <1>o, <2>1 DEF BridgeReaderThread
  <2>3. UNCHANGED <<ui, modal, grace, page, thread>>
    BY <1>13 DEF BridgeReaderThread, Post, NoServer, BridgeOnly
  <2> QED BY <1>m, <1>n, <2>2, <2>3
<1>14. CASE NavigationCompleted
  BY <1>14, <1>m DEF NavigationCompleted
<1>15. CASE PluginsDialog
  <2>1. ~Has(modal, {"fatal"})
    BY <1>15 DEF PluginsDialog, UserActs, Has
  <2> QED BY <1>15, <1>m, <1>n, <2>1 DEF PluginsDialog, threadVars
<1> QED BY <1>1, <1>2, <1>3, <1>4, <1>5, <1>6, <1>7, <1>8, <1>9, <1>10, <1>11, <1>12, <1>13,
           <1>14, <1>15 DEF UiStep, User

LEMMA StepOwes == ASSUME TypeOK, NobodyForgotten, [Next]_vars PROVE NobodyForgotten'
<1>1. CASE ChildStep \/ ForeignEnds \/ UNCHANGED vars
  BY <1>1 DEF ChildStep, ForeignEnds, vars, NobodyForgotten, uiVars, threadVars
<1> QED BY <1>1, WorkerOwes, UiOwes DEF Next

\* As long as the shell waits for a server and no verdict has been acted on,
\* somebody owes one, or it is on its way. (That the overlay goes is not said.)
THEOREM VerdictOwed == Spec => []NobodyForgotten
<1>1. Init => NobodyForgotten
  BY Bounds DEF Init, NobodyForgotten, Waiting
<1> QED BY <1>1, InitTypes, StepTypes, StepOwes, PTL DEF Spec

-----------------------------------------------------------------------------
(* The children that ServerManager holds.                                    *)

Begun == {"halted", "stopped", "probe", "job", "create"}

\* Without a clash one thread at a time is inside Start or Stop, ...
Alone == ~clash =>
    /\ \A v, w \in Worker : thread[v] \in Begun /\ thread[w] \in Begun => v = w
    /\ ui \in {"restarting", "destroying"} => \A w \in Worker : thread[w] \notin Begun
\* ... it has killed what ran before in a job, ...
Emptied == ~clash /\ Inside => \A w \in Worker : Live(w) => w \in refused
\* ... and the job it was given is there when it makes the child.
JobReady == ~clash => \A w \in Worker : thread[w] = "create" => g_job # None \/ w \in refused

HeldInv == ChildHeld /\ Alone /\ Emptied /\ JobReady

LEMMA InsideMeans ==
    Inside <=> \/ \E w \in Worker : thread[w] \in Begun
               \/ ui \in {"restarting", "destroying"}
BY DEF Inside, Begun

LEMMA LiveMeans ==
    ASSUME TypeOK PROVE \A w \in Worker : Live(w) <=> child[w] \in {"starting", "serving"}
BY DEF Live

\* Stop kills what lives in the job that ServerManager holds; called alone, it is
\* no clash.
LEMMA StopBeginKills ==
    ASSUME TypeOK, HeldInv, StopBegin, ~clash'
    PROVE  /\ ~clash /\ ~Inside /\ UNCHANGED <<g_process, g_job, jobOf, refused>>
           /\ \A w \in Worker : Live(w)' => w \in refused
<1>1. ~clash /\ ~Inside /\ UNCHANGED <<g_process, g_job, jobOf, refused>>
  BY DEF StopBegin
<1>2. \A w \in Worker : Live(w) => w \in refused \/ (g_process = w /\ jobOf[w] = g_job /\ g_job # None)
  BY <1>1 DEF HeldInv, ChildHeld
<1>3. CASE g_process # None /\ g_job # None
  <2>1. child' = [w \in Worker |-> IF jobOf[w] = g_job /\ Live(w) THEN "ended" ELSE child[w]]
    BY <1>3 DEF StopBegin, KillJob
  <2> QED BY <1>1, <1>2, <2>1 DEF Live
<1>4. CASE ~(g_process # None /\ g_job # None)
  <2>1. \A w \in Worker : Live(w) => w \in refused
    BY <1>2, <1>4, Bounds
  <2>2. child' = child
    BY <1>4 DEF StopBegin
  <2> QED BY <1>1, <2>1, <2>2 DEF Live
<1> QED BY <1>1, <1>3, <1>4

\* Nothing that is dead comes to life when a job is killed.
LEMMA KillJobOnly ==
    ASSUME TypeOK, NEW j, KillJob(j)
    PROVE  \A w \in Worker : Live(w)' => Live(w)
BY DEF KillJob, Live

LEMMA StopEndOnly ==
    ASSUME TypeOK, StopEnd
    PROVE  /\ g_process' = None /\ g_job' = None /\ UNCHANGED <<jobOf, clash, refused>>
           /\ \A w \in Worker : Live(w)' => Live(w)
<1>1. CASE g_job # None
  BY <1>1, KillJobOnly DEF StopEnd
<1>2. CASE g_job = None
  BY <1>2 DEF StopEnd, Live
<1> QED BY <1>1, <1>2 DEF StopEnd

\* A step that starts no child, moves nobody into Start or Stop and leaves what
\* ServerManager holds.
LEMMA HeldFrame ==
    ASSUME TypeOK, HeldInv, UNCHANGED <<clash, refused, g_process, g_job, jobOf>>,
           \A w \in Worker : Live(w)' => Live(w),
           \A w \in Worker : thread'[w] \in Begun => thread[w] \in Begun,
           \A w \in Worker : thread'[w] = "create" => thread[w] = "create",
           ui' \in {"restarting", "destroying"} => ui' = ui
    PROVE  HeldInv'
<1>1. Inside' => Inside
  BY InsideMeans DEF Inside, Begun
<1>2. ChildHeld'
  BY DEF HeldInv, ChildHeld
<1>3. Alone'
  BY DEF HeldInv, Alone
<1>4. Emptied' /\ JobReady'
  BY <1>1 DEF HeldInv, Emptied, JobReady
<1> QED BY <1>2, <1>3, <1>4 DEF HeldInv

\* Whoever calls Stop is the only one inside, and nothing lives in a job.
LEMMA HeldStopped ==
    ASSUME TypeOK, HeldInv, StopBegin,
           \/ /\ UNCHANGED ui
              /\ \E w \in Worker, pc \in {"halted", "stopped"} : thread' = [thread EXCEPT ![w] = pc]
           \/ ui' \in {"restarting", "destroying"} /\ UNCHANGED thread
    PROVE  HeldInv'
<1> SUFFICES ASSUME ~clash' PROVE HeldInv'
  BY DEF HeldInv, ChildHeld, Alone, Emptied, JobReady
<1>1. /\ ~clash /\ \A w \in Worker : Live(w)' => w \in refused'
      /\ ui \notin {"restarting", "destroying"} /\ \A w \in Worker : thread[w] \notin Begun
  BY StopBeginKills, InsideMeans
<1>2. ChildHeld' /\ Emptied'
  BY <1>1 DEF ChildHeld, Emptied
<1>3. Alone'
  BY <1>1 DEF Alone, TypeOK, ThreadTypes
<1>4. JobReady'
  BY <1>1 DEF JobReady, Begun, TypeOK, ThreadTypes
<1> QED BY <1>2, <1>3, <1>4 DEF HeldInv

\* One worker moves on, no further in.
LEMMA HeldMoved ==
    ASSUME TypeOK, HeldInv, UNCHANGED <<clash, refused, g_process, g_job, jobOf, child, ui>>,
           NEW w \in Worker, NEW pc, thread' = [thread EXCEPT ![w] = pc],
           pc \in Begun => thread[w] \in Begun,
           pc # "create"
    PROVE  HeldInv'
<1>1. thread'[w] = pc /\ \A v \in Worker : v # w => thread'[v] = thread[v]
  BY DEF TypeOK, ThreadTypes
<1>2. \A v \in Worker : /\ thread'[v] \in Begun => thread[v] \in Begun
                       /\ thread'[v] = "create" => thread[v] = "create"
  BY <1>1
<1> QED BY <1>2, HeldFrame DEF Live

LEMMA WorkerHeld ==
    ASSUME TypeOK, HeldInv, NEW w \in Worker, WorkerStep(w) \/ WaitTimesOut(w) PROVE HeldInv'
<1>t. thread \in [Worker -> Place]
  BY DEF TypeOK, ThreadTypes
<1>n. w # None
  BY Bounds
<1>a. ASSUME thread[w] \in Begun, ~clash
      PROVE  /\ \A v \in Worker : Live(v) => v \in refused
             /\ \A v \in Worker : v # w => thread[v] \notin Begun
             /\ ui \notin {"restarting", "destroying"}
  BY <1>a, InsideMeans DEF HeldInv, Emptied, Alone
<1>s. HeldInv' <=> (~clash' => HeldInv')
  BY DEF HeldInv, ChildHeld, Alone, Emptied, JobReady
<1>1. CASE ProvideNode(w) \/ RefreshToLatest(w) \/ Probe(w) \/ WaitMore(w)
           \/ WaitTimesOut(w) \/ CheckForUpdate(w) \/ WaitEnds(w, TRUE) \/ WaitEnds(w, FALSE)
  <2>1. UNCHANGED <<clash, refused, g_process, g_job, jobOf, child, ui>>
    BY <1>1 DEF ProvideNode, RefreshToLatest, Probe, WaitMore, WaitTimesOut, CheckForUpdate,
       WaitEnds, Finish, Post, Quiet, procVars, smVars, uiVars
  <2>2. \E pc \in Place :
           /\ thread' = [thread EXCEPT ![w] = pc]
           /\ pc \in Begun => thread[w] \in Begun
           /\ pc # "create"
    <3>1. CASE WaitMore(w)
      <4>1. thread' = [thread EXCEPT ![w] = "wait"]
        BY <3>1, <1>t DEF WaitMore, threadVars
      <4> QED BY <4>1 DEF Place, Begun
    <3>2. CASE Probe(w)
      BY <3>2 DEF Probe, Goto, Place, Begun
    <3>3. CASE ~WaitMore(w) /\ ~Probe(w)
      BY <1>1, <3>3 DEF ProvideNode, RefreshToLatest, WaitTimesOut, CheckForUpdate,
         WaitEnds, Finish, Goto, Place, Begun
    <3> QED BY <3>1, <3>2, <3>3
  <2> QED BY <2>1, <2>2, HeldMoved
<1>2. CASE CallStop(w)
  BY <1>2, HeldStopped DEF CallStop, Goto, uiVars
<1>3. CASE CallStopEnd(w)
  <2> SUFFICES ASSUME ~clash' PROVE HeldInv'
    BY <1>s
  <2>1. PICK pc \in {"stop", "probe"} : thread' = [thread EXCEPT ![w] = pc]
    BY <1>3 DEF CallStopEnd, Goto
  <2>2. /\ \A v \in Worker : Live(v)' => v \in refused'
        /\ \A v \in Worker : v # w => thread[v] \notin Begun
        /\ ui' \notin {"restarting", "destroying"}
    BY <1>3, <1>a, StopEndOnly DEF CallStopEnd, Begun, uiVars
  <2> QED BY <1>t, <2>1, <2>2 DEF HeldInv, ChildHeld, Alone, Emptied, JobReady, Begun
<1>4. CASE CreateJob(w)
  <2> SUFFICES ASSUME ~clash' PROVE HeldInv'
    BY <1>s
  <2>1. /\ thread' = [thread EXCEPT ![w] = "create"]
        /\ (g_job' = w \/ w \in refused') /\ refused \subseteq refused'
        /\ UNCHANGED <<child, ui, clash>> /\ thread[w] \in Begun
    BY <1>4 DEF CreateJob, RefuseJob, Goto, procVars, uiVars, Begun
  <2>2. /\ \A v \in Worker : Live(v)' => v \in refused'
        /\ \A v \in Worker : v # w => thread[v] \notin Begun
        /\ ui' \notin {"restarting", "destroying"}
    BY <2>1, <1>a DEF Live
  <2> QED BY <1>t, <1>n, <2>1, <2>2 DEF HeldInv, ChildHeld, Alone, Emptied, JobReady, Begun
<1>5. CASE CreateChild(w)
  <2> SUFFICES ASSUME ~clash' PROVE HeldInv'
    BY <1>s
  <2>1. /\ thread' = [thread EXCEPT ![w] = "wait"] /\ thread[w] = "create"
        /\ child' = [child EXCEPT ![w] = "starting"] /\ g_process' = w
        /\ (jobOf' = [jobOf EXCEPT ![w] = g_job] \/ w \in refused')
        /\ refused \subseteq refused' /\ UNCHANGED <<g_job, ui, clash>>
    BY <1>5 DEF CreateChild, NewChild, RefuseJob, Goto, uiVars
  <2>2. /\ \A v \in Worker : Live(v) => v \in refused
        /\ \A v \in Worker : v # w => thread[v] \notin Begun
        /\ ui' \notin {"restarting", "destroying"}
        /\ g_job # None \/ w \in refused
    BY <2>1, <1>a DEF Begun, HeldInv, JobReady
  <2>3. \A v \in Worker : Live(v)' => v = w \/ v \in refused'
    BY <2>1, <2>2 DEF Live, TypeOK, ProcTypes
  <2>4. ChildHeld'
    BY <2>1, <2>2, <2>3 DEF ChildHeld, TypeOK, ProcTypes
  <2>5. \A v \in Worker : thread'[v] \notin Begun
    BY <1>t, <2>1, <2>2 DEF Begun
  <2>6. Alone' /\ Emptied' /\ JobReady'
    BY <2>2, <2>5, InsideMeans DEF Alone, Emptied, JobReady, Inside, Begun
  <2> QED BY <2>4, <2>6 DEF HeldInv
<1>6. CASE CreateFails(w)
  <2> SUFFICES ASSUME ~clash' PROVE HeldInv'
    BY <1>s
  <2>1. /\ \E pc \in {"done", "check"} : thread' = [thread EXCEPT ![w] = pc]
        /\ thread[w] = "create" /\ UNCHANGED <<ui, clash, refused>>
    BY <1>6 DEF CreateFails, Finish, Goto, Post
  <2>2. /\ \A v \in Worker : Live(v) => v \in refused
        /\ \A v \in Worker : v # w => thread[v] \notin Begun
    BY <2>1, <1>a DEF Begun
  <2>3. \A v \in Worker : Live(v)' => v \in refused'
    BY <1>6, <2>2, KillJobOnly DEF CreateFails, Live
  <2>4. \A v \in Worker : thread'[v] \notin Begun
    BY <1>t, <2>1, <2>2 DEF Begun
  <2> QED BY <2>3, <2>4, <2>1, <1>a
          DEF HeldInv, ChildHeld, Alone, Emptied, JobReady, Begun
<1> QED BY <1>1, <1>2, <1>3, <1>4, <1>5, <1>6 DEF WorkerStep

LEMMA UiHeld ==
    ASSUME TypeOK, HeldInv, UiStep \/ User \/ ViewReady \/ ViewFails \/ BridgeSays
                            \/ BridgeEnds \/ BridgeReaderThread
    PROVE  HeldInv'
<1>t. thread \in [Worker -> Place]
  BY DEF TypeOK, ThreadTypes
<1>1. CASE OnMessage
  <2>1. CASE Head(posted) = "close"
    BY <1>1, <2>1, HeldStopped DEF OnMessage, OnDestroy, threadVars
  <2>2. CASE Head(posted) # "close"
    BY <1>1, <2>2, HeldFrame DEF OnMessage, threadVars, procVars, smVars, Live
  <2> QED BY <2>1, <2>2
<1>2. CASE \/ OnBridgeLine \/ GraceTimer \/ RegisterTimer \/ RemoteOff \/ RemoteOn
           \/ ViewReady \/ ViewFails \/ BridgeSays \/ BridgeEnds \/ BridgeReaderThread
  <2>1. UNCHANGED <<thread, procVars, smVars, ui>>
    BY <1>2 DEF OnBridgeLine, GraceTimer, RegisterTimer, RemoteOff, RemoteOn, ViewReady,
       ViewFails, BridgeSays, BridgeEnds, BridgeReaderThread, Post, NoServer, BridgeOnly,
       threadVars, uiVars
  <2> QED BY <2>1, HeldFrame DEF procVars, smVars, Live
<1>3. CASE RestartServer \/ UserCloses
  BY <1>3, HeldStopped DEF RestartServer, UserCloses, OnDestroy, threadVars
<1>4. CASE RestartEnds \/ DestroyEnds
  <2>1. /\ ui \in {"restarting", "destroying"} /\ ui' \in {"loop", "quit"} /\ StopEnd
    BY <1>4 DEF RestartEnds, DestroyEnds
  <2>2. thread' = thread \/ \E w \in Worker : thread' = [thread EXCEPT ![w] = "node"]
    BY <1>4 DEF RestartEnds, DestroyEnds, StartWorker, threadVars
  <2> SUFFICES ASSUME ~clash' PROVE HeldInv'
    BY DEF HeldInv, ChildHeld, Alone, Emptied, JobReady
  <2>3. /\ \A w \in Worker : Live(w)' => w \in refused'
        /\ \A w \in Worker : thread[w] \notin Begun
    BY <2>1, StopEndOnly, InsideMeans DEF HeldInv, Emptied, Alone
  <2>4. \A w \in Worker : thread'[w] \notin Begun
    BY <1>t, <2>2, <2>3 DEF Begun
  <2> QED BY <2>1, <2>3, <2>4 DEF HeldInv, ChildHeld, Alone, Emptied, JobReady, Begun
<1>5. CASE Exit
  <2>1. \A w \in Worker : Live(w)' => Live(w)
    BY <1>5 DEF Exit, Live
  <2>2. \A w \in Worker : thread'[w] = "done"
    BY <1>5 DEF Exit
  <2> QED BY <1>5, <2>1, <2>2, HeldFrame DEF Exit, smVars, Begun
<1>6. CASE BoxReturns
  <2>1. thread' = thread \/ \E w \in Worker : thread' = [thread EXCEPT ![w] = "refresh"]
    BY <1>6 DEF BoxReturns, StartWorker, threadVars
  <2>2. /\ \A w \in Worker : thread'[w] \in Begun => thread[w] \in Begun
        /\ \A w \in Worker : thread'[w] = "create" => thread[w] = "create"
    BY <1>t, <2>1 DEF Begun
  <2> QED BY <1>6, <2>2, HeldFrame DEF BoxReturns, procVars, smVars, Live
<1>7. CASE NavigationCompleted \/ PluginsDialog
  <2>1. UNCHANGED <<thread, procVars, smVars, ui>>
    BY <1>7 DEF NavigationCompleted, PluginsDialog, threadVars
  <2> QED BY <2>1, HeldFrame DEF procVars, smVars, Live
<1> QED BY <1>1, <1>2, <1>3, <1>4, <1>5, <1>6, <1>7 DEF UiStep, User

LEMMA StepHeld == ASSUME TypeOK, HeldInv, [Next]_vars PROVE HeldInv'
<1>1. CASE ChildStep
  <2>1. \A w \in Worker : Live(w)' => Live(w)
    BY <1>1 DEF ChildStep, Serve, PrintUrl, Die, Live, TypeOK, ProcTypes
  <2>2. jobOf' = jobOf
    BY <1>1 DEF ChildStep, Serve, PrintUrl, Die
  <2> QED BY <1>1, <2>1, <2>2, HeldFrame DEF ChildStep, threadVars, smVars, uiVars
<1>2. CASE ForeignEnds \/ UNCHANGED vars
  BY <1>2, HeldFrame DEF ForeignEnds, vars, threadVars, procVars, smVars, uiVars, Live
<1> QED BY <1>1, <1>2, WorkerHeld, UiHeld DEF Next

\* As long as two threads have not been inside Start or Stop at once, every dsh
\* that lives is the one that the next Stop, or the end of the shell, kills, or one
\* that Windows refused a job or the assignment to it. What two threads inside at
\* once do to NoneLeftBehind is a run of its own.
THEOREM ChildrenHeld == Spec => []ChildHeld
<1>1. Init => HeldInv
  BY Bounds DEF Init, HeldInv, ChildHeld, Alone, Emptied, JobReady, Inside, Begun, Live
<1>2. HeldInv => ChildHeld
  BY DEF HeldInv
<1> QED BY <1>1, <1>2, InitTypes, StepTypes, StepHeld, PTL DEF Spec
=============================================================================
