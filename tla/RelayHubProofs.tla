--------------------------- MODULE RelayHubProofs ---------------------------
(***************************************************************************)
(* Proofs about the hub of the relay, for any number of hosts, devices,    *)
(* tunnels, channels and revokes and any capacity of the send channels.    *)
(* One inductive invariant, HubInv, carries them; each of its conjuncts    *)
(* has a lemma with one case per kind of step.                             *)
(***************************************************************************)
EXTENDS RelayHub, TLAPS

\* A handler belongs to a peer of its kind.
OwnerOK ==
    /\ \A c \in HostConn : pc[c] # "free" => owner[c] \in Host
    /\ \A c \in DeviceConn : pc[c] # "free" => owner[c] \in Device

\* What a handler looked up: a device the host whose frame it forwards may reach,
\* then a tunnel, not given back, of such a device or of the device's own host.
RefOK ==
    /\ \A c \in HostConn : pc[c] = "lookup" =>
         ref[c] \in Device /\ MayReach(owner[c], ref[c])
    /\ \A c \in HostConn : pc[c] = "send" =>
         /\ ref[c] \in DeviceConn
         /\ pc[ref[c]] # "free"
         /\ MayReach(owner[c], owner[ref[c]])
    /\ \A c \in DeviceConn : pc[c] = "send" =>
         /\ ref[c] \in HostConn
         /\ pc[ref[c]] # "free"
         /\ owner[ref[c]] = HostOf[owner[c]]

\* The part of TablesLive that does not speak of kicks.
EntriesOwned ==
    /\ \A h \in Host : hostConns[h] # None =>
         owner[hostConns[h]] = h /\ pc[hostConns[h]] \in Attached
    /\ \A d \in Device : deviceConns[d] # None =>
         owner[deviceConns[d]] = d /\ pc[deviceConns[d]] \in Attached

\* The part of BindingsOwned that does not speak of handlers.
ChannelsScoped ==
    \A k \in Key : channels[k] # None => HasKey(channels[k], k)

\* A revoke that has looked up its session names a device.
RevokerOK == \A r \in Revoker : revoke[r].step # "idle" => revoke[r].dev \in Device

\* A free slot has nothing queued.
FreeEmpty == \A c \in Conn : pc[c] = "free" => queue[c] = <<>>

\* A host tunnel is open until it is in the table and as long as it is in it.
KickedOnce ==
    /\ \A c \in HostConn : pc[c] \in {"free", "check", "attach"} => open[c]
    /\ \A h \in Host : hostConns[h] # None => open[hostConns[h]]

\* The inductive invariant.  HostIsolation needs RefOK, for a frame is sent to a
\* tunnel looked up in an earlier step, and RefOK needs the tables, the owners and
\* the channels.
HubInv ==
    /\ TypeOK
    /\ OwnerOK
    /\ EntriesOwned
    /\ ChannelsScoped
    /\ RefOK
    /\ RevokerOK
    /\ FreeEmpty
    /\ HostIsolation
    /\ KickedOnce
    /\ BindingsOwned
    /\ NoZombieTunnel
    /\ OnlineKept

\* writeJSON keeps the type of what it touches: a full queue takes no frame.
LEMMA WriteJSONType ==
    ASSUME NEW c \in Conn, NEW t \in Conn, NEW from \in Peer \cup {None},
           NEW next \in Steps, NEW over \in Steps,
           TypeOK, WriteJSON(c, t, from, next, over)
    PROVE  /\ pc' \in [Conn -> Steps]
           /\ open' \in [Conn -> BOOLEAN]
           /\ link' \in [Conn -> BOOLEAN]
           /\ queue' \in [Conn -> Seq(Peer \cup {None})]
           /\ \A k \in Conn : Len(queue'[k]) <= QueueCap
<1> USE HubAssumption DEF TypeOK, Goto, wireVars
<1>1. CASE ~open[t] /\ Goto(c, "exit") /\ UNCHANGED wireVars
  BY <1>1 DEF Steps, Attached
<1>2. CASE /\ open[t] /\ ~Full(t)
           /\ queue' = [queue EXCEPT ![t] = Append(@, from)]
           /\ Goto(c, next) /\ UNCHANGED <<open, link>>
  <2>1. Append(queue[t], from) \in Seq(Peer \cup {None})
    OBVIOUS
  <2>2. Len(Append(queue[t], from)) <= QueueCap
    BY <1>2 DEF Full
  <2> QED BY <1>2, <2>1, <2>2
<1>3. CASE /\ open[t] /\ Full(t)
           /\ link' = [link EXCEPT ![t] = FALSE]
           /\ Goto(c, over) /\ UNCHANGED <<open, queue>>
  BY <1>3
<1> QED BY <1>1, <1>2, <1>3 DEF WriteJSON

\* The empty hub is well typed.
THEOREM InitTypeOK == Init => TypeOK
<1> SUFFICES ASSUME Init PROVE TypeOK
  OBVIOUS
<1>1. queue \in [Conn -> Seq(Peer \cup {None})] /\ \A c \in Conn : Len(queue[c]) <= QueueCap
  <2>1. <<>> \in Seq(Peer \cup {None}) /\ Len(<<>>) <= QueueCap
    BY HubAssumption
  <2> QED BY <2>1 DEF Init
<1>2. revoke \in [Revoker -> [step : {"idle", "drop", "close"}, dev : Device \cup {None}]]
  BY DEF Init, Idle
<1> QED
  BY <1>1, <1>2, HubAssumption DEF Init, TypeOK, Steps

\* Every step keeps the types; the lookups of a handler need OwnerOK and RefOK to
\* stay in the domains of the tables.
LEMMA TypeStep == ASSUME HubInv, Next PROVE TypeOK'
<1> USE HubAssumption DEF HubInv, Goto, hubVars, wireVars, revVars
<1>1. ASSUME NEW c \in HostConn, HostCheck(c) PROVE TypeOK'
  BY <1>1 DEF HostCheck, TypeOK, Steps, Conn
<1>2. ASSUME NEW c \in HostConn, HostAttach(c) PROVE TypeOK'
  <2>1. open' \in [Conn -> BOOLEAN]
    BY <1>2 DEF HostAttach, Kick, TypeOK
  <2>2. hostConns' \in [Host -> HostConn \cup {None}]
    BY <1>2 DEF HostAttach, TypeOK
  <2>3. via' \in [HostConn -> {"token", "register", "displaced"}]
    <3> DEFINE how == IF hostConns[owner[c]] # None /\ via[c] = "register"
                      THEN "displaced" ELSE via[c]
    <3>1. via' = via \/ via' = [via EXCEPT ![c] = how]
      BY <1>2 DEF HostAttach
    <3>2. how \in {"token", "register", "displaced"}
      BY DEF TypeOK
    <3> HIDE DEF how
    <3> QED BY <3>1, <3>2 DEF TypeOK
  <2>4. pc' \in [Conn -> Steps] /\ link' \in [Conn -> BOOLEAN]
    BY <1>2 DEF HostAttach, TypeOK, Steps, Attached
  <2> QED BY <1>2, <2>1, <2>2, <2>3, <2>4 DEF HostAttach, TypeOK
<1>3. ASSUME NEW c \in HostConn, HostOnline(c) PROVE TypeOK'
  BY <1>3 DEF HostOnline, TypeOK, Steps, Attached, Conn
<1>4. ASSUME NEW c \in HostConn, HostGreet(c) PROVE TypeOK'
  <2>1. CASE via[c] = "register"
    BY <1>4, <2>1, WriteJSONType DEF HostGreet, TypeOK, Steps, Attached, Conn
  <2>2. CASE via[c] # "register"
    BY <1>4, <2>2 DEF HostGreet, TypeOK, Steps, Attached, Conn
  <2> QED BY <2>1, <2>2
<1>5. ASSUME NEW c \in HostConn, HostLookup(c) PROVE TypeOK'
  BY <1>5 DEF HostLookup, RefOK, TypeOK, Steps, Attached, Conn
<1>6. ASSUME NEW c \in HostConn, HostSend(c) PROVE TypeOK'
  BY <1>6, WriteJSONType DEF HostSend, RefOK, TypeOK, Steps, Attached, Conn
<1>7. ASSUME NEW c \in HostConn, HostDetach(c) PROVE TypeOK'
  BY <1>7 DEF HostDetach, DropHost, TypeOK, Steps, Attached, Conn
<1>8. ASSUME NEW c \in Conn, ReaderExit(c) PROVE TypeOK'
  BY <1>8 DEF ReaderExit, TypeOK, Steps, Attached, Conn
<1>9. ASSUME NEW c \in DeviceConn, DeviceAttach(c) PROVE TypeOK'
  <2>1. open' \in [Conn -> BOOLEAN]
    BY <1>9 DEF DeviceAttach, Kick, TypeOK
  <2>2. deviceConns' \in [Device -> DeviceConn \cup {None}]
    BY <1>9 DEF DeviceAttach, TypeOK
  <2>3. pc' \in [Conn -> Steps] /\ link' \in [Conn -> BOOLEAN]
    BY <1>9 DEF DeviceAttach, TypeOK, Steps, Attached
  <2> QED BY <1>9, <2>1, <2>2, <2>3 DEF DeviceAttach, TypeOK
<1>10. ASSUME NEW c \in DeviceConn, DeviceLookup(c) PROVE TypeOK'
  BY <1>10 DEF DeviceLookup, OwnerOK, TypeOK, Steps, Attached, Conn
<1>11. ASSUME NEW c \in DeviceConn, DeviceSend(c) PROVE TypeOK'
  BY <1>11, WriteJSONType DEF DeviceSend, RefOK, TypeOK, Steps, Attached, Conn
<1>12. ASSUME NEW c \in DeviceConn, DeviceFail(c) PROVE TypeOK'
  BY <1>12, WriteJSONType DEF DeviceFail, TypeOK, Steps, Attached, Conn
<1>13. ASSUME NEW c \in DeviceConn, DeviceDetach(c) PROVE TypeOK'
  <2>1. deviceConns' \in [Device -> DeviceConn \cup {None}]
    BY <1>13 DEF DeviceDetach, TypeOK
  <2>2. channels' \in [Key -> Device \cup {None}]
    BY <1>13 DEF DeviceDetach, Unbind, TypeOK
  <2>3. pc' \in [Conn -> Steps] /\ link' \in [Conn -> BOOLEAN]
    BY <1>13 DEF DeviceDetach, TypeOK, Steps
  <2> QED BY <1>13, <2>1, <2>2, <2>3 DEF DeviceDetach, TypeOK
<1>14. ASSUME NEW c \in HostConn, NEW h \in Host, NEW how \in {"token", "register"},
              HostAccept(c, h, how)
       PROVE  TypeOK'
  <2>1. queue' \in [Conn -> Seq(Peer \cup {None})] /\ \A k \in Conn : Len(queue'[k]) <= QueueCap
    <3>1. CASE UNCHANGED queue
      BY <3>1 DEF TypeOK
    <3>2. CASE queue' = [queue EXCEPT ![c] = <<None>>]
      <4>1. <<None>> \in Seq(Peer \cup {None}) /\ Len(<<None>>) <= QueueCap
        OBVIOUS
      <4> QED BY <3>2, <4>1 DEF TypeOK
    <3> QED BY <1>14, <3>1, <3>2 DEF HostAccept
  <2> QED BY <1>14, <2>1 DEF HostAccept, TypeOK, Steps, Conn, Peer
<1>15. ASSUME NEW c \in HostConn, NEW ch \in Channel, HostFrame(c, ch) PROVE TypeOK'
  <2>1. channels[KeyOf[owner[c]][ch]] \in Device \cup {None}
    BY <1>15 DEF HostFrame, OwnerOK, TypeOK
  <2>2. pc' \in [Conn -> Steps] /\ stale' \in [HostConn -> BOOLEAN]
    BY <1>15 DEF HostFrame, TypeOK, Steps, Attached
  <2>3. ref' \in [Conn -> Device \cup Conn \cup {None}]
    BY <1>15, <2>1 DEF HostFrame, TypeOK
  <2> QED BY <1>15, <2>2, <2>3 DEF HostFrame, TypeOK
<1>16. ASSUME NEW c \in HostConn, Silence(c) PROVE TypeOK'
  BY <1>16 DEF Silence, TypeOK
<1>17. ASSUME NEW c \in DeviceConn, NEW d \in Device, DeviceAccept(c, d) PROVE TypeOK'
  BY <1>17 DEF DeviceAccept, TypeOK, Steps, Conn, Peer
<1>18. ASSUME NEW c \in DeviceConn, NEW ch \in Channel \cup {None}, DeviceFrame(c, ch)
       PROVE  TypeOK'
  BY <1>18 DEF DeviceFrame, Bind, OwnerOK, TypeOK, Steps, Attached, Conn
<1>19. ASSUME NEW c \in Conn, Pump(c) PROVE TypeOK'
  <2>1. CASE PumpWrite(c)
    <3>1. queue[c] \in Seq(Peer \cup {None}) /\ queue[c] # <<>>
      BY <2>1 DEF PumpWrite, TypeOK
    <3>2. Tail(queue[c]) \in Seq(Peer \cup {None}) /\ Len(Tail(queue[c])) <= Len(queue[c])
      BY <3>1
    <3>3. queue' \in [Conn -> Seq(Peer \cup {None})]
      BY <2>1, <3>2 DEF PumpWrite, TypeOK
    <3>4. ASSUME NEW k \in Conn PROVE Len(queue'[k]) <= QueueCap
      <4>1. CASE k = c
        <5>1. Len(queue[c]) \in Nat /\ Len(Tail(queue[c])) \in Nat /\ Len(queue[c]) <= QueueCap
          BY <3>1, <3>2 DEF TypeOK
        <5> QED BY <2>1, <3>2, <4>1, <5>1 DEF PumpWrite, TypeOK
      <4>2. CASE k # c
        BY <2>1, <4>2 DEF PumpWrite, TypeOK
      <4> QED BY <4>1, <4>2
    <3> QED BY <1>19, <2>1, <3>3, <3>4 DEF Pump, PumpWrite, TypeOK
  <2>2. CASE PumpClose(c)
    BY <1>19, <2>2 DEF Pump, PumpClose, TypeOK
  <2> QED BY <1>19, <2>1, <2>2 DEF Pump
<1>20. ASSUME NEW c \in Conn, Ping(c) PROVE TypeOK'
  BY <1>20, WriteJSONType DEF Ping, TypeOK, Steps, Attached, Conn
<1>21. ASSUME NEW c \in Conn, LinkDown(c) PROVE TypeOK'
  BY <1>21 DEF LinkDown, TypeOK
<1>22. ASSUME NEW c \in Conn, Recycle(c) PROVE TypeOK'
  <2>1. <<>> \in Seq(Peer \cup {None}) /\ Len(<<>>) <= QueueCap
    OBVIOUS
  <2>2. /\ queue' \in [Conn -> Seq(Peer \cup {None})]
        /\ \A k \in Conn : Len(queue'[k]) <= QueueCap
    BY <1>22, <2>1 DEF Recycle, TypeOK
  <2>3. /\ via' \in [HostConn -> {"token", "register", "displaced"}]
        /\ stale' \in [HostConn -> BOOLEAN]
    BY <1>22 DEF Recycle, TypeOK
  <2> QED BY <1>22, <2>2, <2>3 DEF Recycle, TypeOK, Steps
<1>23. ASSUME StoreStep PROVE TypeOK'
  <2>1. ASSUME NEW r \in Revoker, NEW d \in Device, RevokeCheck(r, d) PROVE TypeOK'
    BY <2>1 DEF RevokeCheck, TypeOK
  <2>2. ASSUME NEW r \in Revoker, RevokeDrop(r) PROVE TypeOK'
    BY <2>2 DEF RevokeDrop, TypeOK
  <2>3. ASSUME NEW r \in Revoker, RevokeClose(r) PROVE TypeOK'
    <3>1. open' \in [Conn -> BOOLEAN] /\ hubLocked' \in BOOLEAN
      BY <2>3 DEF RevokeClose, Kick, TypeOK
    <3> QED BY <2>3, <3>1 DEF RevokeClose, Idle, TypeOK
  <2>4. ASSUME NEW d \in Device, Pair(d) PROVE TypeOK'
    BY <2>4 DEF Pair, TypeOK
  <2> QED BY <1>23, <2>1, <2>2, <2>3, <2>4 DEF StoreStep
<1> QED
  BY <1>1, <1>2, <1>3, <1>4, <1>5, <1>6, <1>7, <1>8, <1>9, <1>10, <1>11, <1>12, <1>13,
     <1>14, <1>15, <1>16, <1>17, <1>18, <1>19, <1>20, <1>21, <1>22, <1>23
  DEF Next, HostHandler, DeviceHandler, HostInput, DeviceInput, Conn

\* The steps that write to a tunnel, by what they do to the state.
Writes(c) ==
    \/ c \in HostConn /\ (HostGreet(c) \/ HostSend(c))
    \/ c \in DeviceConn /\ (DeviceSend(c) \/ DeviceFail(c))
    \/ Ping(c)

\* What a call of writeJSON can do, whatever the state of the receiver.
LEMMA WriteJSONEffect ==
    ASSUME NEW c, NEW t, NEW from, NEW next, NEW over,
           WriteJSON(c, t, from, next, over)
    PROVE  /\ open' = open
           /\ \E p \in {"exit", next, over} : pc' = [pc EXCEPT ![c] = p]
           /\ queue' = queue \/ queue' = [queue EXCEPT ![t] = Append(@, from)]
BY DEF WriteJSON, Goto, wireVars

\* What the steps that write to a tunnel have in common.
LEMMA WritesEffect ==
    ASSUME NEW c \in Conn, Writes(c)
    PROVE  /\ UNCHANGED <<hostConns, deviceConns, channels, online, owner, open>>
           /\ pc[c] \in {"greet", "send", "fail", "loop"}
           /\ \E p \in {"exit", "loop", "fail"} : pc' = [pc EXCEPT ![c] = p]
           /\ ref' = ref \/ ref' = [ref EXCEPT ![c] = None]
           /\ \/ queue' = queue
              \/ queue' = [queue EXCEPT ![c] = Append(@, None)]
              \/ /\ pc[c] = "send"
                 /\ queue' = [queue EXCEPT ![ref[c]] = Append(@, owner[c])]
<1>1. CASE c \in HostConn /\ HostGreet(c)
  <2>1. CASE WriteJSON(c, c, None, "loop", "loop")
    BY <1>1, <2>1, WriteJSONEffect DEF HostGreet, hubVars
  <2>2. CASE ~WriteJSON(c, c, None, "loop", "loop")
    BY <1>1, <2>2 DEF HostGreet, Goto, hubVars, wireVars
  <2> QED BY <2>1, <2>2
<1>2. CASE c \in HostConn /\ HostSend(c)
  <2>1. WriteJSON(c, ref[c], owner[c], "loop", "loop")
    BY <1>2 DEF HostSend
  <2> QED BY <1>2, <2>1, WriteJSONEffect DEF HostSend, hubVars
<1>3. CASE c \in DeviceConn /\ DeviceSend(c)
  <2>1. WriteJSON(c, ref[c], owner[c], "loop", "fail")
    BY <1>3 DEF DeviceSend
  <2> QED BY <1>3, <2>1, WriteJSONEffect DEF DeviceSend, hubVars
<1>4. CASE (c \in DeviceConn /\ DeviceFail(c)) \/ Ping(c)
  <2>1. WriteJSON(c, c, None, "loop", "loop")
    BY <1>4 DEF DeviceFail, Ping
  <2> QED BY <1>4, <2>1, WriteJSONEffect DEF DeviceFail, Ping, hubVars
<1> QED BY <1>1, <1>2, <1>3, <1>4 DEF Writes

\* Steps that concern none of the state the routing invariant is about.
Quiet == UNCHANGED <<hostConns, deviceConns, channels, online, pc, owner, ref, open, queue>>

\* The steps of the hub, with those that write and those that are quiet grouped.
LEMMA NextCases ==
    ASSUME Next
    PROVE  \/ Quiet
           \/ \E c \in Conn : Writes(c)
           \/ \E c \in HostConn :
                HostCheck(c) \/ HostAttach(c) \/ HostOnline(c) \/ HostLookup(c) \/ HostDetach(c)
           \/ \E c \in Conn : ReaderExit(c) \/ Pump(c) \/ Recycle(c)
           \/ \E c \in DeviceConn : DeviceAttach(c) \/ DeviceLookup(c) \/ DeviceDetach(c)
           \/ \E c \in HostConn, h \in Host, how \in {"token", "register"} : HostAccept(c, h, how)
           \/ \E c \in HostConn, ch \in Channel : HostFrame(c, ch)
           \/ \E c \in DeviceConn, d \in Device : DeviceAccept(c, d)
           \/ \E c \in DeviceConn, ch \in Channel \cup {None} : DeviceFrame(c, ch)
           \/ \E r \in Revoker : RevokeClose(r)
<1>1. ASSUME NEW c \in Conn, Silence(c) \/ LinkDown(c) PROVE Quiet
  BY <1>1 DEF Silence, LinkDown, Quiet, hubVars, wireVars
<1>2. ASSUME NEW r \in Revoker, RevokeDrop(r) \/ \E d \in Device : RevokeCheck(r, d) PROVE Quiet
  BY <1>2 DEF RevokeDrop, RevokeCheck, Quiet, hubVars, wireVars
<1>3. ASSUME NEW d \in Device, Pair(d) PROVE Quiet
  BY <1>3 DEF Pair, Quiet, hubVars, wireVars
<1> QED
  BY <1>1, <1>2, <1>3
  DEF Next, HostHandler, DeviceHandler, HostInput, DeviceInput, StoreStep, Writes, Conn

\* Only the steps of a revoke change revoke.
LEMMA RevokeUnchanged ==
    ASSUME Next
    PROVE  \/ UNCHANGED revoke
           \/ \E r \in Revoker : (\E d \in Device : RevokeCheck(r, d)) \/ RevokeDrop(r) \/ RevokeClose(r)
<1>1. ASSUME NEW c, Pump(c) \/ Ping(c) \/ LinkDown(c) \/ Recycle(c) \/ ReaderExit(c) \/ Silence(c)
      PROVE  UNCHANGED revoke
  BY <1>1 DEF Pump, Ping, LinkDown, Recycle, ReaderExit, Silence, revVars
<1>2. ASSUME NEW c, HostHandler(c) PROVE UNCHANGED revoke
  BY <1>1, <1>2
  DEF HostHandler, HostCheck, HostAttach, HostOnline, HostGreet, HostLookup, HostSend, HostDetach, revVars
<1>3. ASSUME NEW c, DeviceHandler(c) PROVE UNCHANGED revoke
  BY <1>1, <1>3
  DEF DeviceHandler, DeviceAttach, DeviceLookup, DeviceSend, DeviceFail, DeviceDetach, revVars
<1>4. ASSUME NEW c, HostInput(c) \/ DeviceInput(c) PROVE UNCHANGED revoke
  BY <1>1, <1>4 DEF HostInput, DeviceInput, HostAccept, HostFrame, DeviceAccept, DeviceFrame, revVars
<1>5. ASSUME NEW d, Pair(d) PROVE UNCHANGED revoke
  BY <1>5 DEF Pair
<1> QED BY <1>1, <1>2, <1>3, <1>4, <1>5 DEF Next, StoreStep

\* A tunnel in use belongs to a peer of its kind: owner is set when the slot is
\* taken and cleared when it is given back.
LEMMA OwnerStep == ASSUME HubInv, Next PROVE OwnerOK'
<1> USE HubAssumption DEF HubInv, TypeOK, Conn, Goto, hubVars, wireVars, OwnerOK
<1>1. ASSUME Quiet PROVE OwnerOK'
  BY <1>1 DEF Quiet
<1>2. ASSUME NEW c \in Conn, Writes(c) PROVE OwnerOK'
  BY <1>2, WritesEffect
<1>3. ASSUME NEW c \in HostConn, HostCheck(c) PROVE OwnerOK'
  BY <1>3 DEF HostCheck
<1>4. ASSUME NEW c \in HostConn, HostAttach(c) PROVE OwnerOK'
  BY <1>4 DEF HostAttach, CanClose, Kick
<1>5. ASSUME NEW c \in HostConn, HostOnline(c) PROVE OwnerOK'
  BY <1>5 DEF HostOnline
<1>6. ASSUME NEW c \in HostConn, HostLookup(c) PROVE OwnerOK'
  BY <1>6 DEF HostLookup
<1>7. ASSUME NEW c \in HostConn, HostDetach(c) PROVE OwnerOK'
  BY <1>7 DEF HostDetach, DropHost
<1>8. ASSUME NEW c \in Conn, ReaderExit(c) PROVE OwnerOK'
  BY <1>8 DEF ReaderExit
<1>9. ASSUME NEW c \in DeviceConn, DeviceAttach(c) PROVE OwnerOK'
  BY <1>9 DEF DeviceAttach, CanClose, Kick
<1>10. ASSUME NEW c \in DeviceConn, DeviceLookup(c) PROVE OwnerOK'
  BY <1>10 DEF DeviceLookup
<1>11. ASSUME NEW c \in DeviceConn, DeviceDetach(c) PROVE OwnerOK'
  BY <1>11 DEF DeviceDetach, Unbind
<1>12. ASSUME NEW c \in HostConn, NEW h \in Host, NEW how \in {"token", "register"},
              HostAccept(c, h, how)
       PROVE  OwnerOK'
  BY <1>12 DEF HostAccept
<1>13. ASSUME NEW c \in HostConn, NEW ch \in Channel, HostFrame(c, ch) PROVE OwnerOK'
  BY <1>13 DEF HostFrame
<1>14. ASSUME NEW c \in DeviceConn, NEW d \in Device,
              DeviceAccept(c, d)
       PROVE  OwnerOK'
  BY <1>14 DEF DeviceAccept
<1>15. ASSUME NEW c \in DeviceConn, NEW ch \in Channel \cup {None},
              DeviceFrame(c, ch)
       PROVE  OwnerOK'
  BY <1>15 DEF DeviceFrame
<1>16. ASSUME NEW c \in Conn, Pump(c) PROVE OwnerOK'
  BY <1>16 DEF Pump
<1>17. ASSUME NEW c \in Conn, Recycle(c) PROVE OwnerOK'
  BY <1>17 DEF Recycle
<1>18. ASSUME NEW r \in Revoker, RevokeClose(r) PROVE OwnerOK'
  BY <1>18 DEF RevokeClose, CanClose, Kick
<1> QED
  BY NextCases, <1>1, <1>2, <1>3, <1>4, <1>5, <1>6, <1>7, <1>8, <1>9,
     <1>10, <1>11, <1>12, <1>13, <1>14, <1>15, <1>16, <1>17, <1>18

\* attachHost, attachDevice and the detaches keep the tables to tunnels whose
\* handlers still have their detach before them.
LEMMA EntriesStep == ASSUME HubInv, Next PROVE EntriesOwned'
<1> USE HubAssumption DEF HubInv, TypeOK, Conn, Goto, hubVars, wireVars, EntriesOwned, Attached
<1>1. ASSUME Quiet PROVE EntriesOwned'
  BY <1>1 DEF Quiet
<1>2. ASSUME NEW c \in Conn, Writes(c) PROVE EntriesOwned'
  <2>0. PICK p \in {"exit", "loop", "fail"} : pc' = [pc EXCEPT ![c] = p]
    BY <1>2, WritesEffect
  <2>1. \A k \in Conn : pc[k] \in Attached => pc'[k] \in Attached
    BY <2>0
  <2> QED BY <1>2, <2>1, WritesEffect
<1>3. ASSUME NEW c \in HostConn, HostCheck(c) PROVE EntriesOwned'
  <2>1. \A k \in Conn : pc[k] \in Attached => pc'[k] \in Attached
    BY <1>3 DEF HostCheck
  <2> QED BY <1>3, <2>1 DEF HostCheck
<1>4. ASSUME NEW c \in HostConn, HostAttach(c) PROVE EntriesOwned'
  <2>1. \A k \in Conn : pc[k] \in Attached => pc'[k] \in Attached
    BY <1>4 DEF HostAttach
  <2>2. CASE hostConns' = hostConns
    BY <1>4, <2>1, <2>2 DEF HostAttach
  <2>3. CASE hostConns' = [hostConns EXCEPT ![owner[c]] = c] /\ pc' = [pc EXCEPT ![c] = "online"]
    BY <1>4, <2>1, <2>3 DEF HostAttach, OwnerOK
  <2> QED BY <1>4, <2>2, <2>3 DEF HostAttach
<1>5. ASSUME NEW c \in HostConn, HostOnline(c) PROVE EntriesOwned'
  BY <1>5 DEF HostOnline
<1>6. ASSUME NEW c \in HostConn, HostLookup(c) PROVE EntriesOwned'
  BY <1>6 DEF HostLookup
<1>7. ASSUME NEW c \in HostConn, HostDetach(c) PROVE EntriesOwned'
  <2>1. \A k \in Conn \ {c} : pc'[k] = pc[k]
    BY <1>7 DEF HostDetach
  <2>2. \A h \in Host : hostConns'[h] = hostConns[h] \/ hostConns'[h] = None
    BY <1>7 DEF HostDetach, DropHost
  <2>3. ASSUME NEW h \in Host PROVE hostConns'[h] # c
    <3>1. c # None /\ c \in HostConn /\ DropHost(c)
      BY <1>7 DEF HostDetach
    <3>2. hostConns[h] = c => h = owner[c]
      BY <3>1
    <3>3. CASE hostConns[owner[c]] = c
      BY <3>1, <3>2, <3>3 DEF DropHost
    <3>4. CASE hostConns[owner[c]] # c
      BY <3>1, <3>2, <3>4 DEF DropHost
    <3> QED BY <3>3, <3>4
  <2> QED BY <1>7, <2>1, <2>2, <2>3 DEF HostDetach
<1>8. ASSUME NEW c \in Conn, ReaderExit(c) PROVE EntriesOwned'
  BY <1>8 DEF ReaderExit
<1>9. ASSUME NEW c \in DeviceConn, DeviceAttach(c) PROVE EntriesOwned'
  <2>1. \A k \in Conn : pc[k] \in Attached => pc'[k] \in Attached
    BY <1>9 DEF DeviceAttach
  <2>2. CASE deviceConns' = deviceConns
    BY <1>9, <2>1, <2>2 DEF DeviceAttach
  <2>3. CASE deviceConns' = [deviceConns EXCEPT ![owner[c]] = c] /\ pc' = [pc EXCEPT ![c] = "loop"]
    BY <1>9, <2>1, <2>3 DEF DeviceAttach, OwnerOK
  <2> QED BY <1>9, <2>2, <2>3 DEF DeviceAttach
<1>10. ASSUME NEW c \in DeviceConn, DeviceLookup(c) PROVE EntriesOwned'
  BY <1>10 DEF DeviceLookup
<1>11. ASSUME NEW c \in DeviceConn, DeviceDetach(c) PROVE EntriesOwned'
  BY <1>11 DEF DeviceDetach, Unbind
<1>12. ASSUME NEW c \in HostConn, NEW h \in Host, NEW how \in {"token", "register"},
              HostAccept(c, h, how)
       PROVE  EntriesOwned'
  BY <1>12 DEF HostAccept
<1>13. ASSUME NEW c \in HostConn, NEW ch \in Channel,
              HostFrame(c, ch)
       PROVE  EntriesOwned'
  <2>1. \A k \in Conn : pc[k] \in Attached => pc'[k] \in Attached
    BY <1>13 DEF HostFrame
  <2> QED BY <1>13, <2>1 DEF HostFrame
<1>14. ASSUME NEW c \in DeviceConn, NEW d \in Device,
              DeviceAccept(c, d)
       PROVE  EntriesOwned'
  BY <1>14 DEF DeviceAccept
<1>15. ASSUME NEW c \in DeviceConn, NEW ch \in Channel \cup {None},
              DeviceFrame(c, ch)
       PROVE  EntriesOwned'
  BY <1>15 DEF DeviceFrame
<1>16. ASSUME NEW c \in Conn, Pump(c) PROVE EntriesOwned'
  BY <1>16 DEF Pump
<1>17. ASSUME NEW c \in Conn, Recycle(c) PROVE EntriesOwned'
  BY <1>17 DEF Recycle
<1>18. ASSUME NEW r \in Revoker, RevokeClose(r) PROVE EntriesOwned'
  BY <1>18 DEF RevokeClose, CanClose, Kick
<1> QED
  BY NextCases, <1>1, <1>2, <1>3, <1>4, <1>5, <1>6, <1>7, <1>8, <1>9,
     <1>10, <1>11, <1>12, <1>13, <1>14, <1>15, <1>16, <1>17, <1>18

\* A device bound to a key of h is one that h may reach: its own, or one of a host
\* that shares the key.
LEMMA KeyReaches ==
    ASSUME NEW h \in Host, NEW d \in Device, NEW ch \in Channel,
           HasKey(d, KeyOf[h][ch])
    PROVE  MayReach(h, d)
BY DEF HasKey, MayReach, ShareKey

\* bindChannel writes only under a key of the host that the device is paired with.
LEMMA ChannelsStep == ASSUME HubInv, Next PROVE ChannelsScoped'
<1> USE HubAssumption DEF HubInv, TypeOK, Conn, Goto, hubVars, wireVars, ChannelsScoped
<1>1. ASSUME Quiet PROVE ChannelsScoped'
  BY <1>1 DEF Quiet
<1>2. ASSUME NEW c \in Conn, Writes(c) PROVE ChannelsScoped'
  BY <1>2, WritesEffect
<1>3. ASSUME NEW c \in HostConn, HostCheck(c) PROVE ChannelsScoped'
  BY <1>3 DEF HostCheck
<1>4. ASSUME NEW c \in HostConn, HostAttach(c) PROVE ChannelsScoped'
  BY <1>4 DEF HostAttach, CanClose, Kick
<1>5. ASSUME NEW c \in HostConn, HostOnline(c) PROVE ChannelsScoped'
  BY <1>5 DEF HostOnline
<1>6. ASSUME NEW c \in HostConn, HostLookup(c) PROVE ChannelsScoped'
  BY <1>6 DEF HostLookup
<1>7. ASSUME NEW c \in HostConn, HostDetach(c) PROVE ChannelsScoped'
  BY <1>7 DEF HostDetach, DropHost
<1>8. ASSUME NEW c \in Conn, ReaderExit(c) PROVE ChannelsScoped'
  BY <1>8 DEF ReaderExit
<1>9. ASSUME NEW c \in DeviceConn, DeviceAttach(c) PROVE ChannelsScoped'
  BY <1>9 DEF DeviceAttach, CanClose, Kick
<1>10. ASSUME NEW c \in DeviceConn, DeviceLookup(c) PROVE ChannelsScoped'
  BY <1>10 DEF DeviceLookup
<1>11. ASSUME NEW c \in DeviceConn, DeviceDetach(c) PROVE ChannelsScoped'
  BY <1>11 DEF DeviceDetach, Unbind
<1>12. ASSUME NEW c \in HostConn, NEW h \in Host, NEW how \in {"token", "register"},
              HostAccept(c, h, how)
       PROVE  ChannelsScoped'
  BY <1>12 DEF HostAccept
<1>13. ASSUME NEW c \in HostConn, NEW ch \in Channel,
              HostFrame(c, ch)
       PROVE  ChannelsScoped'
  BY <1>13 DEF HostFrame
<1>14. ASSUME NEW c \in DeviceConn, NEW d \in Device,
              DeviceAccept(c, d)
       PROVE  ChannelsScoped'
  BY <1>14 DEF DeviceAccept
<1>15. ASSUME NEW c \in DeviceConn, NEW ch \in Channel \cup {None},
              DeviceFrame(c, ch)
       PROVE  ChannelsScoped'
  <2>1. owner[c] \in Device
    BY <1>15 DEF DeviceFrame, OwnerOK
  <2>2. CASE ch = None
    BY <1>15, <2>2 DEF DeviceFrame
  <2>3. CASE ch # None
    <3> DEFINE key == KeyOf[HostOf[owner[c]]][ch]
    <3>1. channels' = [channels EXCEPT ![key] = owner[c]]
      BY <1>15, <2>3 DEF DeviceFrame, Bind
    <3>2. HasKey(owner[c], key)
      BY <2>3 DEF HasKey
    <3> HIDE DEF key
    <3>3. ASSUME NEW k \in Key, channels'[k] # None PROVE HasKey(channels'[k], k)
      <4>1. CASE k = key
        <5>1. channels'[k] = owner[c]
          BY <3>1, <4>1
        <5> QED BY <3>2, <4>1, <5>1
      <4>2. CASE k # key
        <5>1. channels'[k] = channels[k]
          BY <3>1, <4>2
        <5> QED BY <3>3, <5>1
      <4> QED BY <4>1, <4>2
    <3> QED BY <3>3
  <2> QED BY <2>2, <2>3
<1>16. ASSUME NEW c \in Conn, Pump(c) PROVE ChannelsScoped'
  BY <1>16 DEF Pump
<1>17. ASSUME NEW c \in Conn, Recycle(c) PROVE ChannelsScoped'
  BY <1>17 DEF Recycle
<1>18. ASSUME NEW r \in Revoker, RevokeClose(r) PROVE ChannelsScoped'
  BY <1>18 DEF RevokeClose, CanClose, Kick
<1> QED
  BY NextCases, <1>1, <1>2, <1>3, <1>4, <1>5, <1>6, <1>7, <1>8, <1>9,
     <1>10, <1>11, <1>12, <1>13, <1>14, <1>15, <1>16, <1>17, <1>18

\* What a handler looked up stays a tunnel of its own pairing until it is used,
\* though the table may change in between: the slot is not recycled under it.
LEMMA RefStep == ASSUME HubInv, Next PROVE RefOK'
<1> USE HubAssumption DEF HubInv, TypeOK, Conn, Goto, hubVars, wireVars, RefOK
<1>1. ASSUME Quiet PROVE RefOK'
  BY <1>1 DEF Quiet
<1>2. ASSUME NEW c \in Conn, Writes(c) PROVE RefOK'
  <2>1. PICK p \in {"exit", "loop", "fail"} : pc' = [pc EXCEPT ![c] = p]
    BY <1>2, WritesEffect
  <2>2. \A k \in Conn : pc'[k] \in {"lookup", "send"} => k # c /\ pc'[k] = pc[k]
    BY <2>1
  <2>3. \A k \in Conn : k # c => ref'[k] = ref[k]
    <3>1. ref' = ref \/ ref' = [ref EXCEPT ![c] = None]
      BY <1>2, WritesEffect
    <3> QED BY <3>1
  <2>4. \A k \in Conn : pc[k] # "free" => pc'[k] # "free"
    BY <2>1
  <2>5. owner' = owner
    BY <1>2, WritesEffect
  <2> QED BY <2>2, <2>3, <2>4, <2>5
<1>3. ASSUME NEW c \in HostConn, HostCheck(c) PROVE RefOK'
  BY <1>3 DEF HostCheck
<1>4. ASSUME NEW c \in HostConn, HostAttach(c) PROVE RefOK'
  BY <1>4 DEF HostAttach, CanClose, Kick
<1>5. ASSUME NEW c \in HostConn, HostOnline(c) PROVE RefOK'
  BY <1>5 DEF HostOnline
<1>6. ASSUME NEW c \in HostConn, HostLookup(c) PROVE RefOK'
  <2>1. \A k \in Conn \ {c} : pc'[k] = pc[k] /\ ref'[k] = ref[k]
    BY <1>6 DEF HostLookup
  <2>2. pc'[c] # "free" /\ pc'[c] # "lookup" /\ owner' = owner
    BY <1>6 DEF HostLookup
  <2>3. ASSUME pc'[c] = "send"
        PROVE  /\ ref'[c] \in DeviceConn
               /\ pc[ref'[c]] \in Attached
               /\ owner[ref'[c]] = ref[c]
    BY <1>6, <2>3 DEF HostLookup, EntriesOwned
  <2>4. MayReach(owner[c], ref[c])
    BY <1>6 DEF HostLookup
  <2>5. \A k \in Conn : pc[k] # "free" => pc'[k] # "free"
    BY <2>1, <2>2
  <2>6. ASSUME NEW k \in HostConn, pc'[k] = "lookup"
        PROVE  ref'[k] \in Device /\ MayReach(owner'[k], ref'[k])
    BY <2>1, <2>2, <2>6
  <2>7. ASSUME NEW k \in HostConn, pc'[k] = "send"
        PROVE  /\ ref'[k] \in DeviceConn
               /\ pc'[ref'[k]] # "free"
               /\ MayReach(owner'[k], owner'[ref'[k]])
    <3>1. CASE k = c
      <4>1. ref'[c] \in DeviceConn /\ pc[ref'[c]] # "free"
        BY <2>3, <2>7, <3>1 DEF Attached
      <4> QED BY <2>2, <2>3, <2>4, <2>5, <2>7, <3>1, <4>1
    <3>2. CASE k # c
      <4>1. pc[k] = "send" /\ ref'[k] = ref[k]
        BY <2>1, <2>7, <3>2
      <4> QED BY <2>2, <2>5, <4>1
    <3> QED BY <3>1, <3>2
  <2>8. ASSUME NEW k \in DeviceConn, pc'[k] = "send"
        PROVE  /\ ref'[k] \in HostConn
               /\ pc'[ref'[k]] # "free"
               /\ owner'[ref'[k]] = HostOf[owner'[k]]
    <3>1. k # c /\ pc[k] = "send" /\ ref'[k] = ref[k]
      BY <1>6, <2>1, <2>8
    <3> QED BY <2>2, <2>5, <3>1
  <2> QED BY <2>6, <2>7, <2>8
<1>7. ASSUME NEW c \in HostConn, HostDetach(c) PROVE RefOK'
  BY <1>7 DEF HostDetach, DropHost
<1>8. ASSUME NEW c \in Conn, ReaderExit(c) PROVE RefOK'
  BY <1>8 DEF ReaderExit
<1>9. ASSUME NEW c \in DeviceConn, DeviceAttach(c) PROVE RefOK'
  BY <1>9 DEF DeviceAttach, CanClose, Kick
<1>10. ASSUME NEW c \in DeviceConn, DeviceLookup(c) PROVE RefOK'
  <2>1. \A k \in Conn \ {c} : pc'[k] = pc[k] /\ ref'[k] = ref[k]
    BY <1>10 DEF DeviceLookup
  <2>2. pc'[c] # "free" /\ owner' = owner
    BY <1>10 DEF DeviceLookup
  <2>3. ASSUME pc'[c] = "send"
        PROVE  /\ ref'[c] \in HostConn
               /\ pc[ref'[c]] \in Attached
               /\ owner[ref'[c]] = HostOf[owner[c]]
    BY <1>10, <2>3 DEF DeviceLookup, EntriesOwned, OwnerOK
  <2>5. \A k \in Conn : pc[k] # "free" => pc'[k] # "free"
    BY <2>1, <2>2
  <2>6. ASSUME NEW k \in HostConn
        PROVE  /\ pc'[k] = pc[k] /\ ref'[k] = ref[k] /\ owner'[k] = owner[k]
               /\ pc[k] = "send" => pc'[ref[k]] # "free" /\ owner'[ref[k]] = owner[ref[k]]
    <3>1. k # c
      BY <1>10
    <3>2. pc[k] = "send" => ref[k] \in Conn /\ pc[ref[k]] # "free"
      OBVIOUS
    <3> QED BY <2>1, <2>2, <2>5, <3>1, <3>2
  <2>7. ASSUME NEW k \in DeviceConn, pc'[k] = "send"
        PROVE  /\ ref'[k] \in HostConn
               /\ pc'[ref'[k]] # "free"
               /\ owner'[ref'[k]] = HostOf[owner'[k]]
    <3>1. CASE k = c
      <4>1. ref'[c] \in HostConn /\ pc[ref'[c]] # "free"
        BY <2>3, <2>7, <3>1 DEF Attached
      <4> QED BY <2>2, <2>3, <2>5, <2>7, <3>1, <4>1
    <3>2. CASE k # c
      <4>1. pc[k] = "send" /\ ref'[k] = ref[k]
        BY <2>1, <2>7, <3>2
      <4> QED BY <2>2, <2>5, <4>1
    <3> QED BY <3>1, <3>2
  <2> QED BY <2>6, <2>7
<1>11. ASSUME NEW c \in DeviceConn, DeviceDetach(c) PROVE RefOK'
  BY <1>11 DEF DeviceDetach, Unbind
<1>12. ASSUME NEW c \in HostConn, NEW h \in Host, NEW how \in {"token", "register"},
              HostAccept(c, h, how)
       PROVE  RefOK'
  BY <1>12 DEF HostAccept
<1>13. ASSUME NEW c \in HostConn, NEW ch \in Channel, HostFrame(c, ch) PROVE RefOK'
  <2>1. \A k \in Conn \ {c} : pc'[k] = pc[k] /\ ref'[k] = ref[k]
    BY <1>13 DEF HostFrame
  <2>2. pc'[c] \in {"loop", "lookup"} /\ owner' = owner
    BY <1>13 DEF HostFrame
  <2>3. ASSUME pc'[c] = "lookup" PROVE ref'[c] \in Device /\ MayReach(owner[c], ref'[c])
    <3> DEFINE key == KeyOf[owner[c]][ch]
    <3>1. owner[c] \in Host
      BY <1>13 DEF HostFrame, OwnerOK
    <3>2. channels[key] # None /\ ref'[c] = channels[key]
      BY <1>13, <2>3 DEF HostFrame
    <3>3. key \in Key /\ channels[key] \in Device /\ HasKey(channels[key], key)
      BY <3>1, <3>2 DEF ChannelsScoped
    <3>4. MayReach(owner[c], channels[key])
      BY <3>1, <3>3, KeyReaches
    <3> QED BY <3>2, <3>3, <3>4
  <2>4. \A k \in Conn : pc[k] # "free" => pc'[k] # "free"
    BY <2>1, <2>2
  <2>5. ASSUME NEW k \in HostConn, pc'[k] = "send"
        PROVE  k # c /\ pc[k] = "send" /\ ref'[k] = ref[k] /\ pc'[ref[k]] # "free"
    BY <2>1, <2>2, <2>4, <2>5
  <2>6. ASSUME NEW k \in DeviceConn, pc'[k] = "send"
        PROVE  pc[k] = "send" /\ ref'[k] = ref[k] /\ pc'[ref[k]] # "free"
    <3>1. k # c /\ k \in Conn
      BY <1>13
    <3>2. pc[k] = "send" /\ ref'[k] = ref[k]
      BY <2>1, <2>6, <3>1
    <3> QED BY <2>4, <3>2
  <2>7. ASSUME NEW k \in HostConn, pc'[k] = "lookup"
        PROVE  ref'[k] \in Device /\ MayReach(owner'[k], ref'[k])
    BY <2>1, <2>2, <2>3, <2>7
  <2> QED BY <2>2, <2>5, <2>6, <2>7
<1>14. ASSUME NEW c \in DeviceConn, NEW d \in Device, DeviceAccept(c, d) PROVE RefOK'
  BY <1>14 DEF DeviceAccept
<1>15. ASSUME NEW c \in DeviceConn, NEW ch \in Channel \cup {None},
              DeviceFrame(c, ch)
       PROVE  RefOK'
  BY <1>15 DEF DeviceFrame
<1>16. ASSUME NEW c \in Conn, Pump(c) PROVE RefOK'
  BY <1>16 DEF Pump
<1>17. ASSUME NEW c \in Conn, Recycle(c) PROVE RefOK'
  BY <1>17 DEF Recycle
<1>18. ASSUME NEW r \in Revoker, RevokeClose(r) PROVE RefOK'
  BY <1>18 DEF RevokeClose, CanClose, Kick
<1> QED
  BY NextCases, <1>1, <1>2, <1>3, <1>4, <1>5, <1>6, <1>7, <1>8, <1>9,
     <1>10, <1>11, <1>12, <1>13, <1>14, <1>15, <1>16, <1>17, <1>18

\* A slot is given back with an empty queue, and nobody sends to a free slot.
LEMMA FreeEmptyStep == ASSUME HubInv, Next PROVE FreeEmpty'
<1> USE HubAssumption DEF HubInv, TypeOK, Conn, Goto, hubVars, wireVars, FreeEmpty
<1>1. ASSUME Quiet PROVE FreeEmpty'
  BY <1>1 DEF Quiet
<1>2. ASSUME NEW c \in Conn, Writes(c) PROVE FreeEmpty'
  <2>1. PICK p \in {"exit", "loop", "fail"} : pc' = [pc EXCEPT ![c] = p]
    BY <1>2, WritesEffect
  <2>2. pc[c] # "free" /\ (pc[c] = "send" => ref[c] \in Conn /\ pc[ref[c]] # "free")
    BY <1>2, WritesEffect DEF RefOK
  <2>3. ASSUME NEW k \in Conn, pc'[k] = "free" PROVE pc[k] = "free" /\ queue'[k] = queue[k]
    <3>1. k # c /\ pc[k] = "free"
      BY <2>1, <2>3
    <3>2. pc[c] = "send" => k # ref[c]
      BY <2>2, <3>1
    <3> QED BY <1>2, <3>1, <3>2, WritesEffect
  <2> QED BY <2>3
<1>3. ASSUME NEW c \in HostConn, HostCheck(c) PROVE FreeEmpty'
  BY <1>3 DEF HostCheck
<1>4. ASSUME NEW c \in HostConn, HostAttach(c) PROVE FreeEmpty'
  BY <1>4 DEF HostAttach, CanClose, Kick
<1>5. ASSUME NEW c \in HostConn, HostOnline(c) PROVE FreeEmpty'
  BY <1>5 DEF HostOnline
<1>6. ASSUME NEW c \in HostConn, HostLookup(c) PROVE FreeEmpty'
  BY <1>6 DEF HostLookup
<1>7. ASSUME NEW c \in HostConn, HostDetach(c) PROVE FreeEmpty'
  BY <1>7 DEF HostDetach, DropHost
<1>8. ASSUME NEW c \in Conn, ReaderExit(c) PROVE FreeEmpty'
  BY <1>8 DEF ReaderExit
<1>9. ASSUME NEW c \in DeviceConn, DeviceAttach(c) PROVE FreeEmpty'
  BY <1>9 DEF DeviceAttach, CanClose, Kick
<1>10. ASSUME NEW c \in DeviceConn, DeviceLookup(c) PROVE FreeEmpty'
  BY <1>10 DEF DeviceLookup
<1>11. ASSUME NEW c \in DeviceConn, DeviceDetach(c) PROVE FreeEmpty'
  BY <1>11 DEF DeviceDetach, Unbind
<1>12. ASSUME NEW c \in HostConn, NEW h \in Host, NEW how \in {"token", "register"},
              HostAccept(c, h, how)
       PROVE  FreeEmpty'
  BY <1>12 DEF HostAccept
<1>13. ASSUME NEW c \in HostConn, NEW ch \in Channel,
              HostFrame(c, ch)
       PROVE  FreeEmpty'
  BY <1>13 DEF HostFrame
<1>14. ASSUME NEW c \in DeviceConn, NEW d \in Device,
              DeviceAccept(c, d)
       PROVE  FreeEmpty'
  BY <1>14 DEF DeviceAccept
<1>15. ASSUME NEW c \in DeviceConn, NEW ch \in Channel \cup {None},
              DeviceFrame(c, ch)
       PROVE  FreeEmpty'
  BY <1>15 DEF DeviceFrame
<1>16. ASSUME NEW c \in Conn, Pump(c) PROVE FreeEmpty'
  <2>1. pc' = pc /\ \A k \in Conn : queue'[k] # queue[k] => queue[k] # <<>>
    BY <1>16 DEF Pump, PumpWrite, PumpClose
  <2> QED BY <2>1
<1>17. ASSUME NEW c \in Conn, Recycle(c) PROVE FreeEmpty'
  BY <1>17 DEF Recycle
<1>18. ASSUME NEW r \in Revoker, RevokeClose(r) PROVE FreeEmpty'
  BY <1>18 DEF RevokeClose, CanClose, Kick
<1> QED
  BY NextCases, <1>1, <1>2, <1>3, <1>4, <1>5, <1>6, <1>7, <1>8, <1>9,
     <1>10, <1>11, <1>12, <1>13, <1>14, <1>15, <1>16, <1>17, <1>18

\* Every frame that is appended to a queue comes from the relay itself or from a
\* peer paired with the tunnel; what is already queued keeps its tunnel.
LEMMA IsolationStep == ASSUME HubInv, Next PROVE HostIsolation'
<1> USE HubAssumption DEF HubInv, TypeOK, Conn, Goto, hubVars, wireVars, HostIsolation
<1>1. ASSUME Quiet PROVE HostIsolation'
  BY <1>1 DEF Quiet
<1>2. ASSUME NEW c \in Conn, Writes(c) PROVE HostIsolation'
  <2> DEFINE Paired(k, x) == x # None => IF k \in HostConn
                                         THEN x \in Device /\ HostOf[x] = owner[k]
                                         ELSE x \in Host /\ MayReach(x, owner[k])
  <2>1. owner' = owner
    BY <1>2, WritesEffect
  <2>2. \A k \in Conn : \A i \in 1..Len(queue[k]) : Paired(k, queue[k][i])
    OBVIOUS
  <2>3. ASSUME NEW t \in Conn, NEW x \in Peer \cup {None}, Paired(t, x),
               queue' = [queue EXCEPT ![t] = Append(@, x)]
        PROVE  \A k \in Conn : \A i \in 1..Len(queue'[k]) : Paired(k, queue'[k][i])
    <3>1. ASSUME NEW k \in Conn, k # t, NEW i \in 1..Len(queue'[k]) PROVE Paired(k, queue'[k][i])
      <4>1. queue'[k] = queue[k]
        BY <2>3, <3>1
      <4> QED BY <2>2, <4>1
    <3>2. ASSUME NEW i \in 1..Len(queue'[t]) PROVE Paired(t, queue'[t][i])
      <4>1. queue[t] \in Seq(Peer \cup {None}) /\ queue'[t] = Append(queue[t], x)
        BY <2>3
      <4>2. CASE i <= Len(queue[t])
        <5>1. i \in 1..Len(queue[t]) /\ queue'[t][i] = queue[t][i]
          BY <4>1, <4>2
        <5> QED BY <2>2, <5>1
      <4>3. CASE ~(i <= Len(queue[t]))
        <5>1. queue'[t][i] = x
          BY <4>1, <4>3
        <5> QED BY <2>3, <5>1
      <4> QED BY <4>2, <4>3
    <3> HIDE DEF Paired
    <3>3. ASSUME NEW k \in Conn, NEW i \in 1..Len(queue'[k]) PROVE Paired(k, queue'[k][i])
      <4>1. CASE k = t
        BY <3>2, <4>1
      <4>2. CASE k # t
        BY <3>1, <4>2
      <4> QED BY <4>1, <4>2
    <3> QED BY <3>3
  <2>4. CASE queue' = queue
    BY <2>1, <2>4
  <2>5. CASE queue' = [queue EXCEPT ![c] = Append(@, None)]
    BY <2>1, <2>3, <2>5
  <2>6. CASE pc[c] = "send" /\ queue' = [queue EXCEPT ![ref[c]] = Append(@, owner[c])]
    <3>1. ref[c] \in Conn /\ owner[c] \in Peer
      BY <2>6 DEF RefOK, OwnerOK, Peer
    <3>2. Paired(ref[c], owner[c])
      BY <2>6 DEF RefOK, OwnerOK
    <3> HIDE DEF Paired
    <3>3. \A k \in Conn : \A i \in 1..Len(queue'[k]) : Paired(k, queue'[k][i])
      BY <2>3, <2>6, <3>1, <3>2
    <3> QED BY <2>1, <3>3 DEF Paired
  <2> QED BY <1>2, <2>4, <2>5, <2>6, WritesEffect
<1>3. ASSUME NEW c \in HostConn, HostCheck(c) PROVE HostIsolation'
  BY <1>3 DEF HostCheck
<1>4. ASSUME NEW c \in HostConn, HostAttach(c) PROVE HostIsolation'
  BY <1>4 DEF HostAttach, CanClose, Kick
<1>5. ASSUME NEW c \in HostConn, HostOnline(c) PROVE HostIsolation'
  BY <1>5 DEF HostOnline
<1>6. ASSUME NEW c \in HostConn, HostLookup(c) PROVE HostIsolation'
  BY <1>6 DEF HostLookup
<1>7. ASSUME NEW c \in HostConn, HostDetach(c) PROVE HostIsolation'
  BY <1>7 DEF HostDetach, DropHost
<1>8. ASSUME NEW c \in Conn, ReaderExit(c) PROVE HostIsolation'
  BY <1>8 DEF ReaderExit
<1>9. ASSUME NEW c \in DeviceConn, DeviceAttach(c) PROVE HostIsolation'
  BY <1>9 DEF DeviceAttach, CanClose, Kick
<1>10. ASSUME NEW c \in DeviceConn, DeviceLookup(c) PROVE HostIsolation'
  BY <1>10 DEF DeviceLookup
<1>11. ASSUME NEW c \in DeviceConn, DeviceDetach(c) PROVE HostIsolation'
  BY <1>11 DEF DeviceDetach, Unbind
<1>12. ASSUME NEW c \in HostConn, NEW h \in Host, NEW how \in {"token", "register"},
              HostAccept(c, h, how)
       PROVE  HostIsolation'
  BY <1>12 DEF HostAccept, FreeEmpty
<1>13. ASSUME NEW c \in HostConn, NEW ch \in Channel,
              HostFrame(c, ch)
       PROVE  HostIsolation'
  BY <1>13 DEF HostFrame
<1>14. ASSUME NEW c \in DeviceConn, NEW d \in Device,
              DeviceAccept(c, d)
       PROVE  HostIsolation'
  BY <1>14 DEF DeviceAccept, FreeEmpty
<1>15. ASSUME NEW c \in DeviceConn, NEW ch \in Channel \cup {None},
              DeviceFrame(c, ch)
       PROVE  HostIsolation'
  BY <1>15 DEF DeviceFrame
<1>16. ASSUME NEW c \in Conn, Pump(c) PROVE HostIsolation'
  <2>1. CASE PumpWrite(c)
    <3>1. queue[c] \in Seq(Peer \cup {None}) /\ queue[c] # <<>>
      BY <2>1 DEF PumpWrite
    <3>2. ASSUME NEW i \in 1..Len(Tail(queue[c]))
          PROVE  i + 1 \in 1..Len(queue[c]) /\ Tail(queue[c])[i] = queue[c][i + 1]
      BY <3>1
    <3>3. \A k \in Conn : \A i \in 1..Len(queue'[k]) :
            \E j \in 1..Len(queue[k]) : queue'[k][i] = queue[k][j]
      <4> TAKE k \in Conn
      <4> TAKE i \in 1..Len(queue'[k])
      <4>1. CASE k = c
        <5>1. queue'[k] = Tail(queue[c])
          BY <2>1, <4>1 DEF PumpWrite
        <5> QED BY <3>2, <4>1, <5>1
      <4>2. CASE k # c
        BY <2>1, <4>2 DEF PumpWrite
      <4> QED BY <4>1, <4>2
    <3>4. owner' = owner
      BY <1>16 DEF Pump
    <3>5. ASSUME NEW k \in Conn, NEW i \in 1..Len(queue'[k]), queue'[k][i] # None
          PROVE  IF k \in HostConn THEN queue'[k][i] \in Device /\ HostOf[queue'[k][i]] = owner[k]
                                   ELSE queue'[k][i] \in Host /\ MayReach(queue'[k][i], owner[k])
      <4>1. \E j \in 1..Len(queue[k]) : queue'[k][i] = queue[k][j]
        BY <3>3, <3>5
      <4>2. PICK j \in 1..Len(queue[k]) : queue'[k][i] = queue[k][j]
        BY <4>1
      <4> QED BY <3>5, <4>2
    <3> QED BY <3>4, <3>5
  <2>2. CASE PumpClose(c)
    BY <1>16, <2>2 DEF Pump, PumpClose
  <2> QED BY <1>16, <2>1, <2>2 DEF Pump
<1>17. ASSUME NEW c \in Conn, Recycle(c) PROVE HostIsolation'
  BY <1>17 DEF Recycle
<1>18. ASSUME NEW r \in Revoker, RevokeClose(r) PROVE HostIsolation'
  BY <1>18 DEF RevokeClose, CanClose, Kick
<1> HIDE DEF HubInv, TypeOK, HostIsolation
<1> QED
  BY NextCases, <1>1, <1>2, <1>3, <1>4, <1>5, <1>6, <1>7, <1>8, <1>9,
     <1>10, <1>11, <1>12, <1>13, <1>14, <1>15, <1>16, <1>17, <1>18

\* A host tunnel is not kicked before it is in the table, and the kick that
\* attachHost gives takes it out of the table.
LEMMA KickedOnceStep == ASSUME HubInv, Next PROVE KickedOnce'
<1> USE HubAssumption DEF HubInv, TypeOK, Conn, Goto, hubVars, wireVars, KickedOnce
<1>1. ASSUME Quiet PROVE KickedOnce'
  BY <1>1 DEF Quiet
<1>2. ASSUME NEW c \in Conn, Writes(c) PROVE KickedOnce'
  <2>1. PICK p \in {"exit", "loop", "fail"} : pc' = [pc EXCEPT ![c] = p]
    BY <1>2, WritesEffect
  <2>2. \A k \in HostConn : pc'[k] \in {"free", "check", "attach"} => pc'[k] = pc[k]
    BY <2>1
  <2>3. UNCHANGED <<hostConns, open>>
    BY <1>2, WritesEffect
  <2> QED BY <2>2, <2>3
<1>3. ASSUME NEW c \in HostConn, HostCheck(c) PROVE KickedOnce'
  BY <1>3 DEF HostCheck
<1>4. ASSUME NEW c \in HostConn, HostAttach(c) PROVE KickedOnce'
  <2> DEFINE old == hostConns[owner[c]]
  <2>1. CASE ~CanClose(old)
    BY <1>4, <2>1 DEF HostAttach
  <2>2. CASE CanClose(old)
    <3>1. /\ Kick(old)
          /\ hostConns' = [hostConns EXCEPT ![owner[c]] = c]
          /\ pc' = [pc EXCEPT ![c] = "online"]
      BY <1>4, <2>2 DEF HostAttach
    <3>0. owner[c] \in Host /\ pc[c] = "attach" /\ c # None
      BY <1>4 DEF HostAttach, OwnerOK
    <3>2. owner[c] \in Host /\ open[c] /\ old # c
      BY <3>0 DEF EntriesOwned, Attached
    <3>3. \A k \in HostConn : k # old => open'[k] = open[k]
      BY <3>1 DEF Kick
    <3>4. old # None => pc[old] \in Attached /\ owner[old] = owner[c]
      BY <3>2 DEF EntriesOwned
    <3>5. ASSUME NEW k \in HostConn, pc'[k] \in {"free", "check", "attach"} PROVE open'[k]
      <4>1. pc[k] = pc'[k]
        BY <3>1, <3>5
      <4>2. k # old
        BY <3>4, <3>5, <4>1 DEF Attached
      <4> QED BY <3>3, <3>5, <4>1, <4>2
    <3>6. ASSUME NEW h \in Host, hostConns'[h] # None PROVE open'[hostConns'[h]]
      <4>1. CASE h = owner[c]
        BY <3>1, <3>2, <3>3, <4>1
      <4>2. CASE h # owner[c]
        <5>1. hostConns'[h] = hostConns[h] /\ hostConns[h] \in HostConn
          BY <3>1, <3>6, <4>2
        <5>2. owner[hostConns[h]] = h
          BY <3>6, <5>1 DEF EntriesOwned
        <5>3. hostConns[h] # old
          BY <3>4, <4>2, <5>1, <5>2
        <5> QED BY <3>3, <3>6, <5>1, <5>3
      <4> QED BY <4>1, <4>2
    <3> QED BY <3>5, <3>6
  <2> QED BY <2>1, <2>2
<1>5. ASSUME NEW c \in HostConn, HostOnline(c) PROVE KickedOnce'
  BY <1>5 DEF HostOnline
<1>6. ASSUME NEW c \in HostConn, HostLookup(c) PROVE KickedOnce'
  BY <1>6 DEF HostLookup
<1>7. ASSUME NEW c \in HostConn, HostDetach(c) PROVE KickedOnce'
  <2>1. \A h \in Host : hostConns'[h] # None => hostConns'[h] = hostConns[h]
    BY <1>7 DEF HostDetach, DropHost
  <2>2. open' = open /\ \A k \in HostConn : pc'[k] \in {"free", "check", "attach"} => pc'[k] = pc[k]
    BY <1>7 DEF HostDetach
  <2> QED BY <2>1, <2>2
<1>8. ASSUME NEW c \in Conn, ReaderExit(c) PROVE KickedOnce'
  BY <1>8 DEF ReaderExit
<1>9. ASSUME NEW c \in DeviceConn, DeviceAttach(c) PROVE KickedOnce'
  <2>1. \A k \in HostConn : open'[k] = open[k]
    <3>1. deviceConns[owner[c]] \in DeviceConn \cup {None}
      BY <1>9 DEF DeviceAttach, OwnerOK
    <3> QED BY <1>9, <3>1 DEF DeviceAttach, Kick
  <2>2. \A k \in HostConn : pc'[k] = pc[k]
    BY <1>9 DEF DeviceAttach
  <2> QED BY <1>9, <2>1, <2>2 DEF DeviceAttach
<1>10. ASSUME NEW c \in DeviceConn, DeviceLookup(c) PROVE KickedOnce'
  BY <1>10 DEF DeviceLookup
<1>11. ASSUME NEW c \in DeviceConn, DeviceDetach(c) PROVE KickedOnce'
  BY <1>11 DEF DeviceDetach, Unbind
<1>12. ASSUME NEW c \in HostConn, NEW h \in Host, NEW how \in {"token", "register"},
              HostAccept(c, h, how)
       PROVE  KickedOnce'
  BY <1>12 DEF HostAccept
<1>13. ASSUME NEW c \in HostConn, NEW ch \in Channel,
              HostFrame(c, ch)
       PROVE  KickedOnce'
  BY <1>13 DEF HostFrame
<1>14. ASSUME NEW c \in DeviceConn, NEW d \in Device,
              DeviceAccept(c, d)
       PROVE  KickedOnce'
  BY <1>14 DEF DeviceAccept
<1>15. ASSUME NEW c \in DeviceConn, NEW ch \in Channel \cup {None},
              DeviceFrame(c, ch)
       PROVE  KickedOnce'
  BY <1>15 DEF DeviceFrame
<1>16. ASSUME NEW c \in Conn, Pump(c) PROVE KickedOnce'
  BY <1>16 DEF Pump
<1>17. ASSUME NEW c \in Conn, Recycle(c) PROVE KickedOnce'
  BY <1>17 DEF Recycle
<1>18. ASSUME NEW r \in Revoker, RevokeClose(r) PROVE KickedOnce'
  <2>1. revoke[r].dev \in Device => deviceConns[revoke[r].dev] \notin HostConn
    OBVIOUS
  <2>2. \A k \in HostConn : open'[k] = open[k]
    BY <1>18, <2>1 DEF RevokeClose, Kick, RevokerOK
  <2> QED BY <1>18, <2>2 DEF RevokeClose
<1> QED
  BY NextCases, <1>1, <1>2, <1>3, <1>4, <1>5, <1>6, <1>7, <1>8, <1>9,
     <1>10, <1>11, <1>12, <1>13, <1>14, <1>15, <1>16, <1>17, <1>18

\* A handler that binds a channel has its detachDevice still to run, and that
\* detach drops every binding of its device.
LEMMA BindingsStep == ASSUME HubInv, Next PROVE BindingsOwned'
<1> USE HubAssumption DEF HubInv, TypeOK, Conn, Goto, hubVars, wireVars, BindingsOwned, Attached
<1>1. ASSUME Quiet PROVE BindingsOwned'
  BY <1>1 DEF Quiet
<1>2. ASSUME NEW c \in Conn, Writes(c) PROVE BindingsOwned'
  <2>1. PICK p \in {"exit", "loop", "fail"} : pc' = [pc EXCEPT ![c] = p]
    BY <1>2, WritesEffect
  <2>2. owner' = owner /\ channels' = channels
    BY <1>2, WritesEffect
  <2>3. \A x \in DeviceConn : pc[x] \in Attached => pc'[x] \in Attached
    BY <2>1
  <2> QED BY <2>2, <2>3
<1>3. ASSUME NEW c \in HostConn, HostCheck(c) PROVE BindingsOwned'
  <2>1. \A k \in DeviceConn : pc[k] \in Attached => pc'[k] \in Attached /\ owner'[k] = owner[k]
    BY <1>3 DEF HostCheck
  <2>2. channels' = channels
    BY <1>3 DEF HostCheck
  <2>3. ASSUME NEW k \in Key, channels[k] # None
        PROVE  \E x \in DeviceConn : owner'[x] = channels[k] /\ pc'[x] \in Attached
    <3>1. PICK x \in DeviceConn : owner[x] = channels[k] /\ pc[x] \in Attached
      BY <2>3
    <3> QED BY <2>1, <3>1
  <2> QED BY <2>2, <2>3
<1>4. ASSUME NEW c \in HostConn, HostAttach(c) PROVE BindingsOwned'
  <2>1. \A k \in DeviceConn : pc[k] \in Attached => pc'[k] \in Attached /\ owner'[k] = owner[k]
    BY <1>4 DEF HostAttach
  <2>2. channels' = channels
    BY <1>4 DEF HostAttach
  <2>3. ASSUME NEW k \in Key, channels[k] # None
        PROVE  \E x \in DeviceConn : owner'[x] = channels[k] /\ pc'[x] \in Attached
    <3>1. PICK x \in DeviceConn : owner[x] = channels[k] /\ pc[x] \in Attached
      BY <2>3
    <3> QED BY <2>1, <3>1
  <2> QED BY <2>2, <2>3
<1>5. ASSUME NEW c \in HostConn, HostOnline(c) PROVE BindingsOwned'
  BY <1>5 DEF HostOnline
<1>6. ASSUME NEW c \in HostConn, HostLookup(c) PROVE BindingsOwned'
  BY <1>6 DEF HostLookup
<1>7. ASSUME NEW c \in HostConn, HostDetach(c) PROVE BindingsOwned'
  BY <1>7 DEF HostDetach, DropHost
<1>8. ASSUME NEW c \in Conn, ReaderExit(c) PROVE BindingsOwned'
  BY <1>8 DEF ReaderExit
<1>9. ASSUME NEW c \in DeviceConn, DeviceAttach(c) PROVE BindingsOwned'
  <2>1. \A k \in DeviceConn : pc[k] \in Attached => pc'[k] \in Attached /\ owner'[k] = owner[k]
    BY <1>9 DEF DeviceAttach
  <2>2. channels' = channels
    BY <1>9 DEF DeviceAttach
  <2>3. ASSUME NEW k \in Key, channels[k] # None
        PROVE  \E x \in DeviceConn : owner'[x] = channels[k] /\ pc'[x] \in Attached
    <3>1. PICK x \in DeviceConn : owner[x] = channels[k] /\ pc[x] \in Attached
      BY <2>3
    <3> QED BY <2>1, <3>1
  <2> QED BY <2>2, <2>3
<1>10. ASSUME NEW c \in DeviceConn, DeviceLookup(c) PROVE BindingsOwned'
  BY <1>10 DEF DeviceLookup
<1>11. ASSUME NEW c \in DeviceConn, DeviceDetach(c) PROVE BindingsOwned'
  BY <1>11 DEF DeviceDetach, Unbind
<1>12. ASSUME NEW c \in HostConn, NEW h \in Host, NEW how \in {"token", "register"},
              HostAccept(c, h, how)
       PROVE  BindingsOwned'
  BY <1>12 DEF HostAccept
<1>13. ASSUME NEW c \in HostConn, NEW ch \in Channel,
              HostFrame(c, ch)
       PROVE  BindingsOwned'
  BY <1>13 DEF HostFrame
<1>14. ASSUME NEW c \in DeviceConn, NEW d \in Device,
              DeviceAccept(c, d)
       PROVE  BindingsOwned'
  <2>1. \A k \in DeviceConn : pc[k] \in Attached => pc'[k] \in Attached /\ owner'[k] = owner[k]
    BY <1>14 DEF DeviceAccept
  <2>2. channels' = channels
    BY <1>14 DEF DeviceAccept
  <2>3. ASSUME NEW k \in Key, channels[k] # None
        PROVE  \E x \in DeviceConn : owner'[x] = channels[k] /\ pc'[x] \in Attached
    <3>1. PICK x \in DeviceConn : owner[x] = channels[k] /\ pc[x] \in Attached
      BY <2>3
    <3> QED BY <2>1, <3>1
  <2> QED BY <2>2, <2>3
<1>15. ASSUME NEW c \in DeviceConn, NEW ch \in Channel \cup {None},
              DeviceFrame(c, ch)
       PROVE  BindingsOwned'
  <2>1. \A k \in DeviceConn : pc[k] \in Attached => pc'[k] \in Attached
    BY <1>15 DEF DeviceFrame
  <2>2. owner' = owner /\ owner[c] \in Device /\ pc'[c] \in Attached
    BY <1>15 DEF DeviceFrame, OwnerOK
  <2>3. \A k \in Key : channels'[k] # channels[k] => channels'[k] = owner[c]
    BY <1>15, <2>2 DEF DeviceFrame, Bind
  <2>4. ASSUME NEW k \in Key, channels'[k] # None
        PROVE  \E x \in DeviceConn : owner'[x] = channels'[k] /\ pc'[x] \in Attached
    <3>1. CASE channels'[k] = channels[k]
      <4>1. PICK x \in DeviceConn : owner[x] = channels[k] /\ pc[x] \in Attached
        BY <2>4, <3>1
      <4> QED BY <2>1, <2>2, <3>1, <4>1
    <3>2. CASE channels'[k] # channels[k]
      BY <2>2, <2>3, <3>2
    <3> QED BY <3>1, <3>2
  <2>5. ChannelsScoped'
    BY <1>15, ChannelsStep DEF Next, DeviceInput
  <2> QED BY <2>4, <2>5 DEF ChannelsScoped
<1>16. ASSUME NEW c \in Conn, Pump(c) PROVE BindingsOwned'
  BY <1>16 DEF Pump
<1>17. ASSUME NEW c \in Conn, Recycle(c) PROVE BindingsOwned'
  <2>1. \A k \in DeviceConn : pc[k] \in Attached => pc'[k] \in Attached /\ owner'[k] = owner[k]
    BY <1>17 DEF Recycle
  <2>2. channels' = channels
    BY <1>17 DEF Recycle
  <2>3. ASSUME NEW k \in Key, channels[k] # None
        PROVE  \E x \in DeviceConn : owner'[x] = channels[k] /\ pc'[x] \in Attached
    <3>1. PICK x \in DeviceConn : owner[x] = channels[k] /\ pc[x] \in Attached
      BY <2>3
    <3> QED BY <2>1, <3>1
  <2> QED BY <2>2, <2>3
<1>18. ASSUME NEW r \in Revoker, RevokeClose(r) PROVE BindingsOwned'
  BY <1>18 DEF RevokeClose, CanClose, Kick
<1> QED
  BY NextCases, <1>1, <1>2, <1>3, <1>4, <1>5, <1>6, <1>7, <1>8, <1>9,
     <1>10, <1>11, <1>12, <1>13, <1>14, <1>15, <1>16, <1>17, <1>18

\* A tunnel loses its table entry to a replacement that kicks it in the same
\* step, or to its own detach.
LEMMA ZombieStep == ASSUME HubInv, Next PROVE NoZombieTunnel'
<1> USE HubAssumption DEF HubInv, TypeOK, Conn, Goto, hubVars, wireVars, NoZombieTunnel, Current, Attached
<1>1. ASSUME Quiet PROVE NoZombieTunnel'
  BY <1>1 DEF Quiet
<1>2. ASSUME NEW c \in Conn, Writes(c) PROVE NoZombieTunnel'
  <2>1. PICK p \in {"exit", "loop", "fail"} : pc' = [pc EXCEPT ![c] = p]
    BY <1>2, WritesEffect
  <2>2. pc[c] \in Attached /\ \A k \in Conn : k # c => pc'[k] = pc[k]
    BY <1>2, <2>1, WritesEffect
  <2>3. UNCHANGED <<hostConns, deviceConns, owner, open>>
    BY <1>2, WritesEffect
  <2> QED BY <2>2, <2>3
<1>3. ASSUME NEW c \in HostConn, HostCheck(c) PROVE NoZombieTunnel'
  BY <1>3 DEF HostCheck
<1>4. ASSUME NEW c \in HostConn, HostAttach(c) PROVE NoZombieTunnel'
  <2> DEFINE old == hostConns[owner[c]]
  <2>1. CASE ~CanClose(old)
    BY <1>4, <2>1 DEF HostAttach
  <2>2. CASE CanClose(old)
    <3>1. /\ Kick(old)
          /\ hostConns' = [hostConns EXCEPT ![owner[c]] = c]
          /\ pc' = [pc EXCEPT ![c] = "online"]
          /\ UNCHANGED <<deviceConns, owner>>
      BY <1>4, <2>2 DEF HostAttach
    <3>2. owner[c] \in Host
      BY <1>4 DEF HostAttach, OwnerOK
    <3>3. \A k \in Conn : ~open[k] => ~open'[k]
      BY <3>1 DEF Kick
    <3>4. old # None => ~open'[old]
      BY <3>1, <3>2 DEF Kick
    <3>5. ASSUME NEW k \in Conn, pc'[k] \in Attached, ~Current(k)' PROVE ~open'[k]
      <4>1. k # c
        BY <3>1, <3>2, <3>5
      <4>2. pc[k] \in Attached
        BY <3>1, <3>5, <4>1
      <4>3. CASE Current(k)
        <5>1. k \in HostConn /\ hostConns[owner[k]] = k /\ hostConns'[owner[k]] # k
          BY <3>1, <3>5, <4>3
        <5>2. owner[k] = owner[c]
          BY <3>1, <5>1
        <5> QED BY <3>4, <5>1, <5>2
      <4>4. CASE ~Current(k)
        BY <3>3, <4>2, <4>4
      <4> QED BY <4>3, <4>4
    <3> QED BY <3>5
  <2> QED BY <2>1, <2>2
<1>5. ASSUME NEW c \in HostConn, HostOnline(c) PROVE NoZombieTunnel'
  BY <1>5 DEF HostOnline
<1>6. ASSUME NEW c \in HostConn, HostLookup(c) PROVE NoZombieTunnel'
  BY <1>6 DEF HostLookup
<1>7. ASSUME NEW c \in HostConn, HostDetach(c) PROVE NoZombieTunnel'
  <2>1. \A k \in Conn : pc'[k] \in Attached => k # c /\ pc'[k] = pc[k]
    BY <1>7 DEF HostDetach
  <2>2. UNCHANGED <<deviceConns, owner, open>>
    BY <1>7 DEF HostDetach
  <2>3. ASSUME NEW k \in HostConn, k # c, pc[k] \in Attached, hostConns[owner[k]] = k
        PROVE  hostConns'[owner[k]] = k
    <3>1. owner[k] \in Host /\ (owner[c] = owner[k] => hostConns[owner[c]] # c)
      BY <2>3 DEF OwnerOK
    <3>2. DropHost(c)
      BY <1>7 DEF HostDetach
    <3>3. hostConns' = hostConns \/ (owner[c] # owner[k] /\ hostConns' = [hostConns EXCEPT ![owner[c]] = None])
      BY <3>1, <3>2 DEF DropHost
    <3> QED BY <2>3, <3>1, <3>3
  <2> QED BY <2>1, <2>2, <2>3
<1>8. ASSUME NEW c \in Conn, ReaderExit(c) PROVE NoZombieTunnel'
  BY <1>8 DEF ReaderExit
<1>9. ASSUME NEW c \in DeviceConn, DeviceAttach(c) PROVE NoZombieTunnel'
  <2> DEFINE old == deviceConns[owner[c]]
  <2>1. CASE ~CanClose(old)
    BY <1>9, <2>1 DEF DeviceAttach
  <2>2. CASE CanClose(old)
    <3>1. /\ Kick(old)
          /\ deviceConns' = [deviceConns EXCEPT ![owner[c]] = c]
          /\ pc' = [pc EXCEPT ![c] = "loop"]
          /\ UNCHANGED <<hostConns, owner>>
      BY <1>9, <2>2 DEF DeviceAttach
    <3>2. owner[c] \in Device
      BY <1>9 DEF DeviceAttach, OwnerOK
    <3>3. \A k \in Conn : ~open[k] => ~open'[k]
      BY <3>1 DEF Kick
    <3>4. old # None => ~open'[old]
      BY <3>1, <3>2 DEF Kick
    <3>5. ASSUME NEW k \in Conn, pc'[k] \in Attached, ~Current(k)' PROVE ~open'[k]
      <4>1. k # c
        BY <3>1, <3>2, <3>5
      <4>2. pc[k] \in Attached
        BY <3>1, <3>5, <4>1
      <4>3. CASE Current(k)
        <5>1. k \notin HostConn /\ deviceConns[owner[k]] = k /\ deviceConns'[owner[k]] # k
          BY <3>1, <3>5, <4>3
        <5>2. owner[k] = owner[c]
          BY <3>1, <5>1
        <5> QED BY <3>4, <5>1, <5>2
      <4>4. CASE ~Current(k)
        BY <3>3, <4>2, <4>4
      <4> QED BY <4>3, <4>4
    <3> QED BY <3>5
  <2> QED BY <2>1, <2>2
<1>10. ASSUME NEW c \in DeviceConn, DeviceLookup(c) PROVE NoZombieTunnel'
  BY <1>10 DEF DeviceLookup
<1>11. ASSUME NEW c \in DeviceConn, DeviceDetach(c) PROVE NoZombieTunnel'
  BY <1>11 DEF DeviceDetach, Unbind
<1>12. ASSUME NEW c \in HostConn, NEW h \in Host, NEW how \in {"token", "register"},
              HostAccept(c, h, how)
       PROVE  NoZombieTunnel'
  BY <1>12 DEF HostAccept
<1>13. ASSUME NEW c \in HostConn, NEW ch \in Channel,
              HostFrame(c, ch)
       PROVE  NoZombieTunnel'
  BY <1>13 DEF HostFrame
<1>14. ASSUME NEW c \in DeviceConn, NEW d \in Device,
              DeviceAccept(c, d)
       PROVE  NoZombieTunnel'
  BY <1>14 DEF DeviceAccept
<1>15. ASSUME NEW c \in DeviceConn, NEW ch \in Channel \cup {None},
              DeviceFrame(c, ch)
       PROVE  NoZombieTunnel'
  BY <1>15 DEF DeviceFrame
<1>16. ASSUME NEW c \in Conn, Pump(c) PROVE NoZombieTunnel'
  BY <1>16 DEF Pump
<1>17. ASSUME NEW c \in Conn, Recycle(c) PROVE NoZombieTunnel'
  BY <1>17 DEF Recycle
<1>18. ASSUME NEW r \in Revoker, RevokeClose(r) PROVE NoZombieTunnel'
  BY <1>18 DEF RevokeClose, CanClose, Kick
<1> QED
  BY NextCases, <1>1, <1>2, <1>3, <1>4, <1>5, <1>6, <1>7, <1>8, <1>9,
     <1>10, <1>11, <1>12, <1>13, <1>14, <1>15, <1>16, <1>17, <1>18

\* The detach of an older tunnel finds another entry and leaves the flag alone.
LEMMA OnlineStep == ASSUME HubInv, Next PROVE OnlineKept'
<1> USE HubAssumption DEF HubInv, TypeOK, Conn, Goto, hubVars, wireVars, OnlineKept, Attached
<1>1. ASSUME Quiet PROVE OnlineKept'
  BY <1>1 DEF Quiet
<1>2. ASSUME NEW c \in Conn, Writes(c) PROVE OnlineKept'
  <2>0. PICK p \in {"exit", "loop", "fail"} : pc' = [pc EXCEPT ![c] = p]
    BY <1>2, WritesEffect
  <2>1. \A k \in Conn : pc'[k] = "online" \/ pc[k] # "online"
    <3>1. pc[c] # "online"
      BY <1>2, WritesEffect
    <3> QED BY <2>0, <3>1
  <2>2. UNCHANGED <<hostConns, online>>
    BY <1>2, WritesEffect
  <2> QED BY <2>1, <2>2
<1>3. ASSUME NEW c \in HostConn, HostCheck(c) PROVE OnlineKept'
  <2>1. \A k \in Conn : pc[k] \in Attached => k # c /\ pc'[k] = pc[k]
    BY <1>3 DEF HostCheck
  <2>2. UNCHANGED <<hostConns, online>>
    BY <1>3 DEF HostCheck
  <2> QED BY <2>1, <2>2 DEF EntriesOwned
<1>4. ASSUME NEW c \in HostConn, HostAttach(c) PROVE OnlineKept'
  <2>1. CASE hostConns' = hostConns
    <3>1. pc[c] = "attach" /\ (\A k \in Conn : k # c => pc'[k] = pc[k]) /\ online' = online
      BY <1>4 DEF HostAttach
    <3>2. \A h \in Host : hostConns[h] # None => hostConns[h] # c
      BY <3>1 DEF EntriesOwned
    <3> QED BY <2>1, <3>1, <3>2
  <2>2. CASE hostConns' = [hostConns EXCEPT ![owner[c]] = c] /\ pc' = [pc EXCEPT ![c] = "online"]
    BY <1>4, <2>2 DEF HostAttach, OwnerOK
  <2> QED BY <1>4, <2>1, <2>2 DEF HostAttach
<1>5. ASSUME NEW c \in HostConn, HostOnline(c) PROVE OnlineKept'
  BY <1>5 DEF HostOnline, OwnerOK, EntriesOwned
<1>6. ASSUME NEW c \in HostConn, HostLookup(c) PROVE OnlineKept'
  BY <1>6 DEF HostLookup
<1>7. ASSUME NEW c \in HostConn, HostDetach(c) PROVE OnlineKept'
  <2>1. \A k \in Conn : k # c => pc'[k] = pc[k]
    BY <1>7 DEF HostDetach
  <2>2. DropHost(c) /\ c # None /\ pc[c] = "exit" /\ owner[c] \in Host
    BY <1>7 DEF HostDetach, OwnerOK
  <2>3. \A h \in Host : hostConns[h] = c => h = owner[c]
    BY <2>2 DEF EntriesOwned
  <2>4. ASSUME NEW h \in Host, hostConns'[h] # None
        PROVE  /\ hostConns'[h] = hostConns[h] /\ hostConns[h] # c
               /\ online'[h] = online[h]
    <3>1. CASE hostConns[owner[c]] = c
      <4>1. h # owner[c]
        BY <2>2, <2>4, <3>1 DEF DropHost
      <4> QED BY <2>2, <2>3, <2>4, <3>1, <4>1 DEF DropHost
    <3>2. CASE hostConns[owner[c]] # c
      BY <2>2, <2>3, <2>4, <3>2 DEF DropHost
    <3> QED BY <3>1, <3>2
  <2> QED BY <2>1, <2>4
<1>8. ASSUME NEW c \in Conn, ReaderExit(c) PROVE OnlineKept'
  BY <1>8 DEF ReaderExit
<1>9. ASSUME NEW c \in DeviceConn, DeviceAttach(c) PROVE OnlineKept'
  BY <1>9 DEF DeviceAttach, CanClose, Kick
<1>10. ASSUME NEW c \in DeviceConn, DeviceLookup(c) PROVE OnlineKept'
  BY <1>10 DEF DeviceLookup
<1>11. ASSUME NEW c \in DeviceConn, DeviceDetach(c) PROVE OnlineKept'
  BY <1>11 DEF DeviceDetach, Unbind
<1>12. ASSUME NEW c \in HostConn, NEW h \in Host, NEW how \in {"token", "register"},
              HostAccept(c, h, how)
       PROVE  OnlineKept'
  <2>1. \A k \in Conn : pc[k] \in Attached => k # c /\ pc'[k] = pc[k]
    BY <1>12 DEF HostAccept
  <2>2. UNCHANGED <<hostConns, online>>
    BY <1>12 DEF HostAccept
  <2> QED BY <2>1, <2>2 DEF EntriesOwned
<1>13. ASSUME NEW c \in HostConn, NEW ch \in Channel,
              HostFrame(c, ch)
       PROVE  OnlineKept'
  BY <1>13 DEF HostFrame
<1>14. ASSUME NEW c \in DeviceConn, NEW d \in Device,
              DeviceAccept(c, d)
       PROVE  OnlineKept'
  BY <1>14 DEF DeviceAccept
<1>15. ASSUME NEW c \in DeviceConn, NEW ch \in Channel \cup {None},
              DeviceFrame(c, ch)
       PROVE  OnlineKept'
  BY <1>15 DEF DeviceFrame
<1>16. ASSUME NEW c \in Conn, Pump(c) PROVE OnlineKept'
  BY <1>16 DEF Pump
<1>17. ASSUME NEW c \in Conn, Recycle(c) PROVE OnlineKept'
  BY <1>17 DEF Recycle
<1>18. ASSUME NEW r \in Revoker, RevokeClose(r) PROVE OnlineKept'
  BY <1>18 DEF RevokeClose, CanClose, Kick
<1> QED
  BY NextCases, <1>1, <1>2, <1>3, <1>4, <1>5, <1>6, <1>7, <1>8, <1>9,
     <1>10, <1>11, <1>12, <1>13, <1>14, <1>15, <1>16, <1>17, <1>18

\* A revoke under way names a device.
LEMMA RevokerStep == ASSUME HubInv, Next PROVE RevokerOK'
<1> USE HubAssumption DEF HubInv, TypeOK, Conn, hubVars, wireVars, revVars, RevokerOK
<1>1. CASE UNCHANGED revoke
  BY <1>1
<1>2. ASSUME NEW r \in Revoker, NEW d \in Device, RevokeCheck(r, d) PROVE RevokerOK'
  BY <1>2 DEF RevokeCheck
<1>3. ASSUME NEW r \in Revoker, RevokeDrop(r) PROVE RevokerOK'
  BY <1>3 DEF RevokeDrop
<1>4. ASSUME NEW r \in Revoker, RevokeClose(r) PROVE RevokerOK'
  BY <1>4 DEF RevokeClose, Idle
<1> QED BY <1>1, <1>2, <1>3, <1>4, RevokeUnchanged

\* The invariant holds before the first connection.
LEMMA HubInvInit == Init => HubInv
<1> SUFFICES ASSUME Init PROVE HubInv
  OBVIOUS
<1> USE HubAssumption DEF Init
<1>1. TypeOK
  BY InitTypeOK
<1>2. OwnerOK /\ EntriesOwned /\ RefOK /\ FreeEmpty
  BY DEF OwnerOK, EntriesOwned, RefOK, FreeEmpty, Conn
<1>3. ChannelsScoped /\ BindingsOwned
  BY DEF ChannelsScoped, BindingsOwned
<1>4. RevokerOK
  BY DEF RevokerOK, Idle
<1>5. HostIsolation
  <2>1. \A c \in Conn : Len(queue[c]) = 0
    BY DEF Conn
  <2> QED BY <2>1 DEF HostIsolation
<1>6. KickedOnce /\ OnlineKept
  BY DEF KickedOnce, OnlineKept, Conn
<1>7. NoZombieTunnel
  BY DEF NoZombieTunnel, Attached, Conn
<1> QED BY <1>1, <1>2, <1>3, <1>4, <1>5, <1>6, <1>7 DEF HubInv

\* A step that changes nothing keeps the invariant.
LEMMA HubInvStutter == ASSUME HubInv, UNCHANGED vars PROVE HubInv'
<1> USE DEF vars, hubVars, wireVars, revVars
<1>1. UNCHANGED <<hostConns, deviceConns, channels, online, session, pc, owner, via, ref,
                  open, link, queue, stale, revoke, hubLocked>>
  OBVIOUS
<1>2. TypeOK' /\ OwnerOK' /\ EntriesOwned' /\ ChannelsScoped' /\ RefOK'
  BY <1>1 DEF HubInv, TypeOK, OwnerOK, EntriesOwned, ChannelsScoped, RefOK
<1>3. RevokerOK' /\ FreeEmpty' /\ HostIsolation' /\ KickedOnce'
  BY <1>1 DEF HubInv, RevokerOK, FreeEmpty, HostIsolation, KickedOnce
<1>4. BindingsOwned' /\ NoZombieTunnel' /\ OnlineKept'
  BY <1>1 DEF HubInv, BindingsOwned, NoZombieTunnel, Current, OnlineKept
<1> QED BY <1>2, <1>3, <1>4 DEF HubInv

\* The inductive invariant of the hub.
THEOREM HubInvariance == Spec => []HubInv
<1>1. HubInv /\ [Next]_vars => HubInv'
  <2> SUFFICES ASSUME HubInv, Next PROVE HubInv'
    BY HubInvStutter
  <2> QED
    BY TypeStep, OwnerStep, EntriesStep, ChannelsStep, RefStep, RevokerStep, FreeEmptyStep,
       IsolationStep, KickedOnceStep, BindingsStep, ZombieStep, OnlineStep
    DEF HubInv
<1> QED BY HubInvInit, <1>1, PTL DEF Spec

\* Type correctness, with the bound of every send channel (c.send, capacity
\* QueueCap).
THEOREM TypeCorrect == Spec => []TypeOK
<1>1. HubInv => TypeOK
  BY DEF HubInv
<1> QED BY HubInvariance, <1>1, PTL

\* No entry of hostConns or deviceConns outlives its tunnel, and attachHost never
\* closes a send channel twice.
THEOREM TablesCorrect == Spec => []TablesLive
<1>1. HubInv => TablesLive
  BY DEF HubInv, EntriesOwned, KickedOnce, TablesLive
<1> QED BY HubInvariance, <1>1, PTL

\* Through rebinds, replacements, late sends and reused slots, a frame of a device
\* reaches only its own host, and one of a host only devices whose host shares a
\* channel key with it (bindChannel, channelDevice, toDevice, toHost).
THEOREM Isolation == Spec => []HostIsolation
<1>1. HubInv => HostIsolation
  BY DEF HubInv
<1> QED BY HubInvariance, <1>1, PTL

\* What the comment at bindChannel claims: every frame stays within its pairing.
PairedOnly ==
    \A c \in Conn : \A i \in 1..Len(queue[c]) : queue[c][i] # None =>
        IF c \in HostConn THEN HostOf[queue[c][i]] = owner[c]
                          ELSE queue[c][i] = HostOf[owner[c]]

\* No frame leaves its pairing (bindChannel, channelDevice) when no two hosts have
\* a key in common, as when no hostId holds a slash; nothing else is assumed of
\* the ids.
THEOREM StrictIsolation ==
    ASSUME \A h \in Host, g \in Host : ShareKey(h, g) => h = g
    PROVE  Spec => []PairedOnly
<1>1. HubInv => PairedOnly
  <2> SUFFICES ASSUME HubInv, NEW c \in Conn, NEW i \in 1..Len(queue[c]), queue[c][i] # None
               PROVE  IF c \in HostConn THEN HostOf[queue[c][i]] = owner[c]
                                        ELSE queue[c][i] = HostOf[owner[c]]
    BY DEF PairedOnly
  <2>1. CASE c \in HostConn
    BY <2>1 DEF HubInv, HostIsolation
  <2>2. CASE c \notin HostConn
    <3>1. pc[c] # "free"
      <4>1. Len(queue[c]) # 0
        OBVIOUS
      <4>2. Len(<<>>) = 0
        OBVIOUS
      <4> QED BY <4>1, <4>2 DEF HubInv, FreeEmpty
    <3>2. HostOf[owner[c]] \in Host
      BY <2>2, <3>1, HubAssumption DEF HubInv, OwnerOK, Conn
    <3>3. queue[c][i] \in Host /\ MayReach(queue[c][i], owner[c])
      BY <2>2 DEF HubInv, HostIsolation
    <3> QED BY <2>2, <3>2, <3>3 DEF MayReach
  <2> QED BY <2>1, <2>2
<1> QED BY HubInvariance, <1>1, PTL

\* A tunnel that the tables no longer name has been kicked.
THEOREM NoZombies == Spec => []NoZombieTunnel
<1>1. HubInv => NoZombieTunnel
  BY DEF HubInv
<1> QED BY HubInvariance, <1>1, PTL

\* No channel binding outlives the handlers of its device.
THEOREM Bindings == Spec => []BindingsOwned
<1>1. HubInv => BindingsOwned
  BY DEF HubInv
<1> QED BY HubInvariance, <1>1, PTL

\* Host.Online follows the current tunnel of a host once it has been set.
THEOREM Online == Spec => []OnlineKept
<1>1. HubInv => OnlineKept
  BY DEF HubInv
<1> QED BY HubInvariance, <1>1, PTL

\* handleRevoke leaves no tunnel of the device with a running reader unkicked:
\* the current one it closes itself, each replaced one was closed when it lost its
\* entry (NoZombieTunnel).
THEOREM RevokeKicks == Spec => RevokeKicksRunning
<1> DEFINE Kicks ==
      \A r \in Revoker : revoke[r].step = "close" /\ revoke'[r].step = "idle" =>
        \A c \in DeviceConn : owner[c] = revoke[r].dev /\ pc[c] \in Running => ~open'[c]
<1>1. ASSUME HubInv, Next PROVE Kicks
  <2> USE <1>1, HubAssumption DEF HubInv, TypeOK, Conn
  <2>1. SUFFICES ASSUME NEW r \in Revoker, revoke[r].step = "close", revoke'[r].step = "idle",
                        NEW c \in DeviceConn, owner[c] = revoke[r].dev, pc[c] \in Running
                 PROVE  ~open'[c]
    OBVIOUS
  <2>2. RevokeClose(r)
    <3>1. revoke' # revoke
      BY <2>1
    <3>2. ASSUME NEW q \in Revoker, NEW d \in Device, RevokeCheck(q, d) PROVE FALSE
      BY <2>1, <3>2 DEF RevokeCheck
    <3>3. ASSUME NEW q \in Revoker, RevokeDrop(q) PROVE FALSE
      BY <2>1, <3>3 DEF RevokeDrop
    <3>4. ASSUME NEW q \in Revoker, RevokeClose(q) PROVE q = r
      BY <2>1, <3>4 DEF RevokeClose, Idle
    <3> QED BY <3>1, <3>2, <3>3, <3>4, RevokeUnchanged
  <2>3. revoke[r].dev \in Device /\ pc[c] \in Attached /\ c # None
    BY <2>1 DEF RevokerOK, Running
  <2>4. CASE deviceConns[revoke[r].dev] = c
    BY <2>2, <2>3, <2>4 DEF RevokeClose, CanClose, Kick
  <2>5. CASE deviceConns[revoke[r].dev] # c
    <3>1. ~open[c]
      BY <2>1, <2>3, <2>5 DEF NoZombieTunnel, Current
    <3>2. open' = open \/ \E k \in Conn : open' = [open EXCEPT ![k] = FALSE]
      BY <2>2, <2>3 DEF RevokeClose, Kick
    <3> QED BY <3>1, <3>2
  <2> QED BY <2>4, <2>5
<1>2. ASSUME HubInv, UNCHANGED vars PROVE Kicks
  BY <1>2 DEF vars, revVars
<1>3. HubInv /\ [Next]_vars => [Kicks]_vars
  BY <1>1, <1>2
<1> QED BY HubInvariance, <1>3, PTL DEF Spec, RevokeKicksRunning

\* A tunnel that was kicked takes no more frames: its queue loses its head or
\* stays, and it is kicked until its slot is given back.
Drained(c) ==
    ~open[c] /\ pc[c] # "done" => /\ ~open'[c]
                                  /\ queue'[c] \in {queue[c], Tail(queue[c])}

\* A tunnel whose socket is gone gets no other one, and its reader only leaves.
Leaving(c) ==
    ~link[c] /\ pc[c] # "done" => /\ ~link'[c]
                                  /\ pc[c] = "loop" => pc'[c] \in {"loop", "exit"}

\* Nothing that its peers, other tunnels or revocations do keeps a kicked tunnel
\* from its end.
KickedOnlyDrains == [][\A c \in Conn : Drained(c) /\ Leaving(c)]_vars

LEMMA KickedStep ==
  ASSUME HubInv, Next, NEW c \in Conn
  PROVE  Drained(c) /\ Leaving(c)
<1> USE HubAssumption DEF HubInv, TypeOK, Conn, Goto, hubVars, wireVars
<1>1. ASSUME NEW k \in Conn, Silence(k) \/ LinkDown(k) PROVE Drained(c) /\ Leaving(c)
  BY <1>1 DEF Silence, LinkDown, Drained, Leaving
<1>2. ASSUME NEW k \in Conn, NEW t \in Conn, NEW from, NEW next, NEW over,
             WriteJSON(k, t, from, next, over),
             pc[k] = "loop" => link[k] /\ next = "loop" /\ over = "loop"
      PROVE  Drained(c) /\ Leaving(c)
  BY <1>2 DEF WriteJSON, Drained, Leaving
<1>3. ASSUME NEW k \in Conn, Writes(k) PROVE Drained(c) /\ Leaving(c)
  <2>1. CASE Ping(k)
    BY <1>2, <2>1 DEF Ping
  <2>2. CASE k \in HostConn /\ HostGreet(k)
    <3>1. CASE via[k] = "register" /\ WriteJSON(k, k, None, "loop", "loop")
      BY <1>2, <2>2, <3>1 DEF HostGreet
    <3>2. CASE ~(via[k] = "register" /\ WriteJSON(k, k, None, "loop", "loop"))
      BY <2>2, <3>2 DEF HostGreet, Drained, Leaving
    <3> QED BY <3>1, <3>2
  <2>3. CASE k \in HostConn /\ HostSend(k)
    <3>1. ref[k] \in Conn /\ pc[k] = "send" /\ WriteJSON(k, ref[k], owner[k], "loop", "loop")
      BY <2>3 DEF HostSend, RefOK
    <3> QED BY <1>2, <3>1
  <2>4. CASE k \in DeviceConn /\ DeviceSend(k)
    <3>1. ref[k] \in Conn /\ pc[k] = "send" /\ WriteJSON(k, ref[k], owner[k], "loop", "fail")
      BY <2>4 DEF DeviceSend, RefOK
    <3> QED BY <1>2, <3>1
  <2>5. CASE k \in DeviceConn /\ DeviceFail(k)
    BY <1>2, <2>5 DEF DeviceFail
  <2> QED BY <1>3, <2>1, <2>2, <2>3, <2>4, <2>5 DEF Writes
<1>4. ASSUME NEW k \in HostConn, HostCheck(k) \/ HostOnline(k) \/ HostLookup(k) \/ HostDetach(k)
      PROVE  Drained(c) /\ Leaving(c)
  BY <1>4 DEF HostCheck, HostOnline, HostLookup, HostDetach, Drained, Leaving
<1>5. ASSUME NEW k \in Conn, (k \in HostConn /\ HostAttach(k)) \/ (k \in DeviceConn /\ DeviceAttach(k))
      PROVE  Drained(c) /\ Leaving(c)
  <2>1. CASE k \in HostConn /\ HostAttach(k)
    BY <2>1 DEF HostAttach, Kick, Drained, Leaving
  <2>2. CASE k \in DeviceConn /\ DeviceAttach(k)
    BY <2>2 DEF DeviceAttach, Kick, Drained, Leaving
  <2> QED BY <1>5, <2>1, <2>2
<1>6. ASSUME NEW k \in Conn, ReaderExit(k) \/ Pump(k) \/ Recycle(k)
      PROVE  Drained(c) /\ Leaving(c)
  BY <1>6 DEF ReaderExit, Pump, PumpWrite, PumpClose, Recycle, Drained, Leaving
<1>7. ASSUME NEW k \in DeviceConn, DeviceLookup(k) \/ DeviceDetach(k)
      PROVE  Drained(c) /\ Leaving(c)
  BY <1>7 DEF DeviceLookup, DeviceDetach, Drained, Leaving
<1>8. ASSUME NEW k \in HostConn, NEW h \in Host, NEW how \in {"token", "register"}, HostAccept(k, h, how)
      PROVE  Drained(c) /\ Leaving(c)
  BY <1>8 DEF HostAccept, KickedOnce, Drained, Leaving
<1>9. ASSUME NEW k \in DeviceConn, NEW d \in Device, DeviceAccept(k, d)
       PROVE  Drained(c) /\ Leaving(c)
  BY <1>9 DEF DeviceAccept, Drained, Leaving
<1>10. ASSUME NEW k \in HostConn, NEW ch \in Channel, HostFrame(k, ch)
       PROVE  Drained(c) /\ Leaving(c)
  BY <1>10 DEF HostFrame, Drained, Leaving
<1>11. ASSUME NEW k \in DeviceConn, NEW ch \in Channel \cup {None}, DeviceFrame(k, ch)
       PROVE  Drained(c) /\ Leaving(c)
  BY <1>11 DEF DeviceFrame, Drained, Leaving
<1>12. ASSUME NEW r \in Revoker, (\E d \in Device : RevokeCheck(r, d)) \/ RevokeDrop(r) \/ RevokeClose(r)
       PROVE  Drained(c) /\ Leaving(c)
  BY <1>12 DEF RevokeCheck, RevokeDrop, RevokeClose, Kick, Drained, Leaving
<1>13. ASSUME NEW d \in Device, Pair(d) PROVE Drained(c) /\ Leaving(c)
  BY <1>13 DEF Pair, Drained, Leaving
<1> QED
  BY <1>1, <1>3, <1>4, <1>5, <1>6, <1>7, <1>8, <1>9, <1>10, <1>11, <1>12, <1>13
  DEF Next, HostHandler, DeviceHandler, HostInput, DeviceInput, StoreStep, Writes

\* The safe half of KickedTunnelEnds: what the pump of a kicked tunnel has drained
\* is not filled again by senders that looked the tunnel up before the kick
\* (toDevice, toHost), and a reader whose socket is closed starts nothing new.
THEOREM KickedGoes == Spec => KickedOnlyDrains
<1>1. HubInv /\ [Next]_vars => [\A c \in Conn : Drained(c) /\ Leaving(c)]_vars
  BY KickedStep
<1> QED BY HubInvariance, <1>1, PTL DEF Spec, KickedOnlyDrains
=============================================================================
