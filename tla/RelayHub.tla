------------------------------ MODULE RelayHub ------------------------------
(***************************************************************************)
(* The hub of the cloud relay (mobile/relay/main.go): the tables that      *)
(* route frames between host tunnels and device tunnels, the goroutines    *)
(* that work on them, and the ways a tunnel ends.                          *)
(*                                                                         *)
(* A tunnel is one WebSocket.  Its handler goroutine attaches it to the    *)
(* hub, reads frames and routes them; its pump goroutine drains a bounded  *)
(* send channel into the socket.  Closing the send channel is how the      *)
(* relay kicks a tunnel, and sending on a closed channel panics the        *)
(* goroutine that sends.  net/http recovers the panic of a handler, whose  *)
(* deferred calls (detach, close the socket) still run.                    *)
(*                                                                         *)
(* Every critical section of hub.mu is one step; what a handler does       *)
(* between two sections is where others interleave.                        *)
(***************************************************************************)
EXTENDS Naturals, Sequences, FiniteSets

CONSTANTS Host, Device,           \* hostIds, paired device ids
          Channel,                \* one channel name of each host, by index
          HostConn, DeviceConn,   \* slots for the tunnels that exist at a time
          Revoker,                \* concurrent POST /revoke requests
          QueueCap,               \* capacity of a send channel (1024)
          HostOf,                 \* HostOf[d]: the host d paired with
          Key,                    \* keys of hub.channels
          KeyOf,                  \* KeyOf[h][ch]: hostID + "/" + ch.  A hostId may hold a
                                  \* slash, so two hosts may share a key.
          None

ASSUME HubAssumption ==
    /\ HostOf \in [Device -> Host]
    /\ KeyOf \in [Host -> [Channel -> Key]]
    /\ QueueCap \in Nat \ {0}
    /\ HostConn \cap DeviceConn = {}
    /\ None \notin Host \cup Device \cup Channel \cup HostConn \cup DeviceConn
    /\ Host \cap Device = {}

Conn == HostConn \cup DeviceConn
Peer == Host \cup Device

VARIABLES
    hostConns,    \* hub.hostConns
    deviceConns,  \* hub.deviceConns
    channels,     \* hub.channels
    online,       \* Host.Online of the store
    session,      \* the device has a session that was not revoked
    pc,           \* where a handler goroutine stands
    owner,        \* the host or device a tunnel belongs to
    via,          \* how a host tunnel arrived, and whether it displaced one
    ref,          \* what a handler looked up and has not used yet
    open,         \* c.send is not closed
    link,         \* the socket is usable from the relay's side
    queue,        \* c.send: who each frame comes from (None: the relay)
    stale,        \* a host tunnel silent for staleHostAfter
    revoke,       \* where a POST /revoke stands
    hubLocked     \* hub.mu was left locked by a panic

hubVars  == <<hostConns, deviceConns, channels>>
wireVars == <<open, link, queue>>
revVars  == <<session, revoke, hubLocked>>
vars == <<hubVars, online, pc, owner, via, ref, wireVars, stale, revVars>>

Idle == [step |-> "idle", dev |-> None]

Init ==
    /\ hostConns = [h \in Host |-> None]
    /\ deviceConns = [d \in Device |-> None]
    /\ channels = [k \in Key |-> None]
    /\ online = [h \in Host |-> FALSE]
    /\ session = [d \in Device |-> TRUE]
    /\ pc = [c \in Conn |-> "free"]
    /\ owner = [c \in Conn |-> None]
    /\ via = [c \in HostConn |-> "token"]
    /\ ref = [c \in Conn |-> None]
    /\ open = [c \in Conn |-> TRUE]
    /\ link = [c \in Conn |-> TRUE]
    /\ queue = [c \in Conn |-> <<>>]
    /\ stale = [c \in HostConn |-> FALSE]
    /\ revoke = [r \in Revoker |-> Idle]
    /\ hubLocked = FALSE

Goto(c, p) == pc' = [pc EXCEPT ![c] = p]

\* Handlers between a successful attach and their deferred detach.
Attached == {"online", "greet", "loop", "lookup", "send", "fail", "exit"}
Running  == Attached \ {"exit"}

-----------------------------------------------------------------------------
(* Sending.  writeJSON from handler c to tunnel t: a closed send channel    *)
(* panics the sender; a full one closes the receiver's socket and makes the *)
(* sender go to `over`.                                                     *)

\* Faulty form of Full: one frame too many.
FullLate(t) == Len(queue[t]) > QueueCap
Full(t) == Len(queue[t]) >= QueueCap

WriteJSON(c, t, from, next, over) ==
    \/ /\ ~open[t]
       /\ Goto(c, "exit")
       /\ UNCHANGED wireVars
    \/ /\ open[t]
       /\ ~Full(t)
       /\ queue' = [queue EXCEPT ![t] = Append(@, from)]
       /\ Goto(c, next)
       /\ UNCHANGED <<open, link>>
    \/ /\ open[t]
       /\ Full(t)
       /\ link' = [link EXCEPT ![t] = FALSE]
       /\ Goto(c, over)
       /\ UNCHANGED <<open, queue>>

\* close(old.send) as attachHost and attachDevice do it: a second close panics.
CanClose(old) == old = None \/ open[old]
\* Faulty form of Kick: the old tunnel is forgotten, not closed.
KickNothing(old) == UNCHANGED open
Kick(old) == open' = IF old = None THEN open ELSE [open EXCEPT ![old] = FALSE]

-----------------------------------------------------------------------------
(* Host tunnels. *)

\* handleHost up to its attach: a known token, or a register frame that may
\* come after the answer "unknown-host" to an unknown token.  A connection
\* refused here touches nothing of the hub.
HostAccept(c, h, how) ==
    /\ pc[c] = "free"
    /\ owner' = [owner EXCEPT ![c] = h]
    /\ via' = [via EXCEPT ![c] = how]
    /\ Goto(c, IF how = "token" THEN "check" ELSE "attach")
    /\ \/ UNCHANGED queue
       \/ how = "register" /\ queue' = [queue EXCEPT ![c] = <<None>>]
    /\ UNCHANGED <<hubVars, online, ref, open, link, stale, revVars>>

\* A reconnect with a token refuses while the current tunnel is still live.
HostCheck(c) ==
    /\ pc[c] = "check"
    /\ ~hubLocked
    /\ LET old == hostConns[owner[c]] IN
         IF old # None /\ ~stale[old]
         THEN /\ link' = [link EXCEPT ![c] = FALSE]
              /\ Goto(c, "done")
         ELSE Goto(c, "attach") /\ UNCHANGED link
    /\ UNCHANGED <<hubVars, online, owner, via, ref, open, queue, stale, revVars>>

\* attachHost.
HostAttach(c) ==
    /\ c \in HostConn
    /\ pc[c] = "attach"
    /\ ~hubLocked
    /\ LET old == hostConns[owner[c]] IN
         IF CanClose(old)
         THEN /\ Kick(old)
              /\ hostConns' = [hostConns EXCEPT ![owner[c]] = c]
              /\ via' = [via EXCEPT ![c] = IF old # None /\ @ = "register"
                                           THEN "displaced" ELSE @]
              /\ Goto(c, "online")
              /\ UNCHANGED link
         ELSE /\ link' = [link EXCEPT ![c] = FALSE]
              /\ Goto(c, "done")
              /\ UNCHANGED <<open, hostConns, via>>
    /\ UNCHANGED <<deviceConns, channels, online, owner, ref, queue, stale, revVars>>

\* SetHostOnline(true), outside hub.mu.
HostOnline(c) ==
    /\ pc[c] = "online"
    /\ online' = [online EXCEPT ![owner[c]] = TRUE]
    /\ Goto(c, "greet")
    /\ UNCHANGED <<hubVars, owner, via, ref, wireVars, stale, revVars>>

\* A register that displaced a tunnel closes itself; another register answers
\* "registered"; a token reconnect goes straight to its reader loop.  How it
\* arrived is of no use after that.
HostGreet(c) ==
    /\ pc[c] = "greet"
    /\ \/ /\ via[c] = "displaced"
          /\ link' = [link EXCEPT ![c] = FALSE]
          /\ Goto(c, "exit")
          /\ UNCHANGED <<open, queue>>
       \/ /\ via[c] = "register"
          /\ WriteJSON(c, c, None, "loop", "loop")
       \/ /\ via[c] = "token"
          /\ Goto(c, "loop")
          /\ UNCHANGED wireVars
    /\ via' = [via EXCEPT ![c] = "token"]
    /\ UNCHANGED <<hubVars, online, owner, ref, stale, revVars>>

\* A frame for a device: channelDevice, then toDevice's lookup, then its send.
HostFrame(c, ch) ==
    /\ c \in HostConn
    /\ pc[c] = "loop"
    /\ link[c]
    /\ ~hubLocked
    /\ stale' = [stale EXCEPT ![c] = FALSE]
    /\ LET dev == channels[KeyOf[owner[c]][ch]] IN
         IF dev = None THEN UNCHANGED <<pc, ref>>
         ELSE Goto(c, "lookup") /\ ref' = [ref EXCEPT ![c] = dev]
    /\ UNCHANGED <<hubVars, online, owner, via, wireVars, revVars>>

HostLookup(c) ==
    /\ c \in HostConn
    /\ pc[c] = "lookup"
    /\ ~hubLocked
    /\ LET t == deviceConns[ref[c]] IN
         /\ ref' = [ref EXCEPT ![c] = t]
         /\ Goto(c, IF t = None THEN "loop" ELSE "send")
    /\ UNCHANGED <<hubVars, online, owner, via, wireVars, stale, revVars>>

HostSend(c) ==
    /\ c \in HostConn
    /\ pc[c] = "send"
    /\ WriteJSON(c, ref[c], owner[c], "loop", "loop")
    /\ ref' = [ref EXCEPT ![c] = None]
    /\ UNCHANGED <<hubVars, online, owner, via, stale, revVars>>

\* Faulty forms of DropHost: any tunnel clears the flag, and none the entry.
DropAnyFlag(c) ==
    /\ hostConns' = [hostConns EXCEPT ![owner[c]] = IF @ = c THEN None ELSE @]
    /\ online' = [online EXCEPT ![owner[c]] = FALSE]
DropNoHost(c) == UNCHANGED <<hostConns, online>>

\* Only the current tunnel clears the entry, and with it the online flag.
DropHost(c) ==
    IF hostConns[owner[c]] = c
    THEN /\ hostConns' = [hostConns EXCEPT ![owner[c]] = None]
         /\ online' = [online EXCEPT ![owner[c]] = FALSE]
    ELSE UNCHANGED <<hostConns, online>>

\* detachHost, deferred.
HostDetach(c) ==
    /\ c \in HostConn
    /\ pc[c] = "exit"
    /\ ~hubLocked
    /\ DropHost(c)
    /\ link' = [link EXCEPT ![c] = FALSE]
    /\ Goto(c, "done")
    /\ UNCHANGED <<deviceConns, channels, owner, via, ref, open, queue, stale, revVars>>

-----------------------------------------------------------------------------
(* Device tunnels. *)

\* handleDevice: SessionByToken, then the upgrade; the attach comes later.
DeviceAccept(c, d) ==
    /\ pc[c] = "free"
    /\ session[d]
    /\ owner' = [owner EXCEPT ![c] = d]
    /\ Goto(c, "attach")
    /\ UNCHANGED <<hubVars, online, via, ref, wireVars, stale, revVars>>

\* attachDevice.  A panic here comes before the deferred detach is armed.
DeviceAttach(c) ==
    /\ c \in DeviceConn
    /\ pc[c] = "attach"
    /\ ~hubLocked
    /\ LET old == deviceConns[owner[c]] IN
         IF CanClose(old)
         THEN /\ Kick(old)
              /\ deviceConns' = [deviceConns EXCEPT ![owner[c]] = c]
              /\ Goto(c, "loop")
              /\ UNCHANGED link
         ELSE /\ link' = [link EXCEPT ![c] = FALSE]
              /\ Goto(c, "done")
              /\ UNCHANGED <<open, deviceConns>>
    /\ UNCHANGED <<hostConns, channels, online, owner, via, ref, queue, stale, revVars>>

\* Faulty form of Bind: a channel key that is not scoped by its host.
BindUnscoped(h, ch, d) == [k \in Key |-> IF \E g \in Host : KeyOf[g][ch] = k THEN d ELSE channels[k]]
\* bindChannel: the latest opener wins, of whatever host.
Bind(h, ch, d) == [channels EXCEPT ![KeyOf[h][ch]] = d]

\* A request frame: bindChannel when it names a channel, then toHost.
DeviceFrame(c, ch) ==
    /\ c \in DeviceConn
    /\ pc[c] = "loop"
    /\ link[c]
    /\ ~hubLocked
    /\ LET d == owner[c] IN
         channels' = IF ch = None THEN channels
                     ELSE Bind(HostOf[d], ch, d)
    /\ Goto(c, "lookup")
    /\ UNCHANGED <<hostConns, deviceConns, online, owner, via, ref, wireVars, stale, revVars>>

DeviceLookup(c) ==
    /\ c \in DeviceConn
    /\ pc[c] = "lookup"
    /\ ~hubLocked
    /\ LET t == hostConns[HostOf[owner[c]]] IN
         /\ ref' = [ref EXCEPT ![c] = t]
         /\ Goto(c, IF t = None THEN "fail" ELSE "send")
    /\ UNCHANGED <<hubVars, online, owner, via, wireVars, stale, revVars>>

DeviceSend(c) ==
    /\ c \in DeviceConn
    /\ pc[c] = "send"
    /\ WriteJSON(c, ref[c], owner[c], "loop", "fail")
    /\ ref' = [ref EXCEPT ![c] = None]
    /\ UNCHANGED <<hubVars, online, owner, via, stale, revVars>>

\* The 502 http-reply, or the rpc-reply that carries host-offline or overflow.
DeviceFail(c) ==
    /\ pc[c] = "fail"
    /\ WriteJSON(c, c, None, "loop", "loop")
    /\ UNCHANGED <<hubVars, online, owner, via, ref, stale, revVars>>

\* Faulty form of Unbind: the bindings stay.
UnbindNothing(d) == channels
Unbind(d) == [k \in Key |-> IF channels[k] = d THEN None ELSE channels[k]]

\* detachDevice, deferred: the channels of the device go, whoever is current.
DeviceDetach(c) ==
    /\ c \in DeviceConn
    /\ pc[c] = "exit"
    /\ ~hubLocked
    /\ LET d == owner[c] IN
         /\ deviceConns' = [deviceConns EXCEPT ![d] = IF @ = c THEN None ELSE @]
         /\ channels' = Unbind(d)
    /\ link' = [link EXCEPT ![c] = FALSE]
    /\ Goto(c, "done")
    /\ UNCHANGED <<hostConns, online, owner, via, ref, open, queue, stale, revVars>>

-----------------------------------------------------------------------------
(* Every tunnel: pings, the pump, the end of the reader loop. *)

\* A text ping of the peer is answered with a pong by the handler itself.
Ping(c) ==
    /\ pc[c] = "loop"
    /\ link[c]
    /\ WriteJSON(c, c, None, "loop", "loop")
    /\ stale' = IF c \in HostConn THEN [stale EXCEPT ![c] = FALSE] ELSE stale
    /\ UNCHANGED <<hubVars, online, owner, via, ref, revVars>>

PumpWrite(c) ==
    /\ queue[c] # <<>>
    /\ queue' = [queue EXCEPT ![c] = Tail(@)]
    /\ UNCHANGED link

\* Faulty form of PumpClose: the pump returns and leaves the socket open.
PumpReturn(c) == UNCHANGED <<link, queue>>
PumpClose(c) ==
    /\ queue[c] = <<>>
    /\ ~open[c]
    /\ link' = [link EXCEPT ![c] = FALSE]
    /\ UNCHANGED queue

\* The pump writes frame after frame; it closes the socket when it has drained
\* a send channel that was closed.
Pump(c) ==
    /\ link[c]
    /\ PumpWrite(c) \/ PumpClose(c)
    /\ UNCHANGED <<hubVars, online, pc, owner, via, ref, open, stale, revVars>>

\* readerLoop returns once the socket is gone.
ReaderExit(c) ==
    /\ pc[c] = "loop"
    /\ ~link[c]
    /\ Goto(c, "exit")
    /\ UNCHANGED <<hubVars, online, owner, via, ref, wireVars, stale, revVars>>

\* The peer closes, the network fails, a write or the 90 s read deadline fires.
\* (At "exit" the deferred ws.Close does the same.)
LinkDown(c) ==
    /\ pc[c] \notin {"free", "exit", "done"}
    /\ link[c]
    /\ link' = [link EXCEPT ![c] = FALSE]
    /\ UNCHANGED <<hubVars, online, pc, owner, via, ref, open, queue, stale, revVars>>

\* staleHostAfter passes with no frame from the peer.
Silence(c) ==
    /\ pc[c] = "loop"
    /\ stale' = [stale EXCEPT ![c] = TRUE]
    /\ UNCHANGED <<hubVars, online, pc, owner, via, ref, wireVars, revVars>>

\* The slot of a finished tunnel is reused once no goroutine refers to it.
Recycle(c) ==
    /\ pc[c] = "done"
    /\ \A k \in Conn : ref[k] # c
    /\ Goto(c, "free")
    /\ owner' = [owner EXCEPT ![c] = None]
    /\ ref' = [ref EXCEPT ![c] = None]
    /\ open' = [open EXCEPT ![c] = TRUE]
    /\ link' = [link EXCEPT ![c] = TRUE]
    /\ queue' = [queue EXCEPT ![c] = <<>>]
    /\ IF c \in HostConn
       THEN /\ via' = [via EXCEPT ![c] = "token"]
            /\ stale' = [stale EXCEPT ![c] = FALSE]
       ELSE UNCHANGED <<via, stale>>
    /\ UNCHANGED <<hubVars, online, revVars>>

-----------------------------------------------------------------------------
(* Sessions: POST /revoke, and pairing again.  An expired session needs no   *)
(* step: its device is refused from then on, its tunnel is left alone.       *)

RevokeCheck(r, d) ==
    /\ revoke[r].step = "idle"
    /\ session[d]
    /\ revoke' = [revoke EXCEPT ![r] = [step |-> "drop", dev |-> d]]
    /\ UNCHANGED <<hubVars, online, pc, owner, via, ref, wireVars, stale, session, hubLocked>>

RevokeDrop(r) ==
    /\ revoke[r].step = "drop"
    /\ session' = [session EXCEPT ![revoke[r].dev] = FALSE]
    /\ revoke' = [revoke EXCEPT ![r].step = "close"]
    /\ UNCHANGED <<hubVars, online, pc, owner, via, ref, wireVars, stale, hubLocked>>

\* close(c.send) leaves the tunnel in the table.  Closing it a second time
\* panics between hub.mu.Lock and hub.mu.Unlock, which is not deferred.
RevokeClose(r) ==
    /\ revoke[r].step = "close"
    /\ ~hubLocked
    /\ LET c == deviceConns[revoke[r].dev] IN
         IF CanClose(c) THEN Kick(c) /\ UNCHANGED hubLocked
                        ELSE hubLocked' = TRUE /\ UNCHANGED open
    /\ revoke' = [revoke EXCEPT ![r] = Idle]
    /\ UNCHANGED <<hubVars, online, pc, owner, via, ref, link, queue, stale, session>>

\* PairDevice makes a fresh device: d stands for one nothing refers to.
Pair(d) ==
    /\ ~session[d]
    /\ \A c \in DeviceConn : owner[c] # d
    /\ \A c \in Conn : ref[c] # d
    /\ \A r \in Revoker : revoke[r].dev # d
    /\ session' = [session EXCEPT ![d] = TRUE]
    /\ UNCHANGED <<hubVars, online, pc, owner, via, ref, wireVars, stale, revoke, hubLocked>>

-----------------------------------------------------------------------------
HostHandler(c) ==
    \/ HostCheck(c) \/ HostAttach(c) \/ HostOnline(c) \/ HostGreet(c)
    \/ HostLookup(c) \/ HostSend(c) \/ HostDetach(c) \/ ReaderExit(c)

DeviceHandler(c) ==
    \/ DeviceAttach(c) \/ DeviceLookup(c) \/ DeviceSend(c) \/ DeviceFail(c)
    \/ DeviceDetach(c) \/ ReaderExit(c)

HostInput(c) ==
    \/ \E h \in Host, how \in {"token", "register"} : HostAccept(c, h, how)
    \/ \E ch \in Channel : HostFrame(c, ch)
    \/ Silence(c)

DeviceInput(c) ==
    \/ \E d \in Device : DeviceAccept(c, d)
    \/ \E ch \in Channel \cup {None} : DeviceFrame(c, ch)

StoreStep ==
    \/ \E r \in Revoker : (\E d \in Device : RevokeCheck(r, d))
                          \/ RevokeDrop(r) \/ RevokeClose(r)
    \/ \E d \in Device : Pair(d)

Next ==
    \/ \E c \in HostConn : HostHandler(c) \/ HostInput(c)
    \/ \E c \in DeviceConn : DeviceHandler(c) \/ DeviceInput(c)
    \/ \E c \in Conn : Pump(c) \/ Ping(c) \/ LinkDown(c) \/ Recycle(c)
    \/ StoreStep

Spec == Init /\ [][Next]_vars

\* Goroutines run: handlers and pumps go on while they can, and a write ends
\* within writeTimeout, so no pump blocks for ever.  Peers, the network and
\* the callers of the store owe nothing.
FairSpec ==
    /\ Spec
    /\ \A c \in HostConn : WF_vars(HostHandler(c))
    /\ \A c \in DeviceConn : WF_vars(DeviceHandler(c))
    /\ \A c \in Conn : WF_vars(Pump(c))

-----------------------------------------------------------------------------
(* Properties. *)

Steps == {"free", "check", "attach", "done"} \cup Attached

TypeOK ==
    /\ hostConns \in [Host -> HostConn \cup {None}]
    /\ deviceConns \in [Device -> DeviceConn \cup {None}]
    /\ channels \in [Key -> Device \cup {None}]
    /\ online \in [Host -> BOOLEAN]
    /\ session \in [Device -> BOOLEAN]
    /\ pc \in [Conn -> Steps]
    /\ owner \in [Conn -> Peer \cup {None}]
    /\ via \in [HostConn -> {"token", "register", "displaced"}]
    /\ ref \in [Conn -> Device \cup Conn \cup {None}]
    /\ open \in [Conn -> BOOLEAN]
    /\ link \in [Conn -> BOOLEAN]
    /\ queue \in [Conn -> Seq(Peer \cup {None})]
    /\ \A c \in Conn : Len(queue[c]) <= QueueCap
    /\ stale \in [HostConn -> BOOLEAN]
    /\ revoke \in [Revoker -> [step : {"idle", "drop", "close"},
                               dev : Device \cup {None}]]
    /\ hubLocked \in BOOLEAN

\* A table entry names a tunnel of that very peer whose handler has still to
\* run its detach, so no entry outlives its tunnel; and the current tunnel of
\* a host has not been kicked, so attachHost never closes a send channel twice.
TablesLive ==
    /\ \A h \in Host : hostConns[h] # None =>
         /\ owner[hostConns[h]] = h
         /\ pc[hostConns[h]] \in Attached
         /\ open[hostConns[h]]
    /\ \A d \in Device : deviceConns[d] # None =>
         /\ owner[deviceConns[d]] = d
         /\ pc[deviceConns[d]] \in Attached

Current(c) == IF c \in HostConn THEN hostConns[owner[c]] = c
                                ELSE deviceConns[owner[c]] = c

\* A tunnel that the tables no longer name has been kicked, so its pump will
\* close it: a replaced tunnel cannot stay connected and unreachable.
NoZombieTunnel ==
    \A c \in Conn : pc[c] \in Attached /\ ~Current(c) => ~open[c]

\* Two different hosts whose channel keys meet: hostId "a" with channel "b/c"
\* and hostId "a/b" with channel "c".
ShareKey(h, g) == \E ch \in Channel, k \in Channel : KeyOf[h][ch] = KeyOf[g][k]
MayReach(h, d) == h = HostOf[d] \/ ShareKey(h, HostOf[d])

\* Whatever interleaving of rebinds, replacements and slot reuse: a frame in a
\* host's queue comes from a device paired with it, and one in a device's queue
\* from its host or from a host that shares a key with that one.  The comment
\* at bindChannel, that replies "can never cross-route", holds only between
\* hosts that share none.
HostIsolation ==
    \A c \in Conn : \A i \in 1..Len(queue[c]) : queue[c][i] # None =>
        IF c \in HostConn THEN /\ queue[c][i] \in Device
                               /\ HostOf[queue[c][i]] = owner[c]
                          ELSE /\ queue[c][i] \in Host
                               /\ MayReach(queue[c][i], owner[c])

\* The host of d has the key k.
HasKey(d, k) == \E ch \in Channel : KeyOf[HostOf[d]][ch] = k

\* A channel binding belongs to a device whose host has that key and that has a
\* handler yet to run detachDevice: no binding is left behind when a device is
\* gone.
BindingsOwned ==
    \A k \in Key : channels[k] # None =>
        /\ HasKey(channels[k], k)
        /\ \E c \in DeviceConn : owner[c] = channels[k] /\ pc[c] \in Attached

\* Once a host tunnel has set its flag, the detach of an older tunnel of the
\* same host cannot leave Host.Online false under it.
OnlineKept ==
    \A h \in Host : hostConns[h] # None /\ pc[hostConns[h]] # "online" => online[h]

\* Every kicked tunnel ends: the pump drains it and closes the socket, the
\* reader fails, the handler detaches.
KickedTunnelEnds == \A c \in Conn : ~open[c] ~> pc[c] \in {"done", "free"}

\* mobile-relay-protocol.md 2.4: an accepted revoke answers {revoked: true}.
RevokeAnswers == ~hubLocked

\* When a revoke completes, every tunnel of the device whose reader runs has
\* been kicked, the current one and those replaced before.
RevokeKicksRunning ==
    [][\A r \in Revoker : revoke[r].step = "close" /\ revoke'[r].step = "idle" =>
         \A c \in DeviceConn :
            owner[c] = revoke[r].dev /\ pc[c] \in Running => ~open'[c]]_vars
=============================================================================
