----------------------------- MODULE BridgeLink -----------------------------
(***************************************************************************)
(* The life of the tunnel between the bridge (mobile/bridge/bridge.mjs)    *)
(* and the relay (mobile/relay/main.go), in time: reconnects with backoff, *)
(* the exchange that registers a bridge the relay does not know, the       *)
(* bridge's silence watchdog, the relay's pings and read deadline, and the *)
(* relay's choice between refusing a reconnect and taking over a stale     *)
(* tunnel.                                                                 *)
(*                                                                         *)
(* A tick is a fixed number of seconds; timers are punctual, and over a    *)
(* network that is up a connection attempt settles within a tick.          *)
(* Counters stop at the largest value anything compares them with.  While  *)
(* the network is down frames wait in TCP and no end learns of the other.  *)
(***************************************************************************)
EXTENDS Integers

CONSTANTS
    SilenceLimit,    \* 45 s, bridge.mjs:299
    WatchdogPeriod,  \* 15 s
    PingPeriod,      \* PingInterval of the relay
    StaleHostAfter,  \* 45 s
    DeadAfter,       \* 90 s
    MaxBackoff       \* 10 s; the first backoff is one tick

ASSUME LinkAssumption ==
    /\ {SilenceLimit, WatchdogPeriod, PingPeriod, StaleHostAfter, DeadAfter, MaxBackoff}
         \subseteq Nat \ {0}

\* 45 + 30 < 90 s: a bridge that answers a ping before its watchdog loses
\* patience answers before the read deadline.
ASSUME DeadlineAssumption == SilenceLimit + PingPeriod < DeadAfter

VARIABLES
    net,      \* the network between the two carries frames
    link,     \* the bridge's socket, or what it waits for
    age,      \* time since lastSeen: since a frame of the relay arrived
    up,       \* time since the socket opened
    wd,       \* time to the watchdog's next run
    timer,    \* time to the reconnect that onclose scheduled
    backoff,
    stream,   \* sseStreams holds a WebSocket
    relay,    \* the host's tunnel in the relay's table: none, this, old
    token,    \* the bridge has a token to present
    known,    \* the relay knows it
    reg,      \* how far the registration over the open socket is: the bridge
              \* is asked for it, sent it, or the relay's reply is on its way
    idle,     \* time since the tunnel's last pong (read deadline)
    quiet,    \* time since the tunnel's last frame (conn.lastSeen)
    tick,     \* time since the relay's last ping
    pending,  \* a ping is on its way to the bridge
    away      \* time the bridge has waited, over a network that is up, since it
              \* had a tunnel, something broke or its watchdog closed a socket

bridgeVars == <<link, age, up, wd, timer, backoff, stream, token>>
relayVars  == <<relay, known, reg, idle, quiet, tick, pending>>
vars == <<net, bridgeVars, relayVars, away>>

AgeCap == SilenceLimit + WatchdogPeriod + 1
OutageLimit == StaleHostAfter + MaxBackoff
Lower(a, b) == IF a < b THEN a ELSE b

Init ==
    /\ net = TRUE
    /\ link = "connecting"
    /\ age = 0 /\ up = 0 /\ wd = WatchdogPeriod
    /\ timer = 0 /\ backoff = 1
    /\ stream = FALSE
    /\ token \in BOOLEAN
    /\ relay = "none"
    /\ known = FALSE
    /\ reg = "none"
    /\ idle = 0 /\ quiet = 0 /\ tick = 0
    /\ pending = FALSE
    /\ away = 0

-----------------------------------------------------------------------------
(* The bridge. *)

\* onclose: every stream is aborted before the reconnect is scheduled, and a
\* WebSocket has no abort(): the uncaught TypeError ends the process.
OnClose(next) ==
    IF stream
    THEN link' = "crashed" /\ UNCHANGED <<timer, backoff, stream>>
    ELSE /\ link' = "waiting"
         /\ timer' = next
         /\ backoff' = Lower(2 * next, MaxBackoff)
         /\ UNCHANGED stream

\* connect(), from the timer of onclose.
Connect ==
    /\ link = "waiting"
    /\ timer = 0
    /\ link' = "connecting"
    /\ UNCHANGED <<net, age, up, wd, timer, backoff, stream, token, relayVars, away>>

\* Faulty form of MayTakeOver: only the read deadline frees the host.
MayTakeOverDead == relay = "old" /\ idle >= DeadAfter
MayTakeOver == relay = "old" /\ quiet >= StaleHostAfter

\* onopen resets the backoff but not lastSeen.
OnOpen ==
    /\ link = "connecting"
    /\ net
    /\ link' = "open"
    /\ up' = 0
    /\ backoff' = 1

\* The relay's table has the bridge's tunnel.
Attach ==
    /\ relay' = "this"
    /\ idle' = 0 /\ quiet' = 0 /\ tick' = 0
    /\ pending' = FALSE

\* The socket opens with a token that the relay knows.  It attaches the tunnel
\* and sends nothing.
Accept ==
    /\ known
    /\ relay = "none" \/ MayTakeOver
    /\ OnOpen
    /\ Attach
    /\ away' = 0
    /\ UNCHANGED <<net, age, wd, timer, stream, token, known, reg>>

\* The socket opens, which resets the backoff, and the relay closes it: the
\* tunnel in its table is still live.
Refuse ==
    /\ link = "connecting"
    /\ net
    /\ known
    /\ relay = "old" /\ ~MayTakeOver
    /\ OnClose(1)
    /\ UNCHANGED <<net, age, up, wd, token, relayVars, away>>

\* The socket opens without a token, and the bridge registers, or with one that
\* the relay does not know, and the relay answers unknown-host.
Hello ==
    /\ ~known
    /\ OnOpen
    /\ reg' = IF token THEN "asked" ELSE "sent"
    /\ UNCHANGED <<net, age, wd, timer, stream, token, relay, known, idle, quiet, tick, pending, away>>

\* unknown-host arrives and the bridge registers.
Ask ==
    /\ reg = "asked" /\ net
    /\ age' = 0
    /\ reg' = "sent"
    /\ UNCHANGED <<net, link, up, wd, timer, backoff, stream, token, relay, known, idle, quiet,
                   tick, pending, away>>

\* The relay takes the registration.  One that displaces a tunnel closes itself.
Register ==
    /\ reg = "sent" /\ net
    /\ IF relay = "none"
       THEN /\ reg' = "reply"
            /\ Attach
            /\ away' = 0
            /\ UNCHANGED link
       ELSE /\ reg' = "none"
            /\ relay' = "none"
            /\ pending' = FALSE
            /\ link' = "closing"
            /\ UNCHANGED <<idle, quiet, tick, away>>
    /\ UNCHANGED <<net, age, up, wd, timer, backoff, stream, token, known>>

\* The reply with the host's token arrives, and with it a ping that waited behind
\* it in TCP.
Registered ==
    /\ reg = "reply" /\ net
    /\ age' = 0
    /\ token' = TRUE /\ known' = TRUE
    /\ reg' = "none"
    /\ IF pending THEN idle' = 0 /\ quiet' = 0 ELSE UNCHANGED <<idle, quiet>>
    /\ pending' = FALSE
    /\ UNCHANGED <<net, link, up, wd, timer, backoff, stream, relay, tick, away>>

\* The connection attempt fails, or the watchdog closed it.
Fail ==
    /\ link = "connecting"
    /\ ~net
    /\ OnClose(backoff)
    /\ UNCHANGED <<net, age, up, wd, token, relayVars, away>>

Closed ==
    /\ link = "closing"
    /\ OnClose(backoff)
    /\ UNCHANGED <<net, age, up, wd, token, relayVars, away>>

\* The socket of the bridge goes; the relay learns of it if the network is up.
Drop ==
    /\ link' = "closing"
    /\ relay' = IF relay # "this" THEN relay ELSE IF net THEN "none" ELSE "old"
    /\ reg' = "none"
    /\ pending' = FALSE
    /\ away' = 0

\* Faulty form of Silent: the limit is never reached.
NeverSilent == FALSE
Silent == age > SilenceLimit

Watchdog ==
    /\ wd = 0
    /\ wd' = WatchdogPeriod
    /\ IF link \in {"connecting", "open"} /\ Silent THEN Drop
       ELSE UNCHANGED <<link, relay, reg, pending, away>>
    /\ UNCHANGED <<net, age, up, timer, backoff, stream, token, known, idle, quiet, tick>>

-----------------------------------------------------------------------------
(* The relay. *)

\* The pump writes a ping every PingPeriod.
Ping ==
    /\ relay # "none"
    /\ tick = PingPeriod
    /\ tick' = 0
    /\ pending' = (relay = "this")
    /\ UNCHANGED <<net, bridgeVars, relay, known, reg, idle, quiet, away>>

Deliverable == pending /\ reg = "none" /\ net /\ link = "open" /\ relay = "this"

\* Faulty form of Pong: the relay's pong handler leaves the read deadline.
PongLeavesDeadline ==
    /\ Deliverable
    /\ age' = 0 /\ quiet' = 0
    /\ pending' = FALSE
    /\ UNCHANGED <<net, link, up, wd, timer, backoff, stream, token, relay, known, reg, idle, tick, away>>

\* The bridge reads the ping and answers with a pong.
Pong ==
    /\ Deliverable
    /\ age' = 0 /\ idle' = 0 /\ quiet' = 0
    /\ pending' = FALSE
    /\ UNCHANGED <<net, link, up, wd, timer, backoff, stream, token, relay, known, reg, tick, away>>

\* A request of a phone, and the bridge's reply; it may open or close a stream.
PhoneFrame ==
    /\ net /\ link = "open" /\ relay = "this" /\ reg = "none" /\ ~pending
    /\ age' = 0 /\ quiet' = 0
    /\ stream' \in BOOLEAN
    /\ UNCHANGED <<net, link, up, wd, timer, backoff, token, relay, known, reg, idle, tick, pending, away>>

\* The read deadline of a tunnel passes.
RelayDead ==
    /\ relay # "none"
    /\ idle = DeadAfter
    /\ relay' = "none"
    /\ pending' = FALSE
    /\ IF relay = "this"
       THEN /\ reg' = "none"
            /\ link' = IF net THEN "closing" ELSE link
       ELSE UNCHANGED <<reg, link>>
    /\ UNCHANGED <<net, age, up, wd, timer, backoff, stream, token, known, idle, quiet, tick, away>>

-----------------------------------------------------------------------------
(* The environment. *)

NetDown == net /\ net' = FALSE /\ away' = 0 /\ UNCHANGED <<bridgeVars, relayVars>>
NetUp == ~net /\ net' = TRUE /\ UNCHANGED <<bridgeVars, relayVars, away>>

\* The bridge's connection breaks.
Reset ==
    /\ link = "open"
    /\ Drop
    /\ UNCHANGED <<net, age, up, wd, timer, backoff, stream, token, known, idle, quiet, tick>>

\* dsh ends the stream.
StreamEnds ==
    /\ stream /\ link # "crashed"
    /\ stream' = FALSE
    /\ UNCHANGED <<net, link, age, up, wd, timer, backoff, token, relayVars, away>>

\* The relay finds out that an old tunnel's peer is gone.
OldReset ==
    /\ relay = "old" /\ net
    /\ relay' = "none"
    /\ UNCHANGED <<net, bridgeVars, known, reg, idle, quiet, tick, pending, away>>

\* The relay restarts and forgets every host.
RelayRestart ==
    /\ relay' = "none" /\ known' = FALSE /\ reg' = "none" /\ pending' = FALSE
    /\ link' = IF link = "open" /\ net THEN "closing" ELSE link
    /\ away' = 0
    /\ UNCHANGED <<net, age, up, wd, timer, backoff, stream, token, idle, quiet, tick>>

\* A frame of the registration is on its way.
Greeting == reg # "none" /\ net

\* Nothing is due now.
Rest ==
    /\ wd > 0
    /\ link = "waiting" => timer > 0
    /\ relay # "none" => tick < PingPeriod /\ idle < DeadAfter
    /\ ~Deliverable /\ ~Greeting
    /\ ~(link = "connecting" /\ net)

\* One tick.  The relay gives a bridge that is to register as long, and over a
\* network that is down the bridge does not learn that it gave up.
Tick ==
    /\ Rest
    /\ age' = Lower(age + 1, AgeCap)
    /\ up' = IF link = "open" THEN Lower(up + 1, WatchdogPeriod + 1) ELSE 0
    /\ wd' = wd - 1
    /\ timer' = IF link = "waiting" THEN timer - 1 ELSE timer
    /\ IF relay = "none" THEN UNCHANGED <<idle, quiet, tick>>
       ELSE /\ idle' = idle + 1
            /\ quiet' = Lower(quiet + 1, StaleHostAfter)
            /\ tick' = tick + 1
    /\ reg' = IF reg \in {"asked", "sent"} THEN "none" ELSE reg
    /\ away' = IF link = "waiting" /\ net THEN Lower(away + 1, OutageLimit + 1) ELSE away
    /\ UNCHANGED <<net, link, backoff, stream, token, relay, known, pending>>

-----------------------------------------------------------------------------
Disturb == NetDown \/ Reset \/ RelayRestart

Program == Connect \/ Accept \/ Refuse \/ Hello \/ Ask \/ Register \/ Registered
           \/ Fail \/ Closed \/ Watchdog \/ Ping \/ Pong \/ RelayDead \/ Tick

Next == Program \/ PhoneFrame \/ StreamEnds \/ NetUp \/ OldReset \/ Disturb

Spec == Init /\ [][Next]_vars

\* Timers fire and a socket that fails or closes says so in the end.  Of the
\* attempts and registrations made again and again over a network that is up
\* one gets through: the watchdog does not close every one of them in the
\* instant it starts.  No phone has to ask for anything.
FairSpec ==
    /\ Spec
    /\ WF_vars(Connect) /\ WF_vars(Fail) /\ SF_vars(Accept \/ Refuse \/ Hello) /\ WF_vars(Closed)
    /\ SF_vars(Ask) /\ SF_vars(Register) /\ SF_vars(Registered)
    /\ WF_vars(Watchdog) /\ WF_vars(Ping) /\ WF_vars(Pong) /\ WF_vars(RelayDead)
    /\ WF_vars(Tick)

-----------------------------------------------------------------------------
(* Properties. *)

TypeOK ==
    /\ net \in BOOLEAN
    /\ link \in {"connecting", "open", "closing", "waiting", "crashed"}
    /\ age \in 0..AgeCap
    /\ up \in 0..(WatchdogPeriod + 1)
    /\ wd \in 0..WatchdogPeriod
    /\ timer \in 0..MaxBackoff
    /\ backoff \in 1..MaxBackoff
    /\ stream \in BOOLEAN
    /\ relay \in {"none", "this", "old"}
    /\ token \in BOOLEAN /\ known \in BOOLEAN
    /\ reg \in {"none", "asked", "sent", "reply"}
    /\ idle \in 0..DeadAfter
    /\ quiet \in 0..StaleHostAfter
    /\ tick \in 0..PingPeriod
    /\ pending \in BOOLEAN
    /\ away \in 0..(OutageLimit + 1)

\* A socket that has been open for a whole watchdog period has heard from the
\* relay within SilenceLimit and one more period: a half-open connection never
\* stays up for longer.
SilentLinkClosed ==
    link = "open" /\ up > WatchdogPeriod => age <= SilenceLimit + WatchdogPeriod

\* A tunnel that the bridge has heard from within SilenceLimit is never at the
\* relay's read deadline, although frames of phones, which keep the bridge
\* from calling the link silent, do not move that deadline: only pongs do.
LiveTunnelNotCut ==
    relay = "this" /\ link = "open" /\ ~Silent => idle < DeadAfter

\* A bridge that lost its tunnel waits, over a network that is up, for less time
\* than it takes the relay to call the lost tunnel stale and the bridge to make
\* its next attempt, whatever attempts were refused meanwhile and whether it had
\* to register again; time in which sockets close, or in which the watchdog
\* closes an attempt, is not counted.
BriefOutage == away <= OutageLimit

\* Once the network stays up and nothing breaks, the tunnel of a bridge that
\* runs comes up for good: "a short cap turns a relay restart / network blip
\* into a second-scale outage" (bridge.mjs:340-342).
HostRecovers ==
    <>[]net /\ <>[][~Disturb]_vars /\ [](link # "crashed")
        => <>[](link = "open" /\ relay = "this")
=============================================================================
