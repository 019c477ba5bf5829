--------------------------- MODULE TimerProofs ----------------------------
(***************************************************************************)
(* Proofs about the two components that count time: BridgeLink, for every  *)
(* setting of its timers, and RateLimiter, for every limit, window and     *)
(* number of addresses.                                                    *)
(***************************************************************************)
EXTENDS BridgeLink, RateLimiter, TLAPS

\* A socket that was open when the watchdog last ran was not silent then.
Watched == link = "open" /\ up > WatchdogPeriod - wd => age <= SilenceLimit + WatchdogPeriod - wd

\* Without a ping on its way the last one was answered.  A ping that waits was
\* sent within PingPeriod of that answer, and nothing has arrived before it.
Answered ==
    link = "open" /\ relay = "this" =>
        IF pending THEN idle <= PingPeriod + age \/ Silent ELSE idle <= tick

\* The relay takes a tunnel for this bridge's only while its socket is open.
Held == relay = "this" => link = "open"

\* A registration goes over an open socket, of a bridge that the relay does not
\* know, and the reply over the tunnel that the relay attached.
Greeted ==
    /\ reg # "none" => ~known /\ link = "open" /\ backoff = 1
    /\ reg # "none" => (reg = "reply" <=> relay = "this")

LinkInv == TypeOK /\ Held /\ Greeted /\ Watched /\ Answered

LEMMA Bounds ==
    /\ SilenceLimit \in Nat /\ SilenceLimit > 0 /\ WatchdogPeriod \in Nat /\ WatchdogPeriod > 0
    /\ PingPeriod \in Nat /\ PingPeriod > 0 /\ StaleHostAfter \in Nat /\ StaleHostAfter > 0
    /\ DeadAfter \in Nat /\ DeadAfter > 0 /\ MaxBackoff \in Nat /\ MaxBackoff > 0
    /\ SilenceLimit + PingPeriod < DeadAfter
    /\ AgeCap \in Nat /\ AgeCap = SilenceLimit + WatchdogPeriod + 1
    /\ OutageLimit \in Nat /\ OutageLimit = StaleHostAfter + MaxBackoff
  BY LinkAssumption, DeadlineAssumption DEF AgeCap, OutageLimit

LEMMA Zeros ==
    /\ 0 \in 0 .. AgeCap /\ 0 \in 0 .. WatchdogPeriod + 1 /\ 0 \in 0 .. DeadAfter
    /\ 0 \in 0 .. StaleHostAfter /\ 0 \in 0 .. PingPeriod /\ 0 \in 0 .. MaxBackoff
    /\ WatchdogPeriod \in 0 .. WatchdogPeriod /\ 1 \in 1 .. MaxBackoff
    /\ 0 \in 0 .. (OutageLimit + 1)
  BY Bounds

LEMMA LowerBounds ==
  ASSUME NEW a \in Nat, NEW b \in Nat
  PROVE  Lower(a, b) \in Nat /\ Lower(a, b) <= a /\ Lower(a, b) <= b
         /\ (Lower(a, b) = a \/ Lower(a, b) = b)
  BY DEF Lower

LEMMA CloseTypes ==
  ASSUME TypeOK, NEW n \in 1 .. MaxBackoff, OnClose(n)
  PROVE  /\ link' \in {"waiting", "crashed"} /\ timer' \in 0 .. MaxBackoff
         /\ backoff' \in 1 .. MaxBackoff /\ stream' \in BOOLEAN
<1>1. Lower(2 * n, MaxBackoff) \in 1 .. MaxBackoff
  BY Bounds DEF Lower
<1> QED BY <1>1, Bounds DEF OnClose, TypeOK

LEMMA InitLink == Init => LinkInv
<1> SUFFICES ASSUME Init PROVE LinkInv
  OBVIOUS
<1>1. TypeOK
  BY Zeros, Bounds DEF Init, TypeOK
<1>2. Held /\ Greeted /\ Watched /\ Answered
  BY DEF Init, Held, Greeted, Watched, Answered
<1> QED BY <1>1, <1>2 DEF LinkInv

LEMMA TickTypes ==
  ASSUME TypeOK, Tick
  PROVE  /\ TypeOK'
         /\ (age' = age + 1 \/ age' = AgeCap) /\ age' <= age + 1
         /\ (link = "open" => up' <= up + 1)
<1>1. /\ wd > 0 /\ wd' = wd - 1
      /\ age' = Lower(age + 1, AgeCap)
      /\ up' = IF link = "open" THEN Lower(up + 1, WatchdogPeriod + 1) ELSE 0
      /\ IF relay = "none" THEN UNCHANGED <<idle, quiet, tick>>
         ELSE /\ idle' = idle + 1
              /\ quiet' = Lower(quiet + 1, StaleHostAfter)
              /\ tick' = tick + 1
      /\ reg' \in {"none", reg}
      /\ UNCHANGED <<net, link, backoff, stream, token, relay, known, pending>>
  BY DEF Tick, Rest
<1>2. /\ link = "waiting" => timer > 0
      /\ relay # "none" => tick < PingPeriod /\ idle < DeadAfter
      /\ timer' = IF link = "waiting" THEN timer - 1 ELSE timer
  BY DEF Tick, Rest
<1>3. age' \in 0 .. AgeCap /\ (age' = age + 1 \/ age' = AgeCap) /\ age' <= age + 1
  BY <1>1, Bounds, LowerBounds DEF TypeOK
<1>4. up' \in 0 .. WatchdogPeriod + 1 /\ (link = "open" => up' <= up + 1)
  BY <1>1, Bounds, LowerBounds DEF TypeOK
<1>5. idle' \in 0 .. DeadAfter /\ tick' \in 0 .. PingPeriod /\ quiet' \in 0 .. StaleHostAfter
  <2>1. CASE relay = "none"
    BY <1>1, <2>1 DEF TypeOK
  <2>2. CASE relay # "none"
    <3>1. quiet' \in 0 .. StaleHostAfter
      BY <1>1, <2>2, Bounds, LowerBounds DEF TypeOK
    <3> QED BY <1>1, <1>2, <2>2, <3>1, Bounds DEF TypeOK
  <2> QED BY <2>1, <2>2
<1>6. away' \in 0 .. (OutageLimit + 1)
  <2>1. away' = Lower(away + 1, OutageLimit + 1) \/ away' = away
    BY DEF Tick
  <2> QED BY <2>1, Bounds, LowerBounds DEF TypeOK
<1> QED BY <1>1, <1>2, <1>3, <1>4, <1>5, <1>6, Bounds DEF TypeOK

LEMMA NextTypes == LinkInv /\ [Next]_vars => TypeOK'
<1> SUFFICES ASSUME TypeOK, Greeted, [Next]_vars PROVE TypeOK'
  BY DEF LinkInv
<1>1. CASE Connect \/ Ask
  BY <1>1, Zeros DEF Connect, Ask, TypeOK, relayVars
<1>2. CASE Accept \/ Hello
  BY <1>2, Zeros, Bounds DEF Accept, Hello, OnOpen, Attach, TypeOK
<1>3. CASE Refuse \/ Fail \/ Closed
  <2>1. PICK n \in 1 .. MaxBackoff : OnClose(n)
    BY <1>3, Bounds DEF Refuse, Fail, Closed, TypeOK
  <2>2. UNCHANGED <<net, age, up, wd, token, relayVars, away>>
    BY <1>3 DEF Refuse, Fail, Closed
  <2> QED BY <2>1, <2>2, CloseTypes DEF TypeOK, relayVars
<1>4. CASE Register
  BY <1>4, Zeros, Bounds DEF Register, Attach, TypeOK
<1>5. CASE Registered
  BY <1>5, Zeros DEF Registered, TypeOK
<1>6. CASE Watchdog \/ Reset
  <2>1. \/ Drop
        \/ UNCHANGED <<link, relay, reg, pending, away>>
    BY <1>6 DEF Watchdog, Reset
  <2>2. UNCHANGED <<net, age, up, timer, backoff, stream, token, known, idle, quiet, tick>>
        /\ wd' \in 0 .. WatchdogPeriod
    BY <1>6, Zeros DEF Watchdog, Reset, TypeOK
  <2>3. relay' \in {"none", "this", "old"} /\ link' \in {link, "closing"} /\ reg' \in {reg, "none"}
        /\ pending' \in {pending, FALSE}
    BY <2>1 DEF Drop, TypeOK
  <2>4. away' \in 0 .. (OutageLimit + 1)
    BY <2>1, Zeros DEF Drop, TypeOK
  <2> QED BY <2>2, <2>3, <2>4 DEF TypeOK
<1>7. CASE Ping \/ Pong \/ PhoneFrame
  <2>1. /\ UNCHANGED <<net, link, up, wd, timer, backoff, token, relay, known, reg, away>>
        /\ age' \in {age, 0} /\ idle' \in {idle, 0} /\ quiet' \in {quiet, 0} /\ tick' \in {tick, 0}
    BY <1>7 DEF Ping, Pong, PhoneFrame, bridgeVars
  <2>2. stream' \in BOOLEAN /\ pending' \in BOOLEAN
    BY <1>7 DEF Ping, Pong, PhoneFrame, bridgeVars, TypeOK
  <2> QED BY <2>1, <2>2, Zeros DEF TypeOK
<1>8. CASE RelayDead \/ RelayRestart \/ OldReset
  BY <1>8, Zeros DEF RelayDead, RelayRestart, OldReset, TypeOK, bridgeVars
<1>9. CASE Tick
  BY <1>9, TickTypes
<1>10. CASE StreamEnds \/ NetUp \/ NetDown \/ UNCHANGED vars
  <2>1. /\ UNCHANGED <<link, age, up, wd, timer, backoff, token, relayVars>>
        /\ net' \in BOOLEAN /\ stream' \in BOOLEAN /\ away' \in {away, 0}
    BY <1>10 DEF StreamEnds, NetUp, NetDown, vars, bridgeVars, relayVars, TypeOK
  <2> QED BY <2>1, Zeros DEF relayVars, TypeOK
<1> QED BY <1>1, <1>2, <1>3, <1>4, <1>5, <1>6, <1>7, <1>8, <1>9, <1>10 DEF Next, Program, Disturb

LEMMA NextHeld == LinkInv /\ [Next]_vars => Held' /\ Greeted'
<1> SUFFICES ASSUME TypeOK, Held, Greeted, [Next]_vars PROVE Held' /\ Greeted'
  BY DEF LinkInv
<1>1. CASE Connect \/ Ask
  BY <1>1 DEF Connect, Ask, relayVars, Held, Greeted
<1>2. CASE Accept \/ Hello
  BY <1>2 DEF Accept, Hello, OnOpen, Attach, Held, Greeted
<1>3. CASE Refuse \/ Fail \/ Closed
  BY <1>3 DEF Refuse, Fail, Closed, relayVars, Held, Greeted
<1>4. CASE Register \/ Registered
  BY <1>4 DEF Register, Registered, Attach, Held, Greeted
<1>5. CASE Watchdog \/ Reset
  BY <1>5 DEF Watchdog, Reset, Drop, Held, Greeted
<1>6. CASE RelayDead \/ RelayRestart \/ OldReset
  BY <1>6 DEF RelayDead, RelayRestart, OldReset, bridgeVars, Held, Greeted
<1>7. CASE Tick
  BY <1>7 DEF Tick, Held, Greeted
<1>8. CASE Ping \/ Pong \/ PhoneFrame \/ StreamEnds \/ NetUp \/ NetDown \/ UNCHANGED vars
  BY <1>8 DEF Ping, Pong, PhoneFrame, StreamEnds, NetUp, NetDown, vars, bridgeVars, relayVars,
              Held, Greeted
<1> QED BY <1>1, <1>2, <1>3, <1>4, <1>5, <1>6, <1>7, <1>8 DEF Next, Program, Disturb

LEMMA NextWatched == LinkInv /\ [Next]_vars => Watched'
<1> SUFFICES ASSUME TypeOK, Watched, [Next]_vars PROVE Watched'
  BY DEF LinkInv
<1>1. CASE Connect \/ Refuse \/ Fail \/ Closed
  BY <1>1 DEF Connect, Refuse, Fail, Closed, OnClose, Watched
<1>2. CASE Accept \/ Hello
  BY <1>2, Bounds DEF Accept, Hello, OnOpen, Watched, TypeOK
<1>3. CASE Ask \/ Registered \/ Pong \/ PhoneFrame
  BY <1>3, Bounds DEF Ask, Registered, Pong, PhoneFrame, Watched, TypeOK
<1>4. CASE Register
  BY <1>4 DEF Register, Watched
<1>5. CASE Watchdog
  BY <1>5, Bounds DEF Watchdog, Drop, Silent, Watched, TypeOK
<1>6. CASE Reset \/ RelayDead \/ RelayRestart \/ OldReset
  BY <1>6 DEF Reset, Drop, RelayDead, RelayRestart, OldReset, bridgeVars, Watched
<1>7. CASE Tick
  <2>1. link' = link /\ wd' = wd - 1
    BY <1>7 DEF Tick
  <2>2. TypeOK' /\ age' <= age + 1 /\ (link = "open" => up' <= up + 1)
    BY <1>7, TickTypes
  <2> QED BY <2>1, <2>2, Bounds DEF Watched, TypeOK
<1>8. CASE Ping \/ StreamEnds \/ NetUp \/ NetDown \/ UNCHANGED vars
  BY <1>8 DEF Ping, StreamEnds, NetUp, NetDown, vars, bridgeVars, Watched
<1> QED BY <1>1, <1>2, <1>3, <1>4, <1>5, <1>6, <1>7, <1>8 DEF Next, Program, Disturb

LEMMA NextAnswered == LinkInv /\ [Next]_vars => Answered'
<1> SUFFICES ASSUME TypeOK, Held, Greeted, Answered, [Next]_vars PROVE Answered'
  BY DEF LinkInv
<1>1. CASE Connect \/ Refuse \/ Fail \/ Closed
  BY <1>1 DEF Connect, Refuse, Fail, Closed, OnClose, Answered
<1>2. CASE Accept \/ Register
  BY <1>2 DEF Accept, Register, Attach, Answered, Silent
<1>3. CASE Hello
  BY <1>3 DEF Hello, OnOpen, Held, Answered
<1>4. CASE Ask \/ PhoneFrame
  <2>1. link' = link /\ relay' = relay /\ idle' = idle /\ tick' = tick /\ pending' = pending
    BY <1>4 DEF Ask, PhoneFrame
  <2>2. CASE PhoneFrame
    BY <2>1, <2>2, Bounds DEF PhoneFrame, TypeOK, Answered, Silent
  <2>3. CASE Ask
    BY <2>1, <2>3 DEF Ask, Greeted, Answered
  <2> QED BY <1>4, <2>2, <2>3
<1>5. CASE Registered \/ Pong
  <2>1. /\ link' = link /\ relay' = relay /\ tick' = tick /\ pending' = FALSE
        /\ idle' = 0 \/ (idle' = idle /\ ~pending)
    BY <1>5 DEF Registered, Pong, Deliverable
  <2> QED BY <2>1, Bounds DEF TypeOK, Answered
<1>6. CASE Watchdog \/ Reset
  BY <1>6 DEF Watchdog, Reset, Drop, Answered, Silent
<1>7. CASE Ping
  <2>1. /\ tick = PingPeriod /\ pending' = (relay = "this")
        /\ UNCHANGED <<link, age, relay, idle>>
    BY <1>7 DEF Ping, bridgeVars
  <2>2. CASE link = "open" /\ relay = "this"
    <3>1. idle <= PingPeriod + age \/ Silent
      BY <2>1, <2>2, Bounds DEF TypeOK, Answered
    <3> QED BY <2>1, <2>2, <3>1 DEF Answered, Silent
  <2>3. CASE ~(link = "open" /\ relay = "this")
    BY <2>1, <2>3 DEF Answered
  <2> QED BY <2>2, <2>3
<1>8. CASE RelayDead \/ RelayRestart \/ OldReset
  BY <1>8 DEF RelayDead, RelayRestart, OldReset, Answered
<1>9. CASE Tick
  <2>1. /\ UNCHANGED <<link, relay, pending>>
        /\ relay # "none" => idle' = idle + 1 /\ tick' = tick + 1
    BY <1>9 DEF Tick
  <2>2. age' = age + 1 \/ age' = AgeCap
    BY <1>9, TickTypes
  <2> QED BY <2>1, <2>2, Bounds DEF Answered, TypeOK, Silent
<1>10. CASE StreamEnds \/ NetUp \/ NetDown \/ UNCHANGED vars
  BY <1>10 DEF StreamEnds, NetUp, NetDown, vars, bridgeVars, relayVars, Answered, Silent
<1> QED BY <1>1, <1>2, <1>3, <1>4, <1>5, <1>6, <1>7, <1>8, <1>9, <1>10 DEF Next, Program, Disturb

LEMMA NextLink == LinkInv /\ [Next]_vars => LinkInv'
  BY NextTypes, NextHeld, NextWatched, NextAnswered DEF LinkInv

\* The deadlines, the backoff and the watchdog's period keep the counters of
\* both ends in range (connect and onclose of bridge.mjs, the hub's readPump).
THEOREM LinkTypes == Spec => []TypeOK
<1>1. LinkInv => TypeOK
  BY DEF LinkInv
<1> QED BY InitLink, NextLink, <1>1, PTL DEF Spec

\* The watchdog of bridge.mjs closes a link that has gone silent.
THEOREM WatchdogCloses == Spec => []SilentLinkClosed
<1>1. LinkInv => SilentLinkClosed
  BY Bounds DEF LinkInv, TypeOK, Watched, SilentLinkClosed
<1> QED BY InitLink, NextLink, <1>1, PTL DEF Spec

\* The relay's read deadline does not cut a tunnel on which the bridge hears it.
THEOREM DeadlineSpares == Spec => []LiveTunnelNotCut
<1>1. LinkInv => LiveTunnelNotCut
  BY Bounds DEF LinkInv, TypeOK, Answered, Silent, LiveTunnelNotCut
<1> QED BY InitLink, NextLink, <1>1, PTL DEF Spec

\* What the clocks wait for: the guards of the steps that are due at once.
Due ==
    \/ wd = 0
    \/ link = "waiting" /\ timer = 0
    \/ link = "connecting" /\ net /\ relay \in {"none", "old"}
    \/ relay # "none" /\ (tick = PingPeriod \/ idle = DeadAfter)
    \/ Deliverable
    \/ Greeting

TimeGoesOn == Rest \/ Due

\* Whatever the periods and deadlines are, bridge and relay never come to wait
\* for each other: a tick may pass, or the guard of Watchdog, Connect, Accept or
\* Refuse or Hello, a step of the registration, Ping, RelayDead or Pong holds. A bridge that connects while the relay
\* still took the tunnel for its own would be neither accepted nor refused.
THEOREM NeverStuck == Spec => []TimeGoesOn
<1>1. LinkInv => TimeGoesOn
  BY Bounds DEF LinkInv, TypeOK, Held, TimeGoesOn, Rest, Due
<1> QED BY <1>1, InitLink, NextLink, PTL DEF Spec

\* The time away is time in which the old tunnel was quiet, until that is stale
\* and only the wait of one attempt is left.  A bridge that the relay does not
\* know registers at the first attempt and displaces the old tunnel.
OutageInv ==
    /\ away <= OutageLimit
    /\ link = "waiting" => away + timer <= OutageLimit
    /\ link = "closing" => away + backoff <= OutageLimit
    /\ ~net \/ relay = "this" => away = 0
    /\ link = "closing" /\ relay = "old" => away = 0
    /\ relay = "old" /\ known => away <= quiet \/ quiet = StaleHostAfter
    /\ relay = "old" /\ ~known => away <= MaxBackoff
    /\ relay = "old" /\ ~known /\ link = "waiting" => away + timer <= MaxBackoff

LEMMA InitOutage == Init => OutageInv
  BY Bounds DEF Init, OutageInv

LEMMA Numbers ==
  ASSUME TypeOK
  PROVE  /\ away \in Nat /\ quiet \in Nat /\ quiet <= StaleHostAfter
         /\ timer \in Nat /\ timer <= MaxBackoff /\ backoff \in Nat /\ backoff <= MaxBackoff
  BY Bounds DEF TypeOK

LEMMA FromZero == \A t, bound \in Nat : t <= bound => 0 <= bound /\ 0 + t <= bound
  OBVIOUS

LEMMA Exchange ==
  \A a, t, b, u, bound \in Nat :
    b <= a + 1 /\ u = t - 1 /\ t > 0 /\ a + t <= bound => b + u <= bound /\ b <= bound
  OBVIOUS

LEMMA ResetOutage ==
  ASSUME TypeOK', away' = 0
  PROVE  OutageInv'
<1>1. /\ away' \in Nat /\ quiet' \in Nat /\ timer' \in Nat /\ timer' <= MaxBackoff
      /\ backoff' \in Nat /\ backoff' <= MaxBackoff
  BY Bounds DEF TypeOK
<1>2. timer' <= OutageLimit /\ backoff' <= OutageLimit
  BY <1>1, Bounds
<1>3. /\ 0 <= OutageLimit /\ 0 + timer' <= OutageLimit /\ 0 + backoff' <= OutageLimit
      /\ 0 <= quiet' /\ 0 <= MaxBackoff /\ 0 + timer' <= MaxBackoff
  <2>1. 0 + timer' <= OutageLimit /\ 0 + backoff' <= OutageLimit /\ 0 <= OutageLimit
    BY <1>1, <1>2, Bounds, FromZero
  <2>2. 0 + timer' <= MaxBackoff
    BY <1>1, Bounds, FromZero
  <2>3. 0 <= quiet' /\ 0 <= MaxBackoff
    BY <1>1, Bounds
  <2> QED BY <2>1, <2>2, <2>3, Zenon
<1> QED BY <1>3 DEF OutageInv

LEMMA TickOutage ==
  ASSUME TypeOK, TypeOK', Held, OutageInv, Tick
  PROVE  OutageInv'
<1>1. /\ UNCHANGED <<net, link, backoff, relay, known>>
      /\ link = "waiting" => timer > 0 /\ timer' = timer - 1
      /\ relay # "none" => quiet' = Lower(quiet + 1, StaleHostAfter)
      /\ \/ link = "waiting" /\ net /\ away' = Lower(away + 1, OutageLimit + 1)
         \/ away' = away
  BY DEF Tick, Rest
<1>2. /\ away \in Nat /\ away' \in Nat /\ quiet \in Nat /\ quiet' \in Nat /\ quiet <= StaleHostAfter
      /\ timer \in Nat /\ timer' \in Nat
  BY Numbers, Bounds DEF TypeOK
<1>3. Lower(away + 1, OutageLimit + 1) <= away + 1
  BY <1>2, Bounds DEF Lower
<1>4. away' <= away + 1 /\ (away' = away \/ (link = "waiting" /\ net))
  BY <1>1, <1>2, <1>3
<1>5. ASSUME NEW bound \in Nat, away <= bound, link = "waiting" => away + timer <= bound
      PROVE  away' <= bound /\ (link' = "waiting" => away' + timer' <= bound)
  <2>1. CASE link = "waiting"
    <3>1. timer > 0 /\ timer' = timer - 1 /\ away + timer <= bound /\ link' = "waiting"
      BY <1>1, <1>5, <2>1
    <3>2. away' + timer' <= bound /\ away' <= bound
      <4>1. away' <= away + 1 /\ timer' = timer - 1 /\ timer > 0 /\ away + timer <= bound
        BY <1>4, <3>1
      <4> QED BY <1>2, <1>5, <4>1, Exchange
    <3> QED BY <3>2
  <2>2. CASE link # "waiting"
    BY <1>1, <1>4, <1>5, <2>2
  <2> QED BY <2>1, <2>2
<1>6. /\ away' <= OutageLimit /\ (link' = "waiting" => away' + timer' <= OutageLimit)
      /\ relay = "old" /\ ~known =>
           away' <= MaxBackoff /\ (link' = "waiting" => away' + timer' <= MaxBackoff)
  BY <1>5, Bounds DEF OutageInv
<1>7. relay = "old" /\ known => away' <= quiet' \/ quiet' = StaleHostAfter
  <2>1. relay = "old" /\ known => away <= quiet \/ quiet = StaleHostAfter
    BY DEF OutageInv
  <2>2. relay = "old" => quiet' = quiet + 1 \/ quiet' = StaleHostAfter
    BY <1>1, <1>2, Bounds DEF Lower
  <2>3. relay = "old" /\ quiet = StaleHostAfter => quiet' = StaleHostAfter
    BY <1>1, <1>2, Bounds DEF Lower
  <2> QED BY <1>2, <1>4, <2>1, <2>2, <2>3
<1>8. /\ ~net' \/ relay' = "this" => away' = 0
      /\ link' = "closing" => away' = away /\ backoff' = backoff
  BY <1>1, <1>4, Zenon DEF Held, OutageInv
<1>9. /\ link' = "closing" => away' + backoff' <= OutageLimit
      /\ link' = "closing" /\ relay' = "old" => away' = 0
  BY <1>1, <1>8 DEF OutageInv
<1> QED BY <1>1, <1>6, <1>7, <1>8, <1>9 DEF OutageInv

LEMMA NextOutage == LinkInv /\ OutageInv /\ [Next]_vars => OutageInv'
<1> SUFFICES ASSUME LinkInv, OutageInv, [Next]_vars, TypeOK, Held, Greeted, TypeOK'
             PROVE  OutageInv'
  BY NextTypes DEF LinkInv
<1>1. CASE Connect
  BY <1>1, Numbers DEF Connect, relayVars, OutageInv
<1>2. CASE Accept \/ RelayRestart \/ NetDown
  BY <1>2, ResetOutage DEF Accept, RelayRestart, NetDown
<1>3. CASE Hello
  BY <1>3 DEF Hello, OnOpen, Held, OutageInv
<1>4. CASE Refuse
  <2>1. /\ net /\ known /\ relay = "old" /\ quiet < StaleHostAfter
        /\ UNCHANGED <<net, relay, known, quiet, away>>
        /\ link' \in {"waiting", "crashed"} /\ (link' = "waiting" => timer' = 1)
    BY <1>4, Numbers, Bounds DEF Refuse, MayTakeOver, OnClose, relayVars
  <2>2. away <= quiet
    BY <2>1, Numbers, Bounds DEF OutageInv
  <2>3. away + 1 <= OutageLimit /\ away <= OutageLimit
    BY <2>1, <2>2, Numbers, Bounds
  <2> QED BY <2>1, <2>2, <2>3 DEF OutageInv
<1>5. CASE Fail \/ Closed
  <2>1. /\ UNCHANGED <<net, relay, known, quiet, away>>
        /\ link' \in {"waiting", "crashed"} /\ (link' = "waiting" => timer' = backoff)
        /\ (~net \/ link = "closing")
    BY <1>5 DEF Fail, Closed, OnClose, relayVars
  <2>2. away + backoff <= OutageLimit /\ (relay = "old" => away = 0)
    BY <2>1, Numbers, Bounds DEF OutageInv
  <2>3. relay = "old" => away + backoff <= MaxBackoff
    BY <2>2, Numbers, Bounds
  <2> QED BY <2>1, <2>2, <2>3 DEF OutageInv
<1>6. CASE Ask
  BY <1>6 DEF Ask, OutageInv
<1>7. CASE Register
  <2>1. link = "open" /\ backoff = 1 /\ ~known /\ backoff' = 1
    BY <1>7 DEF Register, Greeted
  <2>2. CASE relay = "none"
    BY <1>7, <2>2, ResetOutage DEF Register
  <2>3. CASE relay # "none"
    <3>1. away <= MaxBackoff
      BY <2>1, <2>3, Bounds DEF TypeOK, OutageInv
    <3>2. away + 1 <= OutageLimit
      BY <3>1, Numbers, Bounds
    <3> QED BY <1>7, <2>1, <2>3, <3>2 DEF Register, OutageInv
  <2> QED BY <2>2, <2>3
<1>8. CASE Registered
  BY <1>8 DEF Registered, Greeted, OutageInv
<1>9. CASE Watchdog \/ Reset
  <2>1. CASE Drop
    BY <2>1, ResetOutage DEF Drop
  <2>2. CASE UNCHANGED <<net, link, relay, known, away, timer, backoff, quiet>>
    BY <2>2 DEF OutageInv
  <2> QED BY <1>9, <2>1, <2>2 DEF Watchdog, Reset
<1>10. CASE Ping \/ Pong \/ PhoneFrame
  <2>1. /\ UNCHANGED <<net, link, timer, backoff, relay, known, away>>
        /\ quiet' = quiet \/ relay = "this"
    BY <1>10 DEF Ping, Pong, Deliverable, PhoneFrame, bridgeVars
  <2> QED BY <2>1 DEF OutageInv
<1>11. CASE RelayDead \/ OldReset
  <2>1. /\ UNCHANGED <<net, timer, backoff, known, away>> /\ relay' = "none"
        /\ link' = link \/ relay = "this"
    BY <1>11 DEF RelayDead, OldReset, bridgeVars
  <2>2. CASE relay = "this"
    BY <2>1, <2>2, ResetOutage DEF OutageInv
  <2>3. CASE relay # "this"
    BY <2>1, <2>3 DEF OutageInv
  <2> QED BY <2>2, <2>3
<1>12. CASE Tick
  BY <1>12, TickOutage
<1>13. CASE StreamEnds \/ NetUp \/ UNCHANGED vars
  BY <1>13 DEF StreamEnds, NetUp, vars, bridgeVars, relayVars, OutageInv
<1> QED BY <1>1, <1>2, <1>3, <1>4, <1>5, <1>6, <1>7, <1>8, <1>9, <1>10, <1>11, <1>12, <1>13
        DEF Next, Program, Disturb

\* Whatever the relay refuses, and whether the bridge must register again, its
\* waits of onclose (bridge.mjs) add up to less than StaleHostAfter and MaxBackoff
\* before handleHost of the relay takes it: the takeover bounds the outage.
THEOREM OutageEnds == Spec => []BriefOutage
<1>1. LinkInv /\ OutageInv => BriefOutage
  BY DEF OutageInv, BriefOutage
<1> QED BY <1>1, InitLink, NextLink, InitOutage, NextOutage, PTL DEF Spec

-----------------------------------------------------------------------------
Entry == [start : Time, count : Nat]

LimiterTypes ==
    /\ clock \in Time
    /\ seen \in [IP -> Entry \cup {Unseen}]
    /\ granted \in [IP -> [Time -> Nat]]

\* What was let through is counted up, and the future knows of nothing more.
Counted(ip) ==
    /\ \A t \in Time, u \in Time : t <= u => granted[ip][t] <= granted[ip][u]
    /\ \A t \in Time : t >= clock => granted[ip][t] = granted[ip][clock]

\* The request that opened the last window was let through, with up to Limit
\* in that window and fewer in the Window instants before it.
Windowed(ip) ==
    LET s == seen[ip].start
    IN  /\ s <= clock
        /\ GrantedBy(ip, clock) - GrantedBy(ip, s - 1) <= seen[ip].count
        /\ GrantedBy(ip, clock) - GrantedBy(ip, s - 1) <= Limit
        /\ GrantedBy(ip, s - 1) < GrantedBy(ip, s)
        /\ GrantedBy(ip, s - 1) - GrantedBy(ip, s - Window) < Limit
        /\ clock >= s + Window => GrantedBy(ip, clock) = GrantedBy(ip, s + Window - 1)

\* Without a window fewer than Limit came in the last Window instants, and
\* none just clock.
Windowless(ip) ==
    /\ GrantedWithin(ip, clock) < Limit
    /\ GrantedBy(ip, clock) = GrantedBy(ip, clock - 1)

AddressInv(ip) ==
    /\ Counted(ip)
    /\ IF seen[ip] = Unseen THEN Windowless(ip) ELSE Windowed(ip)
    /\ \A t \in Time : GrantedWithin(ip, t) <= 2 * Limit - 1

LimiterInv == LimiterTypes /\ \A ip \in IP : AddressInv(ip)

-----------------------------------------------------------------------------
LEMMA LimiterBounds ==
    /\ Limit \in Nat /\ Limit > 0 /\ Window \in Nat /\ Window > 0 /\ LastTick \in Nat
    /\ Unseen \notin Entry
    /\ \A t : t \in Time <=> t \in Int /\ 0 <= t /\ t <= LastTick
<1>1. Entry \subseteq [start : Nat, count : Nat]
  BY LimiterAssumption DEF Entry, Time
<1> QED BY <1>1, LimiterAssumption DEF Time

\* What was let through by an instant, and by another.
LEMMA Monotone ==
  ASSUME LimiterTypes, NEW ip \in IP, Counted(ip), NEW x \in Int, NEW y \in Int, x <= y, y <= LastTick
  PROVE  /\ GrantedBy(ip, x) \in Nat /\ GrantedBy(ip, y) \in Nat
         /\ GrantedBy(ip, x) <= GrantedBy(ip, y)
         /\ clock <= y => GrantedBy(ip, y) = GrantedBy(ip, clock)
<1>1. \A t \in Time : granted[ip][t] \in Nat
  BY DEF LimiterTypes
<1>2. CASE x < 0 /\ y < 0
  BY <1>2, LimiterBounds DEF GrantedBy, LimiterTypes
<1>3. CASE x < 0 /\ y >= 0
  <2>1. y \in Time
    BY <1>3, LimiterBounds DEF LimiterTypes
  <2> QED BY <1>1, <1>3, <2>1, LimiterBounds DEF GrantedBy, LimiterTypes, Counted
<1>4. CASE x >= 0
  <2>1. x \in Time /\ y \in Time /\ clock \in Time
    BY <1>4, LimiterBounds DEF LimiterTypes
  <2> QED BY <1>1, <1>4, <2>1, LimiterBounds DEF GrantedBy, Counted, LimiterTypes
<1> QED BY <1>2, <1>3, <1>4

LEMMA GrantSteps ==
  ASSUME LimiterTypes, NEW ip \in IP, Counted(ip), Grant(ip), UNCHANGED clock
  PROVE  /\ granted' \in [IP -> [Time -> Nat]]
         /\ Counted(ip)'
         /\ \A x \in Int : x < clock => GrantedBy(ip, x)' = GrantedBy(ip, x)
         /\ \A x \in Int : clock <= x /\ x <= LastTick => GrantedBy(ip, x)' = GrantedBy(ip, clock) + 1
         /\ \A other \in IP : other # ip => granted'[other] = granted[other]
<1>1. \A t \in Time : granted[ip][t] \in Nat /\ granted[ip][t] + 1 \in Nat
  BY DEF LimiterTypes
<1>2. granted'[ip] = [t \in Time |-> IF t < clock THEN granted[ip][t] ELSE granted[ip][t] + 1]
  BY DEF Grant, LimiterTypes
<1>3. /\ granted' \in [IP -> [Time -> Nat]]
      /\ \A other \in IP : other # ip => granted'[other] = granted[other]
  <2>1. [t \in Time |-> IF t < clock THEN granted[ip][t] ELSE granted[ip][t] + 1] \in [Time -> Nat]
    BY <1>1
  <2> QED BY <2>1 DEF Grant, LimiterTypes
<1>4. \A t \in Time : granted'[ip][t] = IF t < clock THEN granted[ip][t] ELSE granted[ip][clock] + 1
  BY <1>2, LimiterBounds DEF Counted, LimiterTypes
<1>5. Counted(ip)'
  <2>1. clock \in Time
    BY DEF LimiterTypes
  <2>2. ASSUME NEW t \in Time, NEW u \in Time, t <= u PROVE granted'[ip][t] <= granted'[ip][u]
    <3>1. t \in Int /\ u \in Int /\ clock \in Int
      BY <2>1, LimiterBounds DEF LimiterTypes
    <3>2. granted[ip][t] <= granted[ip][u] /\ (t < clock => granted[ip][t] <= granted[ip][clock])
      BY <2>1, <2>2, <3>1 DEF Counted
    <3> QED BY <1>1, <1>4, <2>1, <2>2, <3>1, <3>2
  <2>3. ASSUME NEW t \in Time, t >= clock PROVE granted'[ip][t] = granted'[ip][clock]
    BY <1>4, <2>1, <2>3, LimiterBounds DEF LimiterTypes
  <2> QED BY <2>2, <2>3 DEF Counted
<1>6. \A x \in Int : x < clock => GrantedBy(ip, x)' = GrantedBy(ip, x)
  BY <1>4, LimiterBounds DEF GrantedBy, LimiterTypes
<1>7. ASSUME NEW x \in Int, clock <= x, x <= LastTick
      PROVE  GrantedBy(ip, x)' = GrantedBy(ip, clock) + 1
  <2>1. clock \in Time /\ clock \in Int /\ 0 <= clock
    BY LimiterBounds DEF LimiterTypes
  <2>2. x \in Time /\ ~(x < 0) /\ ~(x < clock) /\ ~(clock < 0)
    BY <1>7, <2>1, LimiterBounds DEF LimiterTypes
  <2> QED BY <1>4, <2>2 DEF GrantedBy
<1> QED BY <1>3, <1>5, <1>6, <1>7

\* One more within the last Window instants of the last one.
LEMMA GrantWithin ==
  ASSUME LimiterTypes, NEW ip \in IP, AddressInv(ip), Grant(ip), UNCHANGED clock,
         GrantedWithin(ip, clock) < 2 * Limit - 1
  PROVE  \A t \in Time : GrantedWithin(ip, t)' <= 2 * Limit - 1
<1> SUFFICES ASSUME NEW t \in Time PROVE GrantedWithin(ip, t)' <= 2 * Limit - 1
  OBVIOUS
<1>1. /\ t \in Int /\ t - Window \in Int /\ t - Window < t /\ t <= LastTick
      /\ clock \in Int /\ clock - Window \in Int /\ clock - Window < clock /\ clock <= LastTick
      /\ Counted(ip) /\ Limit \in Nat /\ Limit > 0 /\ Window \in Nat /\ LastTick \in Nat
  BY LimiterBounds DEF LimiterTypes, AddressInv
<1>2. GrantedBy(ip, t)' - GrantedBy(ip, t - Window)' <= 2 * Limit - 1
  <2>1. CASE t < clock
    <3>1. GrantedBy(ip, t) - GrantedBy(ip, t - Window) <= 2 * Limit - 1
      BY DEF AddressInv, GrantedWithin
    <3>2. GrantedBy(ip, t)' = GrantedBy(ip, t) /\ GrantedBy(ip, t - Window)' = GrantedBy(ip, t - Window)
      BY <1>1, <2>1, GrantSteps
    <3> QED BY <3>1, <3>2
  <2>2. CASE clock <= t /\ t - Window < clock
    <3>1. GrantedBy(ip, t)' = GrantedBy(ip, clock) + 1
      BY <1>1, <2>2, GrantSteps
    <3>2. GrantedBy(ip, t - Window)' = GrantedBy(ip, t - Window)
      BY <1>1, <2>2, GrantSteps
    <3>3. /\ GrantedBy(ip, clock - Window) <= GrantedBy(ip, t - Window)
          /\ GrantedBy(ip, clock - Window) \in Nat /\ GrantedBy(ip, t - Window) \in Nat
      <4>1. clock - Window <= t - Window /\ t - Window <= LastTick
        BY <1>1, <2>2
      <4> QED BY <1>1, <4>1, Monotone
    <3>4. GrantedBy(ip, clock) \in Nat
      BY <1>1, Monotone
    <3>5. GrantedBy(ip, clock) - GrantedBy(ip, clock - Window) < 2 * Limit - 1
      BY DEF GrantedWithin
    <3> QED BY <1>1, <3>1, <3>2, <3>3, <3>4, <3>5
  <2>3. CASE clock <= t - Window
    <3>1. /\ GrantedBy(ip, t)' = GrantedBy(ip, clock) + 1
          /\ GrantedBy(ip, t - Window)' = GrantedBy(ip, clock) + 1
      BY <1>1, <2>3, GrantSteps
    <3>2. GrantedBy(ip, clock) \in Nat
      BY <1>1, Monotone
    <3> QED BY <1>1, <3>1, <3>2
  <2> QED BY <1>1, <2>1, <2>2, <2>3
<1> QED BY <1>2 DEF GrantedWithin
-----------------------------------------------------------------------------
LEMMA OthersKept ==
  ASSUME NEW ip \in IP, AddressInv(ip), seen'[ip] = seen[ip], granted'[ip] = granted[ip],
         UNCHANGED clock
  PROVE  AddressInv(ip)'
<1>1. \A t : GrantedBy(ip, t)' = GrantedBy(ip, t)
  BY DEF GrantedBy
<1>2. Counted(ip)' /\ (Windowless(ip) => Windowless(ip)')
      /\ (\A t \in Time : GrantedWithin(ip, t)' = GrantedWithin(ip, t))
  BY <1>1 DEF AddressInv, Counted, Windowless, GrantedWithin
<1>3. Windowed(ip) => Windowed(ip)'
  BY <1>1 DEF Windowed
<1> QED BY <1>2, <1>3 DEF AddressInv

\* The last window has closed: fewer than Limit in the last Window instants.
LEMMA ClosedWindow ==
  ASSUME LimiterTypes, NEW ip \in IP, AddressInv(ip), seen[ip] # Unseen,
         seen[ip].start + Window <= clock
  PROVE  Windowless(ip)
<1> DEFINE s == seen[ip].start
<1>1. /\ s \in Int /\ 0 <= s /\ s <= LastTick /\ clock \in Int /\ clock <= LastTick
      /\ Window \in Nat /\ Window > 0 /\ LastTick \in Nat /\ Limit \in Nat
      /\ Counted(ip) /\ Windowed(ip)
  BY LimiterBounds DEF LimiterTypes, Entry, AddressInv
<1>2. /\ GrantedBy(ip, clock) - GrantedBy(ip, s - 1) <= Limit
      /\ GrantedBy(ip, s - 1) < GrantedBy(ip, s)
      /\ GrantedBy(ip, clock) = GrantedBy(ip, s + Window - 1)
  BY <1>1 DEF Windowed
<1> HIDE DEF s
<1>3. GrantedBy(ip, s) <= GrantedBy(ip, clock - Window) /\ GrantedBy(ip, clock - Window) \in Nat
      /\ GrantedBy(ip, s) \in Nat
  <2>1. s <= clock - Window /\ clock - Window <= LastTick /\ clock - Window \in Int
    BY <1>1 DEF s
  <2> QED BY <1>1, <2>1, Monotone
<1>4. GrantedBy(ip, s - 1) \in Nat
  <2>1. s - 1 \in Int /\ s - 1 <= s
    BY <1>1
  <2> QED BY <1>1, <2>1, Monotone
<1>5. /\ GrantedBy(ip, s + Window - 1) <= GrantedBy(ip, clock - 1)
      /\ GrantedBy(ip, clock - 1) <= GrantedBy(ip, clock)
      /\ GrantedBy(ip, clock - 1) \in Nat /\ GrantedBy(ip, clock) \in Nat
  <2>1. s + Window - 1 \in Int /\ clock - 1 \in Int /\ s + Window - 1 <= clock - 1
        /\ clock - 1 <= clock /\ clock - 1 <= LastTick
    BY <1>1 DEF s
  <2> QED BY <1>1, <2>1, Monotone
<1>6. GrantedBy(ip, clock) - GrantedBy(ip, clock - Window) < Limit
  BY <1>1, <1>2, <1>3, <1>4, <1>5
<1>7. GrantedBy(ip, clock) = GrantedBy(ip, clock - 1)
  BY <1>2, <1>5
<1> QED BY <1>6, <1>7 DEF Windowless, GrantedWithin

LEMMA OpenKeeps ==
  ASSUME LimiterInv, NEW ip \in IP, Open(ip)
  PROVE  LimiterInv'
<1>1. /\ LimiterTypes /\ AddressInv(ip) /\ Grant(ip) /\ UNCHANGED clock
      /\ seen' = [seen EXCEPT ![ip] = [start |-> clock, count |-> 1]]
  BY DEF LimiterInv, Open
<1>2. /\ clock \in Int /\ 0 <= clock /\ clock <= LastTick /\ clock - 1 \in Int /\ clock - Window \in Int
      /\ Window \in Nat /\ Window > 0 /\ LastTick \in Nat /\ Limit \in Nat /\ Limit > 0
      /\ Counted(ip)
  BY <1>1, LimiterBounds DEF LimiterTypes, AddressInv
<1>3. Windowless(ip)
  <2>1. CASE seen[ip] = Unseen
    BY <1>1, <2>1 DEF AddressInv
  <2>2. CASE seen[ip] # Unseen
    <3>1. seen[ip].start \in Int
      BY <1>1, <2>2, LimiterBounds DEF LimiterTypes, Entry
    <3>2. seen[ip].start + Window <= clock
      BY <1>2, <2>2, <3>1 DEF Open, WindowOver
    <3> QED BY <1>1, <2>2, <3>2, ClosedWindow
  <2> QED BY <2>1, <2>2
<1>4. /\ GrantedBy(ip, clock) \in Nat /\ GrantedBy(ip, clock - 1) \in Nat
      /\ GrantedBy(ip, clock - Window) \in Nat
      /\ GrantedBy(ip, clock) = GrantedBy(ip, clock - 1)
      /\ GrantedBy(ip, clock) - GrantedBy(ip, clock - Window) < Limit
  <2>1. clock - 1 <= clock /\ clock - Window <= clock
    BY <1>2
  <2> QED BY <1>1, <1>2, <1>3, <2>1, Monotone DEF Windowless, GrantedWithin
<1>5. /\ GrantedBy(ip, clock)' = GrantedBy(ip, clock) + 1
      /\ GrantedBy(ip, clock - 1)' = GrantedBy(ip, clock - 1)
      /\ GrantedBy(ip, clock - Window)' = GrantedBy(ip, clock - Window)
      /\ Counted(ip)'
  <2>1. clock - 1 < clock /\ clock - Window < clock
    BY <1>2
  <2>2. Counted(ip)'
    BY <1>1, <1>2, GrantSteps
  <2>3. GrantedBy(ip, clock)' = GrantedBy(ip, clock) + 1
    BY <1>1, <1>2, GrantSteps
  <2> QED BY <1>1, <1>2, <2>1, <2>2, <2>3, GrantSteps
<1>6. seen'[ip] = [start |-> clock, count |-> 1] /\ seen'[ip] \in Entry
      /\ \A other \in IP : other # ip => seen'[other] = seen[other]
  <2>1. clock \in Time
    BY <1>1 DEF LimiterTypes
  <2> QED BY <1>1, <2>1 DEF LimiterTypes, Entry
<1>7. LimiterTypes'
  <2>1. granted' \in [IP -> [Time -> Nat]]
    BY <1>1, <1>2, GrantSteps
  <2> QED BY <1>1, <1>6, <2>1 DEF LimiterTypes
<1>8. Windowed(ip)'
  <2>1. /\ seen'[ip].start = clock /\ seen'[ip].count = 1 /\ clock' = clock
        /\ ~(clock >= clock + Window) /\ clock <= clock
    BY <1>1, <1>2, <1>6
  <2>2. /\ GrantedBy(ip, clock)' - GrantedBy(ip, clock - 1)' <= 1
        /\ GrantedBy(ip, clock)' - GrantedBy(ip, clock - 1)' <= Limit
        /\ GrantedBy(ip, clock - 1)' < GrantedBy(ip, clock)'
        /\ GrantedBy(ip, clock - 1)' - GrantedBy(ip, clock - Window)' < Limit
    BY <1>2, <1>4, <1>5
  <2> QED BY <2>1, <2>2 DEF Windowed
<1>9. \A t \in Time : GrantedWithin(ip, t)' <= 2 * Limit - 1
  <2>1. GrantedWithin(ip, clock) < 2 * Limit - 1 \/ Limit = 1
    BY <1>2, <1>4 DEF GrantedWithin
  <2>2. GrantedWithin(ip, clock) < 2 * Limit - 1
    BY <1>2, <1>3, <1>4 DEF GrantedWithin
  <2> QED BY <1>1, <2>2, GrantWithin
<1>10. AddressInv(ip)'
  BY <1>1, <1>5, <1>6, <1>8, <1>9, LimiterBounds DEF AddressInv, LimiterTypes
<1>11. ASSUME NEW other \in IP, other # ip PROVE AddressInv(other)'
  BY <1>1, <1>2, <1>6, <1>11, GrantSteps, OthersKept DEF LimiterInv
<1> QED BY <1>7, <1>10, <1>11 DEF LimiterInv

LEMMA CountKeeps ==
  ASSUME LimiterInv, NEW ip \in IP, Count(ip)
  PROVE  LimiterInv'
<1>0. PICK s \in Int, c \in Nat : s = seen[ip].start /\ c = seen[ip].count
  BY LimiterBounds DEF LimiterInv, LimiterTypes, Count, WindowOver, Entry
<1>1. /\ LimiterTypes /\ AddressInv(ip) /\ UNCHANGED clock /\ seen[ip] # Unseen
      /\ seen' = [seen EXCEPT ![ip].count = IF @ > Limit THEN @ ELSE @ + 1]
      /\ IF c + 1 <= Limit THEN Grant(ip) ELSE UNCHANGED granted
  BY <1>0 DEF LimiterInv, Count, WindowOver
<1>2. /\ clock \in Int /\ 0 <= clock /\ clock <= LastTick /\ s \in Int /\ 0 <= s /\ s <= clock /\ c \in Nat
      /\ Window \in Nat /\ Window > 0 /\ LastTick \in Nat /\ Limit \in Nat /\ Limit > 0
      /\ Counted(ip) /\ Windowed(ip)
  BY <1>0, <1>1, LimiterBounds DEF LimiterTypes, AddressInv, Entry, Windowed
<1>3. clock < s + Window
  BY <1>0, <1>1, <1>2 DEF Count, WindowOver
<1>4. /\ seen'[ip].start = s /\ seen'[ip].count \in Nat /\ seen'[ip] \in Entry
      /\ seen'[ip].count = IF c > Limit THEN c ELSE c + 1
      /\ \A other \in IP : other # ip => seen'[other] = seen[other]
      /\ seen' \in [IP -> Entry \cup {Unseen}]
  <2>1. seen[ip] \in Entry
    BY <1>1 DEF LimiterTypes
  <2>2. seen'[ip] = [seen[ip] EXCEPT !.count = IF c > Limit THEN c ELSE c + 1]
    BY <1>0, <1>1 DEF LimiterTypes
  <2>3. seen'[ip] \in Entry /\ seen'[ip].start = s
        /\ seen'[ip].count = IF c > Limit THEN c ELSE c + 1
    BY <1>0, <1>2, <2>1, <2>2 DEF Entry
  <2> QED BY <1>1, <1>2, <2>3 DEF LimiterTypes
<1> DEFINE g(t) == GrantedBy(ip, t)
<1>5. /\ g(clock) - g(s - 1) <= c /\ g(clock) - g(s - 1) <= Limit /\ g(s - 1) < g(s)
      /\ g(s - 1) - g(s - Window) < Limit
  BY <1>0, <1>2 DEF Windowed
<1>6. /\ g(clock) \in Nat /\ g(s - 1) \in Nat /\ g(s) \in Nat
      /\ g(s - Window) \in Nat /\ g(clock - Window) \in Nat
      /\ g(s - Window) <= g(clock - Window) /\ g(clock - Window) <= g(s - 1)
  <2>1. /\ s - 1 \in Int /\ s - Window \in Int /\ clock - Window \in Int
        /\ s - Window <= clock - Window /\ clock - Window <= s - 1 /\ s - 1 <= LastTick /\ s - 1 <= clock
        /\ clock - Window <= LastTick /\ s <= LastTick /\ s - 1 <= s
    BY <1>2, <1>3
  <2>2. g(s - Window) <= g(clock - Window) /\ g(s - Window) \in Nat /\ g(clock - Window) \in Nat
    BY <1>1, <1>2, <2>1, Monotone
  <2>3. g(clock - Window) <= g(s - 1) /\ g(s - 1) \in Nat
    BY <1>1, <1>2, <2>1, Monotone
  <2>4. g(s) \in Nat /\ g(clock) \in Nat
    BY <1>1, <1>2, <2>1, Monotone
  <2> QED BY <2>2, <2>3, <2>4
<1>7. CASE c + 1 <= Limit
  <2>1. Grant(ip)
    BY <1>1, <1>7
  <2>2. /\ g(clock)' = g(clock) + 1 /\ g(s - 1)' = g(s - 1) /\ g(s - Window)' = g(s - Window)
        /\ g(s)' = IF s < clock THEN g(s) ELSE g(clock) + 1
        /\ granted' \in [IP -> [Time -> Nat]] /\ Counted(ip)'
        /\ \A other \in IP : other # ip => granted'[other] = granted[other]
    <3>1. /\ s - 1 \in Int /\ s - 1 < clock /\ s - Window \in Int /\ s - Window < clock
          /\ s <= LastTick
      BY <1>2
    <3>2. Counted(ip)' /\ granted' \in [IP -> [Time -> Nat]]
          /\ \A other \in IP : other # ip => granted'[other] = granted[other]
      BY <1>1, <1>2, <2>1, GrantSteps
    <3>3. /\ \A x \in Int : x < clock => GrantedBy(ip, x)' = GrantedBy(ip, x)
          /\ \A x \in Int : clock <= x /\ x <= LastTick => GrantedBy(ip, x)' = GrantedBy(ip, clock) + 1
      BY <1>1, <1>2, <2>1, GrantSteps
    <3> QED BY <1>1, <1>2, <3>1, <3>2, <3>3
  <2>3. Windowed(ip)'
    <3>1. /\ g(clock)' - g(s - 1)' <= c + 1 /\ g(clock)' - g(s - 1)' <= Limit /\ g(s - 1)' < g(s)'
          /\ g(s - 1)' - g(s - Window)' < Limit
      BY <1>2, <1>5, <1>6, <1>7, <2>2
    <3>2. seen'[ip].start = s /\ seen'[ip].count = c + 1 /\ clock' = clock
      BY <1>1, <1>2, <1>4, <1>7
    <3> QED BY <1>2, <1>3, <3>1, <3>2 DEF Windowed
  <2>4. \A t \in Time : GrantedWithin(ip, t)' <= 2 * Limit - 1
    <3>1. GrantedWithin(ip, clock) < 2 * Limit - 1
      BY <1>2, <1>5, <1>6, <1>7 DEF GrantedWithin
    <3> QED BY <1>1, <2>1, <3>1, GrantWithin
  <2>5. AddressInv(ip)'
    BY <1>1, <1>4, <2>2, <2>3, <2>4, LimiterBounds DEF AddressInv, LimiterTypes
  <2>6. ASSUME NEW other \in IP, other # ip PROVE AddressInv(other)'
    BY <1>1, <1>4, <2>2, <2>6, OthersKept DEF LimiterInv
  <2>7. LimiterTypes'
    BY <1>1, <1>4, <2>2 DEF LimiterTypes
  <2> QED BY <2>5, <2>6, <2>7 DEF LimiterInv
<1>8. CASE ~(c + 1 <= Limit)
  <2>1. UNCHANGED <<granted, clock>>
    BY <1>1, <1>8
  <2>2. \A t : GrantedBy(ip, t)' = GrantedBy(ip, t)
    BY <2>1 DEF GrantedBy
  <2>3. Windowed(ip)'
    <3>1. seen'[ip].start = s /\ seen'[ip].count >= c
      BY <1>2, <1>4
    <3>2. g(clock) - g(s - 1) <= seen'[ip].count
      BY <1>2, <1>4, <1>5, <1>6
    <3> QED BY <1>2, <1>3, <1>5, <2>1, <2>2, <3>1, <3>2 DEF Windowed
  <2>4. Counted(ip)' /\ \A t \in Time : GrantedWithin(ip, t)' <= 2 * Limit - 1
    BY <1>1, <2>1, <2>2 DEF AddressInv, Counted, GrantedWithin
  <2>5. AddressInv(ip)'
    BY <1>1, <1>4, <2>3, <2>4, LimiterBounds DEF AddressInv, LimiterTypes
  <2>6. ASSUME NEW other \in IP, other # ip PROVE AddressInv(other)'
    BY <1>1, <1>4, <2>1, <2>6, OthersKept DEF LimiterInv
  <2>7. LimiterTypes'
    BY <1>1, <1>4, <2>1 DEF LimiterTypes
  <2> QED BY <2>5, <2>6, <2>7 DEF LimiterInv
<1> QED BY <1>7, <1>8
LEMMA TickKeeps ==
  ASSUME LimiterInv, TimePasses
  PROVE  LimiterInv'
<1>1. /\ LimiterTypes /\ clock < LastTick /\ clock' = clock + 1 /\ UNCHANGED <<seen, granted>>
      /\ clock \in Int /\ 0 <= clock /\ clock' \in Time
      /\ Window \in Nat /\ Window > 0 /\ LastTick \in Nat /\ Limit \in Nat
  BY LimiterBounds DEF LimiterInv, TimePasses, LimiterTypes
<1>2. LimiterTypes'
  BY <1>1 DEF LimiterTypes
<1>3. ASSUME NEW ip \in IP PROVE AddressInv(ip)'
  <2>1. AddressInv(ip) /\ Counted(ip)
    BY DEF LimiterInv, AddressInv
  <2>2. \A t : GrantedBy(ip, t)' = GrantedBy(ip, t)
    BY <1>1 DEF GrantedBy
  <2>3. /\ GrantedBy(ip, clock + 1) = GrantedBy(ip, clock) /\ GrantedBy(ip, clock) \in Nat
        /\ GrantedBy(ip, clock - Window) <= GrantedBy(ip, clock + 1 - Window)
        /\ GrantedBy(ip, clock - Window) \in Nat /\ GrantedBy(ip, clock + 1 - Window) \in Nat
    <3>1. /\ clock <= clock + 1 /\ clock + 1 <= LastTick /\ clock + 1 \in Int
          /\ clock - Window \in Int /\ clock + 1 - Window \in Int
          /\ clock - Window <= clock + 1 - Window /\ clock + 1 - Window <= LastTick
      BY <1>1
    <3>2. GrantedBy(ip, clock + 1) = GrantedBy(ip, clock) /\ GrantedBy(ip, clock) \in Nat
      BY <1>1, <2>1, <3>1, Monotone
    <3> QED BY <1>1, <2>1, <3>1, <3>2, Monotone
  <2>4. Counted(ip)'
    <3>1. ASSUME NEW t \in Time, t >= clock + 1 PROVE granted[ip][t] = granted[ip][clock + 1]
      <4>1. t >= clock /\ clock + 1 \in Time /\ clock + 1 >= clock
        BY <1>1, <3>1, LimiterBounds
      <4> QED BY <2>1, <4>1 DEF Counted
    <3> QED BY <1>1, <2>1, <3>1 DEF Counted
  <2>5. CASE seen[ip] = Unseen
    <3>1. /\ GrantedBy(ip, clock + 1) - GrantedBy(ip, clock + 1 - Window) < Limit
          /\ clock + 1 - 1 = clock
      BY <1>1, <2>1, <2>3, <2>5 DEF AddressInv, Windowless, GrantedWithin
    <3>2. Windowless(ip)'
      BY <1>1, <2>2, <2>3, <3>1 DEF Windowless, GrantedWithin
    <3>3. \A t \in Time : GrantedWithin(ip, t)' <= 2 * Limit - 1
      BY <2>1, <2>2 DEF AddressInv, GrantedWithin
    <3> QED BY <1>1, <2>4, <2>5, <3>2, <3>3 DEF AddressInv
  <2>6. CASE seen[ip] # Unseen
    <3>1. PICK s \in Int : s = seen[ip].start
      BY <1>1, <2>6, LimiterBounds DEF LimiterTypes, Entry
    <3>2. Windowed(ip) /\ s <= clock
      BY <2>1, <2>6, <3>1 DEF AddressInv, Windowed
    <3>3. clock + 1 >= s + Window => GrantedBy(ip, clock) = GrantedBy(ip, s + Window - 1)
      <4>1. CASE clock >= s + Window
        BY <3>1, <3>2, <4>1 DEF Windowed
      <4>2. CASE clock + 1 = s + Window
        <5>1. s + Window - 1 = clock
          BY <1>1, <3>1, <4>2
        <5> QED BY <5>1
      <4> QED BY <1>1, <3>1, <4>1, <4>2
    <3>4. Windowed(ip)'
      <4>1. s <= clock + 1
        BY <1>1, <3>2
      <4> QED BY <1>1, <2>2, <2>3, <3>1, <3>2, <3>3, <4>1 DEF Windowed
    <3>5. \A t \in Time : GrantedWithin(ip, t)' <= 2 * Limit - 1
      BY <2>1, <2>2 DEF AddressInv, GrantedWithin
    <3> QED BY <1>1, <2>4, <2>6, <3>4, <3>5 DEF AddressInv
  <2> QED BY <2>5, <2>6
<1> QED BY <1>2, <1>3 DEF LimiterInv

\* The sweep drops closed windows only.
LEMMA SweepKeeps ==
  ASSUME LimiterInv, Sweep
  PROVE  LimiterInv'
<1>1. /\ LimiterTypes /\ UNCHANGED <<clock, granted>>
      /\ \A ip \in IP : seen'[ip] = IF Old(ip) THEN Unseen ELSE seen[ip]
  BY DEF LimiterInv, Sweep
<1>2. LimiterTypes'
  BY <1>1 DEF LimiterTypes, Sweep
<1>3. ASSUME NEW ip \in IP, Old(ip) PROVE AddressInv(ip)'
  <2>1. AddressInv(ip) /\ seen[ip] # Unseen /\ seen'[ip] = Unseen
    BY <1>1, <1>3 DEF LimiterInv, Old
  <2>2. seen[ip].start \in Int /\ clock \in Int /\ Window \in Nat
    BY <1>1, <2>1, LimiterBounds DEF LimiterTypes, Entry
  <2>3. Windowless(ip)
    BY <1>1, <1>3, <2>1, <2>2, ClosedWindow DEF Old
  <2>4. \A t : GrantedBy(ip, t)' = GrantedBy(ip, t)
    BY <1>1 DEF GrantedBy
  <2>5. Windowless(ip)' /\ Counted(ip)' /\ \A t \in Time : GrantedWithin(ip, t)' <= 2 * Limit - 1
    BY <1>1, <2>1, <2>3, <2>4 DEF AddressInv, Counted, Windowless, GrantedWithin
  <2> QED BY <2>1, <2>5 DEF AddressInv
<1>4. ASSUME NEW ip \in IP, ~Old(ip) PROVE AddressInv(ip)'
  BY <1>1, <1>4, OthersKept DEF LimiterInv
<1> QED BY <1>2, <1>3, <1>4 DEF LimiterInv

LEMMA InitLimiter == LimiterInit => LimiterInv
<1> SUFFICES ASSUME LimiterInit PROVE LimiterInv
  OBVIOUS
<1>1. LimiterTypes
  BY LimiterBounds DEF LimiterInit, LimiterTypes
<1>2. ASSUME NEW ip \in IP PROVE AddressInv(ip)
  <2>1. \A t \in Time : GrantedBy(ip, t) = 0 /\ GrantedBy(ip, t - Window) = 0
    BY LimiterBounds DEF LimiterInit, GrantedBy
  <2>2. Counted(ip)
    <3>1. (\A t \in Time : granted[ip][t] = 0) /\ clock \in Time
      BY LimiterBounds DEF LimiterInit
    <3> QED BY <3>1 DEF Counted
  <2>3. GrantedBy(ip, clock) = 0 /\ GrantedBy(ip, clock - Window) = 0 /\ GrantedBy(ip, clock - 1) = 0
    BY LimiterBounds DEF LimiterInit, GrantedBy
  <2>4. Windowless(ip)
    BY <2>3, LimiterBounds DEF Windowless, GrantedWithin
  <2>5. \A t \in Time : GrantedWithin(ip, t) <= 2 * Limit - 1
    BY <2>1, LimiterBounds DEF GrantedWithin
  <2>6. seen[ip] = Unseen
    BY DEF LimiterInit
  <2> QED BY <2>2, <2>4, <2>5, <2>6 DEF AddressInv
<1> QED BY <1>1, <1>2 DEF LimiterInv

LEMMA NextLimiter == LimiterInv /\ [LimiterNext]_limiterVars => LimiterInv'
<1>1. ASSUME LimiterInv, UNCHANGED limiterVars PROVE LimiterInv'
  <2>1. LimiterTypes'
    BY <1>1 DEF LimiterInv, LimiterTypes, limiterVars
  <2> QED BY <1>1, <2>1, OthersKept DEF LimiterInv, limiterVars
<1> QED BY <1>1, TickKeeps, SweepKeeps, OpenKeeps, CountKeeps DEF LimiterNext

\* AtMostTwice (rateLimiter.allow and sweep, main.go): a fixed window never
\* lets through twice the limit in an interval of its length.
THEOREM TwiceAtMost == LimiterSpec => []AtMostTwice
<1>1. LimiterInv => AtMostTwice
  BY DEF LimiterInv, AddressInv, AtMostTwice
<1> QED BY InitLimiter, NextLimiter, <1>1, PTL DEF LimiterSpec
=============================================================================
