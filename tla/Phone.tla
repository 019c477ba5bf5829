------------------------------- MODULE Phone -------------------------------
(***************************************************************************)
(* The phone's side of a tunnel: AppState (core/app_state.dart) and the    *)
(* connection part of RelayClient (core/relay_client.dart), driven by the  *)
(* home page, the pairing page and the remote page.                        *)
(*                                                                         *)
(* A step is one event of the Dart isolate with every continuation it runs *)
(* before the next event.  What lies between the events is what the code   *)
(* awaits: the first frame of a tunnel, the answer of /pair, a dialog, the *)
(* end of a page's transition.  A RelayClient is used for one connection;  *)
(* a client that nothing refers to any more is taken again for a new one.  *)
(*                                                                         *)
(* Not modelled: requests over the tunnel, the backoff's length, and a     *)
(* user who opens the pairing page while a card is connecting, or touches  *)
(* the home page within the 300 ms in which the pairing page goes.         *)
(***************************************************************************)
EXTENDS Naturals

CONSTANTS
    Client,    \* RelayClient objects: numbers, the lowest free one is next
    None,
    Lan,       \* the saved connection has a LAN address
    MaxAsked,  \* bound: connections the user asks for in one run of the app
    MaxPairs   \* bound: POSTs of /pair in flight from pairing pages

ASSUME PhoneAssumption ==
    /\ Client \subseteq Nat /\ None \notin Client
    /\ Lan \in BOOLEAN
    /\ MaxAsked \in Nat /\ MaxPairs \in Nat

ASSUME NoneAssumption == None \notin [of : Client, after : SUBSET Client]

VARIABLES
    client,     \* AppState.client
    connected,  \* AppState.connected
    closing,    \* AppState._closing
    timer,      \* _reconnectTimer: the client it is for, the attaches it outlasts
    sock,       \* [Client -> the WebSocket as the phone sees it]
    shut,       \* [Client -> RelayClient._closing]
    attach,     \* [Client -> who awaits its connect()]
    origin,     \* [Client -> the dropped client it is a reconnect of]
    post,       \* how many POSTs of /pair are in flight, by who awaits them
    home,       \* the home page and what it awaits
    over,       \* the page on top of it, or in its place
    mode,       \* what the remote page shows
    proxy,      \* the client of its WebProxy
    seen,       \* its _wasOnline
    leaving,    \* remote pages popped or replaced, not disposed yet
    fading,     \* a pairing page popped or replaced is still mounted
    asked

appVars  == <<client, connected, closing, timer>>
linkVars == <<sock, shut, attach, origin>>
pageVars == <<home, over, mode, proxy, seen>>
vars == <<appVars, linkVars, post, pageVars, leaving, fading, asked>>

\* Who awaits a /pair: the home page's second try with a PIN, and the pairing
\* page, on top ("pair"), going ("fading") or gone ("lost").
Asker == {"repair", "pair", "fading", "lost"}
Pending(p) == post[p] > 0

Waiting(att) == {k \in Client : att[k] # "none"}

Init ==
    /\ client = None /\ connected = FALSE /\ closing = FALSE /\ timer = None
    /\ sock = [k \in Client |-> "unused"]
    /\ shut = [k \in Client |-> FALSE]
    /\ attach = [k \in Client |-> "none"]
    /\ origin = [k \in Client |-> None]
    /\ post = [p \in Asker |-> 0]
    /\ home = "idle" /\ over = "none"
    /\ mode = "none" /\ proxy = None /\ seen = FALSE
    /\ leaving = 0 /\ fading = FALSE
    /\ asked = 0

-----------------------------------------------------------------------------
(* AppState. *)

\* RelayClient.isConnected.
HasChannel(k) == sock[k] \in {"opening", "open"} /\ ~shut[k]

Free(k) ==
    /\ sock[k] \in {"unused", "ended"} /\ attach[k] = "none"
    /\ k \notin {client, proxy}
    /\ timer # None => timer.of # k
    /\ \A j \in Client : attach[j] # "none" => origin[j] # k

Lowest(k) == Free(k) /\ \A j \in Client : Free(j) => k <= j

\* _attach up to its await: the client that was there is not closed.
Attach(k, who, c) ==
    /\ Lowest(k)
    /\ closing' = FALSE
    /\ client' = k
    /\ sock' = [sock EXCEPT ![k] = "opening"]
    /\ shut' = [shut EXCEPT ![k] = FALSE]
    /\ attach' = [attach EXCEPT ![k] = who]
    /\ origin' = [origin EXCEPT ![k] = c]

\* Faulty form of StillActive: nothing is asked.
AnyActive(c) == TRUE

\* The guard of _scheduleReconnect and of its timer.
StillActive(c) == client = c /\ ~closing

\* Faulty form of Scheduled: a failed tunnel is not reconnected.
NotScheduled(c, att, t) == t

\* _scheduleReconnect.  Its timer takes 2 s or more and outlasts every
\* connect() that is awaited now, for these take 600 ms at most.
Scheduled(c, att, t) ==
    IF t = None /\ StillActive(c) THEN [of |-> c, after |-> Waiting(att)] ELSE t

\* notifyListeners, as the remote page hears it.
Notify(page) == seen' = (page = "remote" /\ connected')

TimerFires ==
    /\ timer # None
    /\ timer.after \cap Waiting(attach) = {}
    /\ timer' = None
    /\ IF StillActive(timer.of)
       THEN \E k \in Client : Attach(k, "timer", timer.of)
       ELSE UNCHANGED <<client, closing, linkVars>>
    /\ UNCHANGED <<connected, post, pageVars, leaving, fading, asked>>

\* Every connection that the user asks for.
Ask(k, who) ==
    /\ asked < MaxAsked
    /\ asked' = asked + 1
    /\ Attach(k, who, None)

-----------------------------------------------------------------------------
(* The pages. *)

\* The flows of a pairing page, once it goes and once it is unmounted.
Fade(who) == IF who = "pair" THEN "fading" ELSE who

\* Faulty form of Orphaned: a flow does not ask whether its page is mounted.
StillMounted(who) == who

Orphaned(who) == IF who = "fading" THEN "lost" ELSE who

\* The POSTs in flight when those of `from` become those of `to`.
Moved(from, to) ==
    IF from = to THEN post
    ELSE [post EXCEPT ![from] = 0, ![to] = @ + post[from]]

\* pushReplacementNamed('/remote'): the page on top is replaced, a remote page
\* as well; its State stays mounted until the transition is over.
PushRemote ==
    /\ home' = IF over = "none" THEN "gone" ELSE home
    /\ over' = "remote"
    /\ mode' = "starting"
    /\ proxy' = None
    /\ leaving' = IF over = "remote" THEN leaving + 1 ELSE leaving
    /\ fading' = (fading \/ over = "pair")
    /\ post' = Moved("pair", "fading")

\* A card is tapped: with a LAN address, the LAN is probed meanwhile.
ConnectTo ==
    /\ home = "idle" /\ over = "none" /\ ~fading
    /\ \E k \in Client : Ask(k, "home")
    /\ home' = IF Lan THEN "probing" ELSE "connecting"
    /\ UNCHANGED <<connected, timer, post, over, mode, proxy, seen, leaving, fading>>

\* The LAN answers in time: the remote page opens, and the connect goes on
\* unheard if it still does.
LanWins ==
    /\ home \in {"probing", "met", "failed", "rejected"}
    /\ attach' = [k \in Client |-> IF attach[k] = "home" THEN "lost" ELSE attach[k]]
    /\ PushRemote
    /\ seen' = connected
    /\ UNCHANGED <<appVars, sock, shut, origin, asked>>

\* It does not: the connect is awaited, which may have ended already.  A tunnel
\* that was met and has dropped since is an error, and its reconnect goes on.
LanLoses ==
    \/ /\ home = "met" /\ connected
       /\ PushRemote
       /\ seen' = connected
       /\ UNCHANGED <<appVars, linkVars, asked>>
    \/ /\ \/ home = "met" /\ ~connected /\ home' = "idle"
          \/ home = "probing" /\ home' = "connecting"
          \/ home = "failed" /\ home' = "idle"
          \/ home = "rejected" /\ home' = "asking"
       /\ UNCHANGED <<appVars, linkVars, post, over, mode, proxy, seen, leaving, fading, asked>>

OpenPairing ==
    /\ home = "idle" /\ over = "none" /\ ~fading
    /\ over' = "pair"
    /\ UNCHANGED <<appVars, linkVars, post, home, mode, proxy, seen, leaving, fading, asked>>

\* _submit.  The page reads AppState.busy when it is built and does not listen
\* to it, so its button may be tapped again while a pairing is on its way.
SubmitPairing ==
    /\ over = "pair"
    /\ post["pair"] + post["fading"] + post["lost"] < MaxPairs
    /\ post' = [post EXCEPT !["pair"] = @ + 1]
    /\ UNCHANGED <<appVars, linkVars, pageVars, leaving, fading, asked>>

\* The page is popped, what it started goes on.
ClosePairing ==
    /\ over = "pair" /\ over' = "none"
    /\ fading' = TRUE
    /\ post' = Moved("pair", "fading")
    /\ attach' = [k \in Client |-> Fade(attach[k])]
    /\ UNCHANGED <<appVars, sock, shut, origin, home, mode, proxy, seen, leaving, asked>>

\* The transition is over: a flow of the page finds it unmounted.
Unmount ==
    /\ fading /\ fading' = FALSE
    /\ post' = Moved("fading", Orphaned("fading"))
    /\ attach' = [k \in Client |-> Orphaned(attach[k])]
    /\ UNCHANGED <<appVars, sock, shut, origin, pageVars, leaving, asked>>

\* The dialog that follows a dead token: a PIN, or nothing.
EnterPin ==
    /\ home = "asking"
    /\ \/ home' = "idle" /\ UNCHANGED post
       \/ home' = "repairing" /\ post' = [post EXCEPT !["repair"] = @ + 1]
    /\ UNCHANGED <<appVars, linkVars, over, mode, proxy, seen, leaving, fading, asked>>

\* /pair answers who asked: a token and a new client, or an error.
PairAnswer ==
    \E p \in Asker :
        /\ Pending(p)
        /\ post' = [post EXCEPT ![p] = @ - 1]
        /\ \/ /\ \E k \in Client : Ask(k, p)
              /\ UNCHANGED home
           \/ /\ home' = IF p = "repair" THEN "idle" ELSE home
              /\ UNCHANGED <<client, closing, linkVars, asked>>
        /\ UNCHANGED <<connected, timer, over, mode, proxy, seen, leaving, fading>>

\* _startTunnel: a page that finds no client shows an error.
StartTunnel ==
    /\ mode' = IF client = None THEN "failed" ELSE "tunnel"
    /\ proxy' = client

\* _bootstrap probes the LAN first.
Bootstrap ==
    /\ over = "remote" /\ mode = "starting"
    /\ \/ Lan /\ mode' = "lan" /\ UNCHANGED proxy
       \/ StartTunnel
    /\ UNCHANGED <<appVars, linkVars, post, home, over, seen, leaving, fading, asked>>

\* The page's load fails over the LAN: once, it turns to the tunnel.
LanFails ==
    /\ over = "remote" /\ mode = "lan"
    /\ StartTunnel
    /\ UNCHANGED <<appVars, linkVars, post, home, over, seen, leaving, fading, asked>>

Leave ==
    /\ over = "remote" /\ home # "gone" /\ leaving = 0
    /\ leaving' = 1
    /\ over' = "none" /\ mode' = "none" /\ proxy' = None /\ seen' = FALSE
    /\ UNCHANGED <<appVars, linkVars, post, home, fading, asked>>

\* dispose, when the page's transition is over: AppState.disconnect.
Dispose ==
    /\ leaving > 0 /\ leaving' = leaving - 1
    /\ closing' = TRUE /\ timer' = None
    /\ shut' = IF client = None THEN shut ELSE [shut EXCEPT ![client] = TRUE]
    /\ client' = None
    /\ connected' = FALSE
    /\ Notify(over)
    /\ UNCHANGED <<sock, attach, origin, post, home, over, mode, proxy, fading, asked>>

\* The app is left from its only page, or killed, and started again.
Restart ==
    /\ client' = None /\ connected' = FALSE /\ closing' = FALSE /\ timer' = None
    /\ sock' = [k \in Client |-> "unused"]
    /\ shut' = [k \in Client |-> FALSE]
    /\ attach' = [k \in Client |-> "none"]
    /\ origin' = [k \in Client |-> None]
    /\ post' = [p \in Asker |-> 0]
    /\ home' = "idle" /\ over' = "none"
    /\ mode' = "none" /\ proxy' = None /\ seen' = FALSE
    /\ leaving' = 0 /\ fading' = FALSE
    /\ asked' = 0

-----------------------------------------------------------------------------
(* RelayClient. *)

\* connect() returns: _attach sets connected, whoever the client is by now.
\* A reconnect tells nobody; the user's flows notify in their finally, and
\* a page that is mounted and awaits nothing else opens the remote page.
Connected(k) ==
    LET who == attach[k] IN
    /\ connected' = TRUE
    /\ origin' = [origin EXCEPT ![k] = None]
    /\ \/ /\ who = "timer" \/ who = "lost" \/ (who = "home" /\ home = "probing")
          /\ attach' = [attach EXCEPT ![k] = "none"]
          /\ home' = IF who = "home" THEN "met" ELSE home
          /\ IF who = "timer" THEN UNCHANGED seen ELSE Notify(over)
          /\ UNCHANGED <<post, over, mode, proxy, leaving, fading>>
       \/ /\ who \in {"repair", "pair", "fading"} \/ (who = "home" /\ home = "connecting")
          /\ attach' = [j \in Client |-> IF j = k THEN "none" ELSE Fade(attach[j])]
          /\ PushRemote
          /\ Notify("remote")

\* The first frame; after a close() frames may still arrive.
FirstFrame(k) ==
    /\ sock[k] = "opening"
    /\ sock' = [sock EXCEPT ![k] = "open"]
    /\ IF attach[k] # "none" THEN Connected(k)
       ELSE UNCHANGED <<connected, attach, origin, post, pageVars, leaving, fading>>
    /\ UNCHANGED <<client, closing, timer, shut, asked>>

\* 600 ms without one.
Optimistic(k) ==
    /\ attach[k] # "none"
    /\ Connected(k)
    /\ UNCHANGED <<client, closing, timer, sock, shut, asked>>

\* onError or onDone.  Unless close() was called, onStatus(false) comes first;
\* then an awaited connect() throws into _attach, and from there into the
\* timer's catchError or the page that awaits.
Ends(k, unauthorized) ==
    /\ sock[k] \in (IF unauthorized THEN {"opening"} ELSE {"opening", "open"})
    /\ sock' = [sock EXCEPT ![k] = "ended"]
    /\ attach' = [attach EXCEPT ![k] = "none"]
    /\ origin' = [origin EXCEPT ![k] = None]
    /\ connected' = (connected /\ shut[k] /\ attach[k] = "none")
    /\ LET dropped == IF shut[k] THEN timer ELSE Scheduled(k, attach', timer)
       IN  timer' = IF attach[k] = "timer"
                    THEN Scheduled(origin[k], attach', dropped)
                    ELSE dropped
    /\ home' = CASE attach[k] = "repair" -> "idle"
                 [] attach[k] = "home" /\ home = "probing" ->
                        IF unauthorized THEN "rejected" ELSE "failed"
                 [] attach[k] = "home" /\ home # "probing" ->
                        IF unauthorized THEN "asking" ELSE "idle"
                 [] OTHER -> home
    /\ IF ~shut[k] \/ attach[k] \notin {"none", "timer"}
       THEN Notify(over) ELSE UNCHANGED seen
    /\ UNCHANGED <<client, closing, shut, post, over, mode, proxy, leaving, fading, asked>>

-----------------------------------------------------------------------------
User == ConnectTo \/ OpenPairing \/ SubmitPairing \/ ClosePairing \/ EnterPin
        \/ Leave \/ Restart

Network == PairAnswer \/ LanWins \/ LanLoses \/ LanFails
           \/ \E k \in Client : FirstFrame(k) \/ \E u \in BOOLEAN : Ends(k, u)

App == TimerFires \/ Bootstrap \/ Dispose \/ Unmount \/ \E k \in Client : Optimistic(k)

Next == User \/ Network \/ App

Spec == Init /\ [][Next]_vars

\* Timers fire, a popped page is disposed, and of the attempts that the app
\* makes again and again one is answered: the token is good and the relay is
\* there from time to time.
Fairness ==
    /\ WF_vars(TimerFires) /\ WF_vars(Bootstrap) /\ WF_vars(Dispose)
    /\ WF_vars(\E k \in Client : Optimistic(k))
    /\ SF_vars(\E k \in Client : k = client /\ FirstFrame(k))

FairSpec == Spec /\ Fairness

-----------------------------------------------------------------------------
(* Properties. *)

Flows == {"none", "home", "timer"} \cup Asker

TypeOK ==
    /\ client \in Client \cup {None}
    /\ connected \in BOOLEAN /\ closing \in BOOLEAN
    /\ timer = None \/ timer \in [of : Client, after : SUBSET Client]
    /\ sock \in [Client -> {"unused", "opening", "open", "ended"}]
    /\ shut \in [Client -> BOOLEAN]
    /\ attach \in [Client -> Flows] /\ origin \in [Client -> Client \cup {None}]
    /\ post \in [Asker -> Nat]
    /\ home \in {"idle", "probing", "met", "failed", "rejected", "connecting",
                "asking", "repairing", "gone"}
    /\ over \in {"none", "pair", "remote"}
    /\ mode \in {"none", "starting", "lan", "tunnel", "failed"}
    /\ proxy \in Client \cup {None}
    /\ mode = "tunnel" => proxy # None
    /\ seen \in BOOLEAN /\ leaving \in Nat /\ fading \in BOOLEAN
    /\ asked \in 0..MaxAsked

Awaited(who) == \E k \in Client : attach[k] = who

\* A page that is busy awaits something that will end, and the other way round
\* a flow that would go on in a page finds that page mounted: the cards never
\* stay disabled, and a pairing opens the remote page from its own page only,
\* or within the transition in which that page goes.
FlowsAwaited ==
    /\ home \in {"probing", "connecting"} <=> Awaited("home")
    /\ home = "repairing" <=> Pending("repair") \/ Awaited("repair")
    /\ Pending("pair") \/ Awaited("pair") => over = "pair"
    /\ Pending("fading") \/ Awaited("fading") => fading
    /\ over # "none" \/ fading => home \in {"idle", "gone"}
    /\ over = "remote" <=> mode # "none"
    /\ home = "gone" => over = "remote"

\* The user asks, rather than the timer.
UserAttach == asked' > asked

\* The app makes a new tunnel of its own accord only in place of one that is
\* active and has dropped: a timer or a failed reconnect that comes late
\* neither replaces the tunnel the user has asked for since, nor brings a
\* tunnel back that the user has left.
ReconnectsOnlyDropped ==
    [][client' \notin {client, None} /\ ~UserAttach
         => client # None /\ ~HasChannel(client)]_vars

\* A tunnel that drops comes back, or is left: as long as the user asks for
\* no other while a reconnect is due, for the timer that is armed then keeps
\* _scheduleReconnect from arming one for the new tunnel.
TunnelRecovers ==
    [](timer # None => timer.of = client)
        => ((client # None) ~> (client = None \/ sock[client] = "open"))

\* A remote page whose tunnel came back loads through it and says so, unless
\* the tunnel goes again (the comment in _onStateChanged).
PageRecovers ==
    (mode = "tunnel" /\ client # None /\ sock[client] = "open")
       ~> \/ mode # "tunnel"
          \/ client = None \/ sock[client] # "open"
          \/ proxy = client /\ seen
=============================================================================
