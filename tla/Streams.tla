------------------------------ MODULE Streams ------------------------------
(***************************************************************************)
(* Requests and event streams of one page over the tunnels: RelayClient    *)
(* and WebProxy on the phone, the routing of the relay, the handlers of    *)
(* the bridge (bridge.mjs).  One RelayClient lives from its connection to  *)
(* its drop; the bridge's tunnel comes and goes meanwhile.                 *)
(*                                                                         *)
(* A frame from the bridge is lost from the moment its wire breaks, and so *)
(* is what is on its way to the bridge; each end notices in its own time.  *)
(* Frames of one socket stay in order.  A timer may fire whenever what it  *)
(* waits for has not come.                                                 *)
(*                                                                         *)
(* Not modelled: contents, status codes and ETags of replies, the login at *)
(* dsh, and respond and openSse, which the app does not call.              *)
(***************************************************************************)
EXTENDS Naturals, Sequences, FiniteSets

CONSTANTS
    Safe, Post, Rpc, \* calls: proxied GETs and HEADs, other requests, rpc()
    Path, PathOf,    \* the URL of each GET and HEAD
    Bodiless,        \* the HEADs
    WsStream,        \* streams the bridge mirrors with a WebSocket to dsh
    FetchStream,     \* streams it fetches
    None,
    Parts,           \* bound: parts of one reply
    MaxFrames,       \* bound: frames of one stream
    MaxAsked,        \* bound: calls made and streams opened
    MaxBreaks        \* bound: breaks of the bridge's tunnel

Call   == Safe \cup Post \cup Rpc
Stream == WsStream \cup FetchStream

\* A request over the tunnel: the call it was first made for, and the try.
Request == Call \X {1, 2}

ASSUME StreamsAssumption ==
    /\ Safe \cap Post = {} /\ Safe \cap Rpc = {} /\ Post \cap Rpc = {}
    /\ PathOf \in [Safe -> Path] /\ Bodiless \subseteq Safe
    /\ WsStream \cap FetchStream = {}
    /\ None \notin Call \cup Request
    /\ Parts \in Nat \ {0} /\ MaxFrames \in Nat
    /\ MaxAsked \in Nat /\ MaxBreaks \in Nat

VARIABLES
    up,        \* RelayClient._channel # null
    pwire,     \* frames pass between phone and relay
    call,      \* [Call -> what its caller has: nothing yet, an answer, an error]
    leader,    \* [Call -> the call whose request it waits for]
    inflight,  \* WebProxy._inflight: [Path -> the leader]
    tries,     \* [Call -> requests made for it]
    pending,   \* keys of _pending, _pendingHttp and _httpTransfers
    got,       \* [Request -> parts its _HttpTransfer has seen]
    answer,    \* [Call -> the parts its answer was put together from]
    view,      \* [Stream -> the page's end of it]
    shown,     \* [Stream -> frames handed to the page]
    toBridge,  \* frames the relay has forwarded to the bridge
    toPhone,   \* frames on their way to the phone, through the relay
    relayEnd,  \* the relay holds a tunnel of the bridge
    bridgeEnd, \* the bridge's ws is open
    wire,      \* frames pass between them
    breaks,
    crashed,   \* the bridge process has ended
    handler,   \* [Request -> handleHttp or handleRpc of it]
    size,      \* [Request -> parts of the reply it is sending]
    next,      \* [Request -> the part to send next]
    sseStreams,
    sent       \* [Stream -> frames the bridge has forwarded]

phoneVars   == <<up, call, leader, inflight, tries, pending, got, answer>>
viewVars    == <<view, shown>>
handlerVars == <<handler, size, next>>
streamVars  == <<sseStreams, sent>>
linkVars    == <<relayEnd, bridgeEnd, wire, breaks, crashed>>
bridgeVars  == <<linkVars, handlerVars, streamVars>>
vars == <<phoneVars, viewVars, pwire, toBridge, toPhone, bridgeVars>>

Init ==
    /\ up = TRUE /\ pwire = TRUE
    /\ call = [c \in Call |-> "no"]
    /\ leader = [c \in Call |-> None]
    /\ inflight = [p \in Path |-> None]
    /\ tries = [c \in Call |-> 0]
    /\ pending = {}
    /\ got = [r \in Request |-> {}]
    /\ answer = [c \in Call |-> {}]
    /\ view = [s \in Stream |-> "no"]
    /\ shown = [s \in Stream |-> <<>>]
    /\ toBridge = <<>> /\ toPhone = <<>>
    /\ relayEnd = TRUE /\ bridgeEnd = TRUE /\ wire = TRUE
    /\ breaks = 0 /\ crashed = FALSE
    /\ handler = [r \in Request |-> "none"]
    /\ size = [r \in Request |-> 0]
    /\ next = [r \in Request |-> 0]
    /\ sseStreams = {}
    /\ sent = [s \in Stream |-> 0]

-----------------------------------------------------------------------------
(* Frames. *)

\* Faulty form of IdOf: a retry goes out under the id of the first try.
SameId(r) == <<r[1], 1>>

\* The id that a request carries: a fresh one for each try.
IdOf(r) == r

Asked(r)    == [type |-> IF r[1] \in Rpc THEN "rpc" ELSE "http", run |-> r, id |-> IdOf(r)]
Opened(s)   == [type |-> "open", ch |-> s]
Closed(s)   == [type |-> "close", ch |-> s]

Reply(r, id)      == [type |-> "reply", run |-> r, id |-> id]
Part(r, id, i, n) == [type |-> "part", run |-> r, id |-> id, index |-> i, total |-> n]
Frame(s, n)       == [type |-> "frame", ch |-> s, n |-> n]
Eof(s)            == [type |-> "end", ch |-> s]

ToDevice(f)    == IF pwire THEN Append(toPhone, f) ELSE toPhone
BridgeSends(f) == IF wire THEN ToDevice(f) ELSE toPhone

-----------------------------------------------------------------------------
(* The relay: the device's reader loop.  What the host sends is routed back *)
(* by its channel, in BridgeSends.  A frame that waits to be read waits in  *)
(* the queue it will be put in.                                             *)

Forwards == {"rpc", "http", "open"}

\* A request that finds no host is answered here; an sse-open gets an
\* rpc-reply that matches nothing.
Route(f) ==
    /\ toBridge' = IF f.type \in Forwards /\ pwire /\ relayEnd /\ wire
                   THEN Append(toBridge, f) ELSE toBridge
    /\ toPhone' = IF f.type \in {"rpc", "http"} /\ ~relayEnd
                  THEN ToDevice(Reply(None, f.id)) ELSE toPhone

-----------------------------------------------------------------------------
(* Calls of the page and of the app. *)

MayAsk == Cardinality({c \in Call : call[c] # "no"})
            + Cardinality({s \in Stream : view[s] # "no"}) < MaxAsked

\* client.http or client.rpc as the leader's n-th request.
Issue(c, n) ==
    /\ pending' = pending \cup {IdOf(<<c, n>>)}
    /\ Route(Asked(<<c, n>>))
    /\ tries' = [tries EXCEPT ![c] = n]
    /\ call' = [call EXCEPT ![c] = "waiting"]

\* _requireChannel throws, for the retry as well.
NoChannel(c) ==
    /\ ~up
    /\ call' = [call EXCEPT ![c] = "failed"]
    /\ UNCHANGED <<leader, inflight, tries, pending, toBridge, toPhone>>

Lead(c) ==
    /\ up /\ Issue(c, 1)
    /\ leader' = [leader EXCEPT ![c] = c]

Shared(c) == inflight[PathOf[c]] # None

\* _tunnel of a GET or HEAD: join whatever is in flight for the URL, be it of the
\* other method or with other headers, or make a request.
Join(c) ==
    /\ Shared(c)
    /\ call' = [call EXCEPT ![c] = "waiting"]
    /\ leader' = [leader EXCEPT ![c] = inflight[PathOf[c]]]
    /\ UNCHANGED <<inflight, tries, pending, toBridge, toPhone>>

TunnelSafe(c) ==
    /\ c \in Safe /\ call[c] = "no" /\ MayAsk
    /\ \/ Join(c)
       \/ /\ ~Shared(c)
          /\ \/ NoChannel(c)
             \/ /\ Lead(c)
                /\ inflight' = [inflight EXCEPT ![PathOf[c]] = c]
    /\ UNCHANGED <<up, got, answer, viewVars, pwire, bridgeVars>>

\* Other methods and rpc(): no sharing, no retry.
CallOnce(c) ==
    /\ c \in Post \cup Rpc /\ call[c] = "no" /\ MayAsk
    /\ NoChannel(c) \/ (Lead(c) /\ UNCHANGED inflight)
    /\ UNCHANGED <<up, got, answer, viewVars, pwire, bridgeVars>>

\* The future of a request completes: so do those who share it.
Settle(id, outcome, parts) ==
    LET c == id[1] IN
    /\ pending' = pending \ {id}
    /\ got' = [got EXCEPT ![id] = {}]
    /\ call' = [d \in Call |-> IF leader[d] = c THEN outcome ELSE call[d]]
    /\ answer' = [d \in Call |-> IF leader[d] = c THEN parts ELSE answer[d]]
    /\ inflight' = [p \in Path |-> IF inflight[p] = c THEN None ELSE inflight[p]]
    /\ UNCHANGED tries

\* _issueWithRetry: the second request is another one, with an id of its own.
Retry(id) ==
    LET again == <<id[1], tries[id[1]] + 1>> IN
    /\ pending' = (pending \ {id}) \cup {IdOf(again)}
    /\ got' = [got EXCEPT ![id] = {}]
    /\ Route(Asked(again))
    /\ tries' = [tries EXCEPT ![id[1]] = @ + 1]
    /\ UNCHANGED <<call, answer, inflight>>

Retries(c) == c \in Safe /\ tries[c] = 1

\* 20 s of an rpc, or of a transfer that no part has come for.
RequestTimeout(id) ==
    /\ id \in pending
    /\ IF Retries(id[1]) THEN Retry(id)
       ELSE Settle(id, "failed", {}) /\ UNCHANGED <<toBridge, toPhone>>
    /\ UNCHANGED <<up, leader, viewVars, pwire, bridgeVars>>

-----------------------------------------------------------------------------
(* Streams of the page. *)

\* The page has its 200 or its WebSocket before openSseRaw is called.  Where that
\* throws, nothing ends the page's stream, or listens for its end.
OpenStream(s) ==
    /\ view[s] = "no" /\ MayAsk
    /\ view' = [view EXCEPT ![s] = IF up THEN "open" ELSE "hung"]
    /\ IF up THEN Route(Opened(s)) ELSE UNCHANGED <<toBridge, toPhone>>
    /\ UNCHANGED <<phoneVars, shown, pwire, bridgeVars>>

\* The page's end is done, on its own or because it was told: closeSse, for one
\* that the client knows.
LeaveStream(s) ==
    /\ view[s] \in {"open", "told", "hung"}
    /\ view' = [view EXCEPT ![s] = "left"]
    /\ IF up THEN Route(Closed(s)) ELSE UNCHANGED <<toBridge, toPhone>>
    /\ UNCHANGED <<phoneVars, shown, pwire, bridgeVars>>

-----------------------------------------------------------------------------
(* RelayClient._onMessage and _disconnect. *)

\* Faulty form of OnReply: a late reply is taken like any other.
OnReplyLate(f) == Settle(f.id, "answered", {<<f.run, 0, 1>>})

\* A reply in one frame, from the bridge or an error of the relay's own.
OnReply(f) ==
    IF f.id \in pending
    THEN Settle(f.id, "answered", {<<f.run, 0, 1>>})
    ELSE UNCHANGED <<call, inflight, tries, pending, got, answer>>

\* _HttpTransfer.accept: complete when all the parts it knows of are in.
Accept(f) ==
    LET seen  == {x[2] : x \in got[f.id]}
        parts == got[f.id] \cup {<<f.run, f.index, f.total>>}
    IN  IF f.id \notin pending \/ f.index \in seen
        THEN UNCHANGED <<call, inflight, tries, pending, got, answer>>
        ELSE IF seen \cup {f.index} = 0 .. f.total - 1
        THEN Settle(f.id, "answered", parts)
        ELSE /\ got' = [got EXCEPT ![f.id] = parts]
             /\ UNCHANGED <<call, inflight, tries, pending, answer>>

PhoneReceive ==
    /\ up /\ toPhone # <<>>
    /\ toPhone' = Tail(toPhone)
    /\ LET f == Head(toPhone) IN
       \/ f.type = "reply" /\ OnReply(f) /\ UNCHANGED viewVars
       \/ f.type = "part" /\ Accept(f) /\ UNCHANGED viewVars
       \/ /\ f.type = "frame"
          /\ shown' = IF view[f.ch] = "open"
                      THEN [shown EXCEPT ![f.ch] = Append(@, f.n)] ELSE shown
          /\ UNCHANGED <<call, inflight, tries, pending, got, answer, view>>
       \/ /\ f.type = "end"
          /\ view' = IF view[f.ch] = "open" THEN [view EXCEPT ![f.ch] = "told"] ELSE view
          /\ UNCHANGED <<call, inflight, tries, pending, got, answer, shown>>
    /\ UNCHANGED <<up, leader, pwire, toBridge, bridgeVars>>

PhoneBreak ==
    /\ pwire /\ pwire' = FALSE
    /\ toPhone' = <<>>
    /\ UNCHANGED <<phoneVars, viewVars, toBridge, bridgeVars>>

\* Faulty form of FailedCalls: those who share a request are not told.
FailedLeaders ==
    [c \in Call |-> IF call[c] = "waiting" /\ leader[c] = c THEN "failed" ELSE call[c]]

FailedCalls == [c \in Call |-> IF call[c] = "waiting" THEN "failed" ELSE call[c]]

\* _disconnect: what is pending fails, and a retry finds no channel.  The
\* closers of the streams are not called.
PhoneDrop ==
    /\ up /\ ~pwire /\ up' = FALSE
    /\ pending' = {}
    /\ got' = [r \in Request |-> {}]
    /\ call' = FailedCalls
    /\ inflight' = [p \in Path |-> None]
    /\ UNCHANGED <<leader, tries, answer, viewVars, pwire, toBridge, toPhone, bridgeVars>>

-----------------------------------------------------------------------------
(* The bridge. *)

\* ws.onmessage: the handler runs up to its first await.
BridgeReceive ==
    /\ toBridge # <<>> /\ bridgeEnd
    /\ toBridge' = Tail(toBridge)
    /\ LET f == Head(toBridge) IN
       /\ handler' = IF f.type \in {"rpc", "http"}
                     THEN [handler EXCEPT ![f.run] = "fetching"] ELSE handler
       /\ sseStreams' = CASE f.type = "open"  -> sseStreams \cup {f.ch}
                          [] f.type = "close" -> sseStreams \ {f.ch}
                          [] OTHER -> sseStreams
    /\ UNCHANGED <<phoneVars, viewVars, pwire, toPhone, linkVars, size, next, sent>>

\* The loop of handleHttp, from part i on: the next await is in waitDrain.
SendPart(r, i, n) ==
    LET more == bridgeEnd /\ i < n - 1 IN
    /\ toPhone' = BridgeSends(Part(r, IdOf(r), i, n))
    /\ handler' = [handler EXCEPT ![r] = IF more THEN "sending" ELSE "over"]
    /\ size' = [size EXCEPT ![r] = IF more THEN n ELSE 0]
    /\ next' = [next EXCEPT ![r] = IF more THEN i + 1 ELSE 0]

\* How many parts a reply may have: one frame carries that of a HEAD.
Bodies(r) == IF r[1] \in Bodiless THEN {1} ELSE 1 .. Parts

\* dsh has answered, or failed, or not answered for 20 s.
Fetched(r) ==
    /\ handler[r] = "fetching"
    /\ \/ r[1] \notin Rpc /\ \E n \in Bodies(r) : SendPart(r, 0, n)
       \/ /\ r[1] \in Rpc
          /\ toPhone' = BridgeSends(Reply(r, IdOf(r)))
          /\ handler' = [handler EXCEPT ![r] = "over"]
          /\ UNCHANGED <<size, next>>
    /\ UNCHANGED <<phoneVars, viewVars, pwire, toBridge, linkVars, streamVars>>

Drained(r) ==
    /\ handler[r] = "sending"
    /\ SendPart(r, next[r], size[r])
    /\ UNCHANGED <<phoneVars, viewVars, pwire, toBridge, linkVars, streamVars>>

ForwardFrame(s) ==
    /\ s \in sseStreams /\ sent[s] < MaxFrames
    /\ sent' = [sent EXCEPT ![s] = @ + 1]
    /\ toPhone' = BridgeSends(Frame(s, sent[s] + 1))
    /\ UNCHANGED <<phoneVars, viewVars, pwire, toBridge, linkVars, handlerVars, sseStreams>>

\* dsh ends the stream or refuses it.
StreamEnds(s) ==
    /\ s \in sseStreams
    /\ sseStreams' = sseStreams \ {s}
    /\ toPhone' = BridgeSends(Eof(s))
    /\ UNCHANGED <<phoneVars, viewVars, pwire, toBridge, linkVars, handlerVars, sent>>

-----------------------------------------------------------------------------
(* The bridge's tunnel. *)

Break ==
    /\ wire /\ breaks < MaxBreaks
    /\ wire' = FALSE /\ breaks' = breaks + 1
    /\ toBridge' = <<>>
    /\ UNCHANGED <<phoneVars, viewVars, pwire, toPhone, relayEnd, bridgeEnd,
                   crashed, handlerVars, streamVars>>

RelayNotices ==
    /\ relayEnd /\ ~wire /\ relayEnd' = FALSE
    /\ UNCHANGED <<phoneVars, viewVars, pwire, toBridge, toPhone, bridgeEnd, wire,
                   breaks, crashed, handlerVars, streamVars>>

\* Faulty form of Aborted: streams that are fetched go on.
AbortedSockets == sseStreams \cap WsStream

Aborted == sseStreams

\* ws.onclose aborts the streams, silently.  A WebSocket has no abort(), and
\* the TypeError ends the process with all that runs in it.
BridgeClosed ==
    /\ bridgeEnd /\ ~wire /\ bridgeEnd' = FALSE
    /\ sseStreams' = sseStreams \ Aborted
    /\ crashed' = (sseStreams \cap WsStream # {})
    /\ IF crashed'
       THEN /\ handler' = [r \in Request |-> IF handler[r] = "none" THEN "none" ELSE "over"]
            /\ size' = [r \in Request |-> 0] /\ next' = [r \in Request |-> 0]
       ELSE UNCHANGED handlerVars
    /\ UNCHANGED <<phoneVars, viewVars, pwire, toBridge, toPhone, relayEnd, wire, breaks,
                   sent>>

BridgeStarts ==
    /\ crashed /\ crashed' = FALSE
    /\ UNCHANGED <<phoneVars, viewVars, pwire, toBridge, toPhone, relayEnd, bridgeEnd, wire,
                   breaks, handlerVars, streamVars>>

\* A tunnel the relay still holds is taken over.
BridgeConnects ==
    /\ ~bridgeEnd /\ ~crashed
    /\ relayEnd' = TRUE /\ bridgeEnd' = TRUE /\ wire' = TRUE
    /\ UNCHANGED <<phoneVars, viewVars, pwire, toBridge, toPhone, breaks, crashed,
                   handlerVars, streamVars>>

-----------------------------------------------------------------------------
Next ==
    \/ \E c \in Call : TunnelSafe(c) \/ CallOnce(c)
    \/ \E id \in Request : RequestTimeout(id)
    \/ \E s \in Stream : OpenStream(s) \/ LeaveStream(s) \/ ForwardFrame(s) \/ StreamEnds(s)
    \/ PhoneReceive \/ PhoneBreak \/ PhoneDrop
    \/ BridgeReceive
    \/ \E r \in Request : Fetched(r) \/ Drained(r)
    \/ Break \/ RelayNotices \/ BridgeClosed \/ BridgeStarts \/ BridgeConnects

Spec == Init /\ [][Next]_vars

-----------------------------------------------------------------------------
Requests == [type : {"rpc", "http"}, run : Request, id : Request]
OpenClose == [type : {"open", "close"}, ch : Stream]
Replies  == [type : {"reply"}, run : Request \cup {None}, id : Request]
PartsOf  == [type : {"part"}, run : Request, id : Request, index : Nat, total : Nat]
Frames   == [type : {"frame"}, ch : Stream, n : Nat]
Eofs     == [type : {"end"}, ch : Stream]
Piece    == (Request \cup {None}) \X Nat \X Nat

PhoneTypes ==
    /\ up \in BOOLEAN
    /\ call \in [Call -> {"no", "waiting", "answered", "failed"}]
    /\ leader \in [Call -> Call \cup {None}]
    /\ inflight \in [Path -> Safe \cup {None}]
    /\ tries \in [Call -> 0 .. 2]
    /\ pending \subseteq Request
    /\ got \in [Request -> SUBSET Piece]
    /\ answer \in [Call -> SUBSET Piece]

WireTypes ==
    /\ pwire \in BOOLEAN
    /\ toBridge \in Seq(Requests \cup OpenClose)
    /\ toPhone \in Seq(Replies \cup PartsOf \cup Frames \cup Eofs)

ViewTypes ==
    /\ view \in [Stream -> {"no", "open", "hung", "told", "left"}]
    /\ shown \in [Stream -> Seq(Nat)]

BridgeTypes ==
    /\ relayEnd \in BOOLEAN /\ bridgeEnd \in BOOLEAN /\ wire \in BOOLEAN /\ crashed \in BOOLEAN
    /\ breaks \in Nat
    /\ handler \in [Request -> {"none", "fetching", "sending", "over"}]
    /\ size \in [Request -> Nat] /\ next \in [Request -> Nat]
    /\ sseStreams \subseteq Stream
    /\ sent \in [Stream -> Nat]

\* The types of the state of phone, wires and bridge.
TypeOK == PhoneTypes /\ WireTypes /\ ViewTypes /\ BridgeTypes

\* Whoever waits for a reply waits for a request that is pending and will be
\* answered, time out or be dropped with the client (relay_client.dart:265,
\* web_proxy.dart:254): no caller is forgotten when a shared request is
\* retried, its proxy closed or the socket lost, and nothing is pending on a
\* client that has dropped.
CallsAwaited ==
    /\ \A c \in Call : call[c] = "waiting" =>
          \E id \in pending : id[1] = leader[c] /\ id[2] = tries[leader[c]]
    /\ \A id \in pending : up /\ call[id[1]] = "waiting" /\ leader[id[1]] = id[1]

\* Two GETs or HEADs for one URL are never in flight together (web_proxy.dart:
\* 254): a page that loads many times the same URL makes one round trip.
OneFlightPerPath ==
    \A x, y \in pending :
        x[1] \in Safe /\ y[1] \in Safe /\ PathOf[x[1]] = PathOf[y[1]] => x = y

\* An answer is the whole of one reply to a request made for that call, or
\* the relay's error: parts of the first try never end up in the second's
\* answer, whatever tunnels the parts have come through (relay_client.dart:
\* 391, bridge.mjs:446).
AnswersWhole ==
    \A c \in Call : call[c] = "answered" =>
        \/ answer[c] = {<<None, 0, 1>>}
        \/ \E x \in answer[c] :
              /\ x[1] \in {leader[c]} \X {1, 2}
              /\ answer[c] = {<<x[1], i, x[3]>> : i \in 0 .. x[3] - 1}

\* A stream of the page shows what the bridge forwarded from its start with
\* no gap, and all of it once the page is told of the end, though tunnels
\* break and come back (bridge.mjs:337, protocol document section 3.1).
StreamsWhole ==
    \A s \in Stream :
        /\ shown[s] = [i \in 1 .. Len(shown[s]) |-> i]
        /\ view[s] = "told" => Len(shown[s]) = sent[s]
-----------------------------------------------------------------------------
\* Calls that share a flight: the key is the URL, whatever the method and headers.
SameKey(c, d) == c = d \/ (c \in Safe /\ d \in Safe /\ PathOf[c] = PathOf[d])

\* Parts that may be an answer to c: the relay's error, or all of one reply to a
\* request made for it or for a call with the same key.
ReplyTo(c, parts) ==
    \/ parts = {<<None, 0, 1>>}
    \/ \E x \in parts :
          /\ x[1] \in {d \in Call : SameKey(c, d)} \X {1, 2}
          /\ parts = {<<x[1], i, x[3]>> : i \in 0 .. x[3] - 1}

Promise == INSTANCE PageTunnel WITH
    connected <- up, Nothing <- {}, IsReply <- ReplyTo

\* The page and the app have what PageTunnel promises: no call is answered twice
\* or after it failed, no late reply changes an answer, and those who share a
\* flight get one reply to the request of the call that made it, though that may
\* be a HEAD's, with no body, for a GET (web_proxy.dart:254, relay_client.dart:
\* 145); streams as above, frame by frame.
PagePromise == Promise!Spec
=============================================================================
