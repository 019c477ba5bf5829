# DeepSeek Harness Desktop: verification development

DeepSeek Harness Desktop puts a native window around `dsh web` (an external npm
package) on Linux, Windows and macOS, and lets a phone use the same `dsh` from
anywhere: a **bridge** (node) on the desktop keeps a tunnel to a **relay** (Go),
the phone's **app** (Flutter) pairs with the host by PIN and keeps a tunnel of
its own, and the relay routes frames between the two.

    WebView page -> WebProxy -> RelayClient ==ws==> relay <==ws== bridge -> dsh web
        (phone app)                              (hub, store)     (desktop)    ^
                                                      desktop shell -----------+
                                                      (starts dsh and bridge)

The specifications here cover the part of that chain where steps of several
actors interleave and connections come and go. All line numbers are those of
the repository; `PROJECT.json` maps every definition to the lines it models.

## 1. Inventory

| component | state | operations | talks to | what is hard |
|---|---|---|---|---|
| relay hub, `mobile/relay/main.go` | `hostConns`, `deviceConns`, `channels`; a bounded send channel per tunnel | attach/detach host and device, lookup and send, bind channel, pump, reader loop, `/revoke` | store; both kinds of tunnels | one handler and one pump goroutine per tunnel, a lookup under `hub.mu` used after the unlock, a channel closed by somebody else, panics |
| relay store, `store/store.go` | hosts, tokens, devices, sessions, refresh tokens | register, pair, refresh, revoke, touch, GC | hub handlers | two counters of wrong PINs and a lock against ticket lifetimes, five tables that describe one relation, GC over all of them |
| rate limiter, `main.go` | window start and count per IP | allow, sweep | `/pair`, register | boundary of two windows, the sweep |
| bridge link, `bridge.mjs` | socket, `lastSeen`, backoff, `sseStreams` | connect, onopen, onclose, watchdog, register | relay | four timers on two machines, half-open connections, refused reconnects |
| bridge requests, `bridge.mjs` | streams, mux sockets, dsh cookie | rpc, http, sse open/close, respond, LAN proxy | dsh, relay | awaits between parts of a reply, a tunnel that changes meanwhile |
| phone connections, `app_state.dart`, `relay_client.dart`, `pages/` | active client, `connected`, reconnect timer, the pages' flows | connect, reconnect, pair, re-pair, disconnect, dispose | relay | every `await` may continue in another world: page gone, client replaced, user elsewhere |
| app requests, `relay_client.dart` | pending rpcs, transfers, SSE channels | rpc, http, openSse, respond | relay | replies in parts, timeouts, disconnect with everything open |
| web proxy and disk cache | in-flight map, LRU index, blobs | get, put, evict, clear | requests | asynchronous file writes behind a published index |
| Linux shell, `linux/src/main_window.cpp`, `server_manager.cpp` | dsh process, its log, poll timers, bridge process, register timers | start, poll, stop, restart, install node, remote connect | dsh, bridge, npm | nested loops, timers and children of an earlier start |
| Windows shell, `windows/src/` | the globals of `ServerManager`, threads, posted messages, modal boxes, job objects, bridge | the same, with a thread per start or update | dsh, bridge, npm | threads that share globals without a lock, messages and timers of an earlier start |
| plugin dialogs, `plugins_manager.cpp` and `json.cpp` of both shells | `package.json`, the market file, the lists on the screen, worker threads | list, enable, disable, install, uninstall, search, reload | `dsh plugin`, the market server | a dialog closed under its worker, a read-modify-write against another process's, a parser that scans |
| macOS shell | as the Linux shell | as the Linux shell | dsh, bridge | as the Linux shell |

What makes each correct:

- **hub**: frames go only to the host (or the paired devices) they are for, as far
  as the keys that route them tell hosts apart; the
  tables hold tunnels that exist; a kicked tunnel ends; a host whose tunnel is
  up is online; a revoked device loses its tunnel.
- **store**: the tables agree; a device has one session and a session one
  refresh token; a spent ticket is never compared with a PIN again; nothing
  lifts a lock; a refresh token lives as long as documented.
- **limiter**: a bound on what any interval of a window's length lets through.
- **bridge link**: a silent link is closed, a live one is not cut, a bridge that
  lost its tunnel does not wait for long; once the network stays up the tunnel
  should come back and stay, and does not always.
- **phone**: no page waits for nothing, the app reconnects by itself only what
  was dropped, a dropped tunnel comes back, a page follows its tunnel.
- **Linux shell**: one server at a time and none after the window, every start is
  judged by some timer, a bridge that does not register is stopped.
- **Windows shell**: a server that lives is the one the shell holds, so that it can
  be killed; until a verdict has been acted on somebody still owes one, and it comes; a
  bridge that has not registered is under its timer.
- **plugins**: a change of the profile is one bundle and nothing else, whatever the
  layout of the file; no change is lost between the dialog and `dsh plugin`; the
  lists show what the shell reads in the file as it is; a dialog's memory lives as long as its threads.
- **requests**: nobody waits for nothing, an answer is the whole of one reply,
  a stream has no gaps; (planned) the cache never serves a body under another
  body's ETag.

`PROJECT.json` lists the hazards with their lines; those without a property say
why.

## 2. Modules

| module | what it is | proofs |
|---|---|---|
| `RelayHub` | the hub: handlers, pumps, revokers | `RelayHubProofs` |
| `RelayStore` | the store's methods in time | `RelayStoreProofs` |
| `Credentials` | abstract: who a session token authenticates; `RelayStore` implements it (`C == INSTANCE Credentials`, `holder` is the refinement mapping) | in `RelayStoreProofs` |
| `RateLimiter` | the fixed-window limiter in time | `TimerProofs` |
| `BridgeLink` | bridge and relay as far as their timers face each other | `TimerProofs` |
| `Phone` | AppState, RelayClient's connection, the pages' flows | `PhoneProofs` |
| `Streams` | requests and event streams of a page, through the relay, to the bridge's handlers | `StreamsProofs` |
| `PageTunnel` | abstract: what a page and the app are promised of calls and streams; `Streams` implements it (`Promise == INSTANCE PageTunnel WITH connected <- up, ...`) | in `StreamsProofs` |
| `LinuxShell` | the GTK shell: dsh process, polling, node installation, bridge process | `LinuxShellProofs` |
| `WindowsShell` | the Win32 shell: UI thread, worker threads, `ServerManager`, bridge | `WindowsShellProofs` |
| `PluginDialog` | what both plugin dialogs share: dialogs, workers, the file, the lists | in `PluginsProofs` |
| `LinuxPlugins`, `WindowsPlugins` | the dialogs of each shell as they differ | in `PluginsProofs` |
| `JsonText`, `LinuxJson`, `WindowsJson` | JSON as a text of tokens; the parser of one shell, the scanner of the other (recursive functions) | in `PluginsProofs`, the scanner |
| `PluginMarket` | the market list of both shells: loading, matching, ids | - |
| `PluginProfile` | abstract: what the dialogs promise about the profile; `Plugins` implements it (`Promise == INSTANCE PluginProfile WITH profile <- profile.now, ...`) | in `PluginsProofs` |
| `Plugins` | both dialogs, composed; the properties | `PluginsProofs` |
| `MC*` | instances: symmetry sets, functions and texts that a cfg cannot write | - |

`Faulty form of ...` definitions are not part of any specification: each is the
definition below it with a plausible bug, and shows that the property it is
paired with in `PROJECT.json` would notice.

### RelayHub

A step is one critical section of `hub.mu`, or one thing a goroutine does
outside of it. `channels` is one flat table: its keys are `hostID + "/" + channel`
(main.go:216, 223), and `KeyOf` says which key a host and a channel make. Nothing is
assumed of it, for a hostId may hold a slash (store.go:117-130 does not look), so
that two hosts may share a key. A handler's `pc` is its place in `handleHost` or `handleDevice`:
`check` and `attach` are two steps because the code takes the mutex twice
(main.go:569-575); `online` is `SetHostOnline`, which runs after the unlock;
`lookup` and `send` are two steps because `toDevice`/`toHost` return the
connection and the sender uses it later (`ref`). `open` is "c.send is not
closed"; a send on a closed channel is a panic that net/http recovers, so the
handler goes to its deferred detach. `hubLocked` is the mutex that a panic
inside `/revoke` leaves locked (main.go:468-472 has no defer): from then on no
action that needs the mutex is enabled. A slot of a finished tunnel is recycled
when no goroutine refers to it, so runs are unbounded in time. A frame is who
it comes from.

### RelayStore and Credentials

Each method holds the store's mutex, so each is one action; time is a counter.
PINs are right or wrong, generated tickets are always distinct, and tokens are
model values that are reused once no table holds them. `Credentials` is what
the store promises of tokens alone.

### RateLimiter

`seen` is the map of windows; `granted` is a history variable that counts what
was let through by each instant (by those to come, as much as now), so that what an
interval let through is a difference.

### BridgeLink

One tick is 7.5 s. `link` is the bridge's socket, `relay` says whose
tunnel the relay holds for the host: `this`, or an `old` one that the bridge has
lost already. `age`, `up`, `wd`, `timer` are the bridge's clocks, `idle`,
`quiet`, `tick` the relay's. Constants keep their proportions (45/15/30/45/90 s);
the backoff is capped at two ticks. A tunnel comes up in one of two ways. A bridge with a
token that the relay knows is attached when its socket opens, and hears nothing
(`Accept`). Any other one has to register first: the relay asks for it
(`unknown-host`) or not, the bridge sends it, the relay attaches the tunnel and replies
(`Hello`, `Ask`, `Register`, `Registered`; `reg` is how far that is, and any frame of it
may be lost with the wire or come too late). `away` is a history variable: how long
the bridge has waited without a tunnel over a network that is up. `DeadlineAssumption` says what the relay's read
deadline relies on: silence limit and ping period together (45 + 30 s) are less
than it (90 s).

### Phone

A step is one event of the isolate with its continuations up to the next await.
`attach[k]` is who awaits `connect()` of client `k`: a card, the pairing page, a
re-pairing, the reconnect timer, or a flow whose page is going (`fading`) or gone
(`lost`). `post` counts the POSTs of `/pair` in flight by who awaits them: the pairing
page reads `busy` only when it is built, so a second tap starts a second flow, and two
flows of one page may end in any order (`MaxPairs` bounds them). A page that is popped
or replaced stays mounted for its transition (`fading`, `leaving`), in which its flows
go on as if it were there. `home` says where the card's flow is: with a LAN
address the probe is awaited first (`probing`), and the connect may end
meanwhile (`met`, `failed`, `rejected`). The
timer remembers the client it is for and which awaits it outlasts (it takes
2 s or more, an optimistic connect 600 ms). `connected` is set after the await
whoever the client is by then, as in app_state.dart:234. `proxy` is the client
that the page's WebProxy was made with. Left out: removing a saved connection,
a user who opens the pairing page while a card is still connecting, and taps on the home
page within the 300 ms in which the pairing page goes.

### Streams

One `RelayClient` from its connection to its drop, and the bridge's tunnel, which
breaks (`wire`), is noticed by each end in its own time (`relayEnd`,
`bridgeEnd`) and is opened again. A request is `<<c, n>>`: the n-th try for call
`c`. GETs and HEADs (`Safe`) share a flight if they are for one URL, for the key of
`_inflight` has neither method nor headers (web_proxy.dart:256-262); a HEAD's reply
has no body (`Bodiless`). A stream that is opened without a tunnel hangs: the response
has begun, and the throw after that reaches nobody (`view = "hung"`,
web_proxy.dart:423). `leader[c]` is the call whose request `c` waits for, `inflight` is
WebProxy's map; `answer[c]` is what `c` was given, so callers that shared a request can
be told apart later. Frames wait in two FIFO queues; the relay routes what the phone
sends at once, for what it forwards waits in `toBridge` and what it answers in
`toPhone`. A frame on its way to the bridge dies with the wire, a frame from the
bridge is lost from then on: a frame that is lost in transit is one sent a
little later. `handler` is where `handleHttp` or `handleRpc` is: `fetching` and
`sending` are its awaits, and in both the tunnel may become another one. A
stream is in `sseStreams` as long as it runs. Timers fire whenever what they
wait for is missing, so their lengths do not matter. A WebSocket in `sseStreams`
ends the bridge process when the tunnel closes (bridge.mjs:337, `crashed`).
Left out: a channel binding that the late detach of an earlier device tunnel
drops (a step of `RelayHub`), `WebProxy.close`.

`PageTunnel` says the same without tries, parts, frames, queues, the relay or the
bridge: a call has one outcome, and an answer is the whole of one reply to the request it shared;
a stream is shown frame by frame in order, and its end is told when nothing is lacking; when
the tunnel is cut whoever waits fails at once and nothing comes any more. A step
of `Streams` is one of its steps or changes nothing of it: a retry, a break of the bridge's
tunnel or a part that is not the last are none of the page's business.

### LinuxShell

A step is one callback of the main loop, or something another process or a
worker thread does. `ServerManager::Start` is an operator that every caller
applies to what it has left of the old server (`Stopped` or nothing): the port
probe, the reuse of a server that answers, the truncated log, a fork that may
fail. A dialog runs a nested loop, so `StartNodeAutoInstall` is opened in
`OnServerFailed` and ends in `InstallDone` or `CloseInstall`; a worker whose
dialog is closed goes on (`orphans`). `polls` counts `OnPollServer` timers, for
every start but a failed first one arms another. `lines` and `logPos` are the
length of the log and the place the window has read to; `authUrl` names the
server whose URL `authUrl_` is, so a stale one can be seen. `timers` are the
register timers by the attempt they were armed for; `registerTimeoutId_` knows
the latest only. A server is one process group that ends as a whole; the log is
one file (the code drains two).

### WindowsShell

A step is one message, one timer or one user's act on the UI thread, or what a
worker thread does between two accesses to the globals of `ServerManager`, which
every thread uses without a lock. Worker `w` is the thread of `OnCreate`, of
`RestartServer` or of `RefreshUpdate`; it starts at most one server, so the child
and the job object carry its number. `Stop` is two steps, for it waits up to five
seconds between reading the handles and clearing them; `Start` is `Probe`,
`CreateJob` and `CreateChild`, since other threads may clear or replace `g_job`
between them. `Inside` says that some thread is inside `Start` or `Stop`; `clash`
remembers that one called `Stop` while another was there, and `refused` the workers that
Windows gave no job (server_manager.cpp:210) or whose child it did not take into it (272,
the result is ignored): what happens then is in the model, and
`ChildHeld` says what is guaranteed otherwise. `foreign` is what another program serves
on the port: `Start` probes it for a web page and reuses it, `WaitUntilReady`
accepts any program that listens (391). A modal box runs a
loop of its own that dispatches everything, so `modal` is a stack of open boxes;
the plugins dialog is one too, and the only place a restart is asked for. Posted
messages go before input, input and messages before timers. `page` follows a verdict:
`asked` is a navigation under way, `shown` one that succeeded and hid the overlay,
`broken` one that failed, `lost` one that was asked for without a WebView2; the
overlay stays in the last two. The grace timer and the
12 s register timer are flags, because their lengths are not compared with
anything. A child that writes to its log restarts the 180 s of `WaitUntilReady`, so a
timeout may come at any moment and is fair only because a child stops writing.
`Plans` bounds what happens in a session: restarts, accepted updates, toggles of
Remote Connect, lines of the bridge, refusals. Assumed: threads can be created, and
the command of the settings is not empty. Left out: an earlier navigation that
ends after a restart has shown the overlay again.

### Plugins

`PluginDialog` holds what the two dialogs do alike: a dialog that is opened,
closed and opened again, its page, its lists, its status and busy flag, and the
workers that run `dsh plugin` (which reads `package.json`, and writes it later)
or load the market. `LinuxPlugins` and `WindowsPlugins` are the handlers: Linux
posts results with `g_idle_add` and counts the references of its dialog, Windows
sends messages to a window that may be gone and reads `package.json` with a
scanner for keys. Both write what they have edited: Linux prints the parsed
document, Windows splices the text. A text is a sequence of tokens (marks,
strings, literals, numbers), long enough to be cut short, to hold members in different
orders and to be read wrongly. A string holds no bracket: the scanner of Windows
counts those too (section 5), which tokens cannot show. A number is its decimal digits
and a power of ten. The Linux parser makes a double of it, which keeps 15 digits
(`Rounded(n, 15)`), and the writer prints a whole one below 9e15 with all its
digits and any other with six (`Shown`, json.cpp:349-360). `Text` writes a document
level by level, up to the bound `Depth`, `Stringify` is `Text` with each number as
it is printed; `dsh plugin`, which is external, is taken to write `Text`. `NodeModules`, `Specs` and `IdPrefixes` of `MCPlugins`
are what npm and the market say. `overlap` remembers that a dialog was opened
while the worker of a closed one still ran `dsh plugin`; the exception of
`NoLostUpdate` and `ListsCurrent` is that case (section 5). `profile`, in
`Plugins`, is a history variable: what an independent reader of JSON makes of the
file (and of the file that each run of `dsh plugin` has `seen`), so that the promise does
not depend on either shell's own parser. It counts no more digits of a number than Linux
prints (`Profile`); for Windows, which splices, `TextsKept` compares the numbers as they
are, too (`Exact`). In `PluginProfile` a dialog switches one bundle
of the profile as it is, while a run of `dsh plugin` works on the profile as it has
read it; the threads, which both shells have alike, are `Thread` of `Plugins`.
`TextsKept` is the part of that promise which is about texts: what would be written
now, by the dialog for each row that is selected, by each run for what it has read,
reads as the change that was meant. An
access to freed memory, or through a pointer made of a label and an index
(`AfterChange` and `DisableSelectedEnabled` of `WindowsPlugins`, the second one also when the
change has failed), either goes on or ends the
process. A change that fails otherwise changes nothing and is no step of its own. Left out: a
write that fails half-way, signs and exponents beyond a double's, status texts, and early
returns that the disabled buttons make unreachable.

## 3. Runs

| run | bounds | what it shows |
|---|---|---|
| `hub_hosts` | one host, two tunnel slots, queue of 1 | two tunnels of one host replace each other in every order: tables live, the online flag kept; every kicked tunnel ends |
| `hub_devices` | three hosts with one tunnel slot, one device paired with one of them and with two slots (interchangeable: symmetry), one revoker; two of the hosts share a channel key | routing, replaced device tunnels, stale bindings, zombies, revocation of running tunnels; a frame of one host's world reaches another's only through a shared key |
| `hub_revoke_twice` | two revokers | expected violation: see Findings |
| `timers` | store: one host, two devices, two tokens, clock 5..9; link: 6/2/4/6/12/2 ticks; limiter: limit 3, window 3, one IP, clock 0..8 | the three components that count time, one at a time (`MCTimers`): all table, PIN and token properties and the refinement of `Credentials`; silent links closed, live ones kept, outages brief; at most 2*Limit-1 per window length |
| `link_recovers` | the same link | expected violation |
| `phone` | four clients, LAN, two connects of the user, two POSTs of `/pair` in flight | flows, reconnects, recovery |
| `phone_page` | three clients, no LAN, one connect | expected violation |
| `streams` | two of: a GET and a HEAD of one URL, a POST, an rpc, a mirrored and a fetched stream; replies of up to two parts, two frames, one break | callers, sharing, answers in parts, streams over tunnels that break, and the refinement of `PageTunnel` |
| `linux` | two servers, one line of log, two timers, two ports, two attempts of the remote connection beside one server | one server, killed with the window; every start has a timer and a verdict; a silent bridge has its own timer and is stopped, stale timers or not |
| `windows` | four sessions side by side: a restart beside a reused dsh; an update and a refused job, beside a dsh and beside a program that is none; two toggles with two bridge lines; two servers | children held unless two threads clashed or Windows refused a job, nobody forgotten, bridges timed, every wait gets its verdict |
| `windows_leftover` | the same sessions | expected violation |
| `plugins` | two dialogs, two workers, on each shell; five profiles, six acts on the longest, four on the others | what the scanner finds is there, no lost update, current lists, memory, texts that read as they were meant, and the refinement of `PluginProfile` |

Why these bounds. Two tunnels of one host are what it takes to race an attach
with a detach; a third only repeats a race that the second has finished. A queue
of one frame fills at once, so overflow happens in nearly every behaviour. One
channel name shared by two hosts is the collision that scoping prevents. For the
store, every duration is set so that each order of expiries occurs within the
clock: a ticket runs out before and after a lock, a session before and after
its device. The limiter treats addresses apart, so one is enough. In `BridgeLink` all counters stop at the largest value compared, so
the state space is complete in time. `Phone` needs four clients for a connect
over a reconnect over a drop while a page holds a fifth, recycled, one;
`MaxAsked` bounds what the user does, never what the timer does. In `Streams`
two things at a time meet in every pairing: the GET and the HEAD share a request, either
of them asking first, or follow each other, so that a late part of the first meets the second. One break
puts two tunnels under one reply; a third part or frame only repeats the second. In `LinuxShell`
the second server is the one that a restart or an installation starts beside
what is left of the first; `MaxLines` ends the output that may put off a verdict
for ever, which is what the code intends for a server that goes on printing. The
bridge shares only `node` and `window` with the server: the action constraint
`Apart` explores the remote connection beside one server with its first poll
timer and a port nobody else uses, and leaves out its product with everything
that restarts and installations do. It cuts off only steps that no
fairness demands: a start, an installation, another program on the port, an attempt of
the user.
In `WindowsShell` a second worker is what it takes to race two starts, and a restart
and an update differ in where they race; one refusal is enough, for what it leaves is never
held again; Remote Connect shares only the queue, the boxes
and the window with the server, which the fourth session still starts and stops. In `Plugins`
one package and one template bundle that depend on each other make a tree, a cycle and a
bundle without a dependency; one profile nests the sought keys in other members, and its
numbers have more digits than `%g` prints; four acts open a dialog, run an operation, close it
and open it again; six let a second operation meet what the first one left.

**Fairness.** Weak fairness for what a scheduler or a timer does without being
asked: a goroutine that can run, a deferred call, a timer that is due, a popped
page's dispose. Strong fairness only where the code tries again and again and
the environment must let one attempt through: the attempts and registrations of the
bridge (`Accept \/ Refuse \/ Hello`, `Ask`, `Register`, `Registered`),
the first frame of the active tunnel of the phone. None is assumed of
users, drops, restarts or silences, nor that a phone asks for anything: that is why
`HostRecovers` fails. In
`WindowsShell` the threads that can run, the timeout of their waits and the UI
thread's queue, timers and the report of a navigation are weakly fair; the user, who has to
click boxes away,
is not, so a fatal box counts as a verdict. Liveness that needs a stable environment says
so in its antecedent (`HostRecovers`: the network is up from some point on).

## 4. Proofs

All for every value of the constants, from the named assumptions of each module.

- `RelayHubProofs`: one inductive invariant, `HubInv`. `HostIsolation` says that
  a host's queue holds only frames of its own devices, and a device's queue only frames
  of its host or of one that shares a channel key with that; `StrictIsolation`, that there are
  only frames of its host if no two hosts share a key (`KeyReaches` is what a key tells of
  its hosts). It is not inductive
  alone, because a frame goes to a tunnel that an earlier step looked up.
  `RefOK` says what such a reference points at, and it in turn needs the owners
  of handlers (`OwnerOK`), the table entries (`EntriesOwned`) and the scoping of
  channels (`ChannelsScoped`). `NoZombieTunnel` needs `KickedOnce`: the tunnel in
  the host table has not been kicked yet. Theorems `TypeCorrect`,
  `TablesCorrect`, `Isolation`, `NoZombies`, `Bindings`, `Online`, and the action
  properties `RevokeKicks` and `KickedGoes`: a kicked tunnel only drains and its
  reader only leaves.
- `RelayStoreProofs`: tokens and hosts are proved apart. `TokenInv` (token types
  and `OneCredential`) is inductive on its own and carries
  `CredentialsImplemented`: every method maps to an issue, a rotation, a
  withdrawal or a stutter. `StoreInv` (types, `TicketsBounded`, `TablesAgree`)
  carries `TablesCorrect`, `SpentTicketsDead` and `LocksKept`;
  `TicketsBounded` bounds what is left of a spent ticket's life by the lock that
  its last guess set.
- `PhoneProofs`: `FlowsFinish` holds of any number of pairings of one page at a
  time. `IInv` adds to the types and to `FlowsAwaited` that a flow of a
  page is awaited in one place (`OneEach`), that a reconnect is due only for an
  active client that has dropped (`DueForDropped`), and that what a reconnect
  replaces is never the active client again (`ReplacesAnother`). Theorems
  `TypeCorrect`, `FlowsFinish` and the action property `ReconnectsDropped`.
  `DroppedIsDue` is about the behaviours in which no timer of a replaced client is armed
  (`NoStaleTimer`; section 5 says when one is): the active client then is never
  shut, and has a socket or a timer (`Served`), so that whenever it has dropped its
  reconnect is armed. `NoneAssumption` says that `None` is no timer.
- `StreamsProofs`: `CallInv` adds to `CallsAwaited` that what is pending is the
  last try of its call (`PendingCurrent`), that those who share a request have
  its leader's outcome (`LeadersLead`) and that `_inflight` holds the leaders of
  the GETs and HEADs in flight and no other (`FlightsLed`); `CallersAwait` and `OneFlight`
  follow from it, and `TypeCorrect` with the types of the queues.
  `AnswersWhole` needs that a request reaches the bridge once
  (`AskedOnce`: one frame per request, ahead of its handler and with a number
  not past `tries`), so that its reply is cut in one way (`OneTotal`: all its
  parts, on their way or in, carry one total, which is the size that its handler
  works with), and that frames and transfers carry the id of the request they
  answer (`FramesHonest`, `GotHonest`). A transfer whose indices are
  `0 .. total - 1` then has all parts of that one reply (`PartsWhole`), and those
  who share it have its leader's (`LeadersWhole`): `AnswersAreWhole`.
  `StreamInv` follows a stream over its tunnels. `Prefix`: the page has the first
  frames, and no frame is numbered past what the bridge sent. `Course`: a stream is
  opened once, nothing has happened on the bridge before, and no handler runs
  once its end is on its way or told. `Coming`, for a page that listens: its queue is in
  order and goes on where the page stopped; while both tunnels hold it has
  all that is lacking, and so it has, up to and before the end frame, whenever there is an
  end frame. The last part is what `view = "told"` needs: an `sse-end` travels behind
  the frames it ends. After a break the queue is cut, but then the socket is
  closed without a word (`LinkOk`: no handler survives its tunnel), so that
  a stream with a gap is never told of an end: `StreamsAreWhole`.
  `OutcomesStand` is the other half of what a page may rely on: nothing that comes late
  changes what it was told. `PageIsPromised` is the refinement of `PageTunnel`, under the conjunction of all these
  (`PageInv`) and `Sharers`: who shares a request asks for the same URL, and whoever has no
  answer has an empty one. Each action is mapped to a step of the page or to none:
  `SettlePromised` a request that ends, in time or not, to `Answers` or `Fails` of all its
  sharers together, with `AnswersAreWhole` for what they get; `NextFrame` and
  `LastFrame` draw from `Coming` that the frame at the head of the queue is the one to
  show, and an end frame is behind all of them.
- `LinuxShellProofs`: `IInv` is types, `NothingYet` (before the window shows
  nothing runs) and the three invariants of the runs. `StartKeeps` is the
  contract of `Start`: given that no server is alive unless it is the child and
  that `g_running` admits a child, it returns so. `StopKills` supplies that
  precondition for a restart, `OneServer` itself for an installation. Theorems
  `TypeCorrect`, `OneServerRuns`, `StartsAwaited`, `BridgesAwaited`.

- `WindowsShellProofs`: `BridgeTimed` is inductive alone, `NobodyForgotten` with
  the types: it is about verdicts, not about the overlay. `ChildHeld` is not: `HeldInv`
  adds that without a clash one
  thread at a time is inside `Start` or `Stop` (`Alone`), that nothing lives while it is
  (`Emptied`), and that the job it made is there when it makes the child, unless it was refused (`JobReady`).
  `HeldStopped` is what a call of `Stop` leaves, `HeldMoved` and `HeldFrame`
  carry the steps that start nothing. The types need one fact of their own: the
  restart that the UI thread has begun is still to be counted. Theorems `TypeCorrect`,
  `BridgesTimed`, `VerdictOwed`, `ChildrenHeld`.

- `TimerProofs`, of `BridgeLink`: `LinkInv` adds two facts about clocks to the types. `Watched`: a
  socket that was open at the watchdog's last run was not silent then, so `age`
  is at most the limit plus what has passed of the period since
  (`WatchdogCloses`). `Answered`: with a ping on its way the relay has been
  idle for no longer than a ping period more than the bridge has heard nothing
  (or the bridge is silent), without one for no longer than since the last ping. With
  `DeadlineAssumption` this gives `DeadlineSpares`; frames of phones reset
  the bridge's clock but not the relay's, which is why the two ages are compared
  while a ping waits and not otherwise. `OutageEnds` compares `away` with what the relay
  knows: as long as a lost tunnel is in its table, `away` is at most the time that tunnel has
  been quiet, and from the moment it counts as stale no more than the
  reconnect timer passes. `NeverStuck` needs only `Held`, that the relay has
  the tunnel of this bridge only while the bridge has it open: a tick may pass, or
  the guard of a step that is due holds.
- `TimerProofs`, of `RateLimiter`: `LimiterInv` says for each address what a window in the map
  implies. `Windowed`: what came since its start is at most its count and
  `Limit`, the request that opened it was let through, and less than `Limit` came
  in the window before, for whatever was there had ended or was swept. `Windowless`:
  fewer than `Limit` in the last window and none at this instant. Two adjacent
  windows then hold at most `Limit - 1` and `Limit`, whatever interval is laid over
  them: `TwiceAtMost`.

- `PluginsProofs`: `PluginsInv` has five parts. `DialogOk` types the open dialog.
  `CoreInv` is about threads and the
  file. `Alone`: a dialog that is at rest has no thread, a busy one has one (Linux does
  not count the market's). `Known`: unless a dialog came up over a running
  `dsh plugin`, it runs once and for the open dialog. `NoLostUpdate` follows, for
  the file is edited by a dialog at rest only. Every action of both shells is shown to
  be one of seven kinds of steps (`Rests`, `Edits`, `Closes`, `Begins`, `Shows`,
  `Runs`, `Ends`), and `CoreKept` is proved of these once: `NothingLost`.
  `Memory`: the reference count of a Linux dialog is the number of its threads,
  and a closed one still has some: `MemoryFreed`. `LinuxLists` and
  `WindowsLists` relate lists to the file. On Linux both are filled whenever the file
  is read; Windows keeps what it has read and fills a page when it is shown, so
  that one is stated by page, and by whether a run for this dialog is under way:
  `ListsShowFile`. None of these proofs expands the JSON operators: the theorems hold
  for any profile, however much of it either reader misses. `NothingLost` excepts, for
  both shells, a dialog that was opened while the run of a closed one went on. Two theorems are about what
  these do. `OneBundle` is about the edit that Linux makes in the parsed document: `Put` changes the value of one
  key (`PutOne`), so that of `Sections`, which `ProfileKept` compares, only the enabled
  bundles change, by the one name; the digits that writing the document then costs are
  not in it. `WindowsOneBundle` is about the edit that Windows makes
  in the text, of any length: every token outside the array is kept (`Rewrite`), and the
  scanner, which starts again at the first token, comes to the new array and reads the
  new list from it. The argument is an induction over the text, done without an
  induction rule: `Least` (from `NatLessThanWellFounded`) gives a set of places a least
  member, so `Downward` refutes a last place at which a claim fails, and `ScanExists`
  shows that a scan whose distance to the end falls is a function. From these follow
  where a scan may end (`ClosingRange`, `FindRange`), that brackets within a value
  close within it (`ClosingDeeper`), and that a scan that passes over the old array
  passes over the new one (`ClosingThrough`, `FindThrough`, `PathThrough`), whose
  items it reads (`ListedStrings`). One hypothesis excludes text: an array that a brace
  ends, for there the reader of the code does not end either (section 5).
  `PromiseKept` is the refinement of `PluginProfile`, for a behaviour that keeps
  `TextsKept`: `LinuxFile` and `WindowsFile` say that a handler writes nothing, or the
  text that `TextsKept` speaks of, made from the file as it is at that moment for the row that is
  selected, by a dialog at rest; `ProfileStep` that a run writes what it made of
  the file it had read (`ReaderKept`). The control is proved for any number of dialogs and
  threads; that the texts read as they were meant is `TextsKept`, which TLC checks.

Model-checked only: liveness (`KickedTunnelEnds`, `TunnelRecovers`, `StartJudged`, `BridgeSettles`, `VerdictComes`, the violated ones),
which is out of the prover's reach. What is safe in it is proved: what has to go on is
in flight (`StartsAwaited`, `BridgesAwaited`, `VerdictOwed`), armed (`DroppedIsDue`),
never refilled (`KickedGoes`), over soon (`OutageEnds`) or free to go (`NeverStuck`); that it
does go on is what TLC adds, from fairness. Also model-checked only: `ScanSound` and `TextsKept` of `Plugins`, which
say what the parser, the scanner and the writer compute from a text. Of these the edits
are proved (`OneBundle` on a parsed document, `WindowsOneBundle` on a text); the parser
and the writer of `LinuxJson` and what the two readers have in common are not: the same
argument would have to be made over trees. `ProfileKept` is proved from `TextsKept` and checked by the
same run without it. Every other property of a passing run is stated by a
theorem. The types of `Phone` and `Streams` are proved and named by no run.

## 5. Findings

Each is a `violation` run, with the line it contradicts quoted in `PROJECT.json`.

1. `hub_revoke_twice`: two revocations of one device close the same channel
   twice; the panic leaves `hub.mu` locked and the relay stops answering.
2. `phone_page`: after a drop the page keeps the dead client and is not told.
3. `link_recovers`: a reconnect does not reset the bridge's `lastSeen`, and a relay that
   knows the host says nothing before its first ping, so after 45 s without a tunnel,
   and with no phone asking, the watchdog closes each new tunnel within 15 s, again and
   again (bridge.mjs:301).
4. `windows_leftover`: a `Stop` between the creation of the job and the assignment of
   the child leaves a dsh that outlives the shell (server_manager.cpp:210-272).

Seen while modelling and kept in the models as the code has it, without a
property: the comment at main.go:214 says that replies can never cross-route, but
hostIds are not checked for slashes (store.go:117-130), so that hostId `a` with channel
`b/c` and hostId `a/b` with channel `c` share a key, and a frame of one host goes to the
other's device (the exception of `HostIsolation`); a device tunnel that passed the
session check before a revoke and attaches after it stays (main.go:651); the late
detach of a replaced device tunnel deletes the bindings of the new one (main.go:176);
a GET that finds a HEAD of the same URL in flight is given the HEAD's reply with its empty body, and
stores it if the URL is cacheable, where web_proxy.dart:52-54 speaks of identical
requests; on the pairing page a second tap starts a second pairing, whose
answer replaces the tunnel of the first (pairing_page.dart:25-46, 151), and a remote page that
is replaced disconnects, when it is disposed, the tunnel of the one that replaced
it (webview_page.dart:146); a pairing that ends while its page is being popped opens the
remote page in place of the home page; a tunnel that was met during the LAN probe and
has dropped by its end leaves the user on the home page with a reconnect under way; the relay does not forward a device's `sse-close` (main.go:673), so a
stream that the page has left runs on until the bridge's tunnel closes, where
section 3.1 of the protocol document has the bridge close it; an `sse-open` that
finds no host is answered by an `rpc-reply` that matches nothing, and neither a
lost tunnel nor a dropped client tells the page of a stream's end; the `abort`
frame of `handleHttp` has no `part`, so that branch of `_onHttpReply` is never
taken; a register that displaced a tunnel closes itself (main.go:585-589
wants the oldest to win, both end); a reconnect timer armed for a replaced client
keeps the new client's drop from arming one (app_state.dart:292, the antecedent
of `TunnelRecovers` excludes it); `onStatus(true)` is never fired, so
`_reconnectAttempt` is never reset; the app stores a refresh token and never
uses it; a device paired a moment ago has `LastSeen` zero and falls to the next GC; GC drops
a refresh token with its session, days before the documented 30
(store.go:373); `onclose` of the bridge calls `abort()` on a WebSocket, and the
TypeError ends the process (bridge.mjs:337, `link = "crashed"`). In the Linux
shell: a register timer of an earlier attempt stops the new bridge; the timer is
armed although script or node is missing; after a restart the page is loaded
with the URL of the server before, and the grace tick waits for a URL that it
never reads; the bridge is given the configured port rather than the one in use
and outlives the window; every `Stop` takes its full five seconds, for it
removes the watch that would end the wait.

In the Windows shell: a restart while an earlier worker still waits makes that
worker see a server that does not run, and its fatal box closes the program
although the new server comes up; the grace timer waits for a URL that only the
already returned `WaitUntilReady` would read (main_window.cpp:1203), and after a restart
`g_authUrl` is the one of the server before; a page asked for before the view is there is
lost and the overlay stays for ever (`page = "lost"`, main_window.cpp:1215), and so it does
over a page that fails to load (`broken`); a child without a job, or not assigned to it, is
started all the same and outlives the shell (server_manager.cpp:210, 272: `refused`); a program
on the port that is no dsh counts as the server being ready (391); `OnDestroy` does not stop the bridge, so it
outlives the window, where docs/mobile-agent-monitor.md:39 has it end with it; a
"registered" line that is still in the pipe when the bridge is stopped takes the
host's token with it, while the relay knows the host already; toggling Remote
Connect off within 12 s, or a bridge that cannot be started, leaves the timer
armed; a bridge that ends by itself leaves `bridgeRunning_` set.

In the plugin dialogs: on Windows an array of bundles that a brace closes
(`"bundles": ["a" }`) is taken for a value by the scanner, which counts both kinds of
brackets alike, but its reader stays at the brace for ever (json.cpp:285-297); a key is found only if nothing but strings comes
before it in its object (json.cpp:217, where json.h:19-23 promises the value at the top
level, and plugins_manager.h:42-46 all plugins), so a dialog may show
no plugins where there are some, and change nothing; brackets inside strings are counted as
brackets (json.cpp:181-193), so a key may be missed or, in a section that is an array and no object, be a
nested one: `ScanSound` is about files without either; the reader takes the first of two
equal keys, a parser the last; deselecting through a stale row uses freed
memory; a market that could not be loaded counts as loaded, says "no matches"
and is not tried again, where the comment at plugins_manager.cpp:653 says it is; a
repository without a GitHub id is installed as `github:` and its name. On Linux a
reload of the market does not set busy, so two workers run where the comment at
plugins_manager.cpp:309 says one; the page-changed handler reads the page that is being left, so its
buttons are those of the other page; a number that is not whole, or not below 9e15, keeps
six digits when a bundle is switched (json.cpp:349-360, where plugins_manager.h:63-64 says that
all other fields are preserved), and one beyond a double's range becomes `inf`, which nothing
parses. On both, closing and opening the
dialog while an operation runs allows a second one, and one of the two changes is lost.

Seen in code that no module covers: two downloads of the Windows runtime share a
`.part` file and its writes are not checked; node is copied into its final
directory file by file, so a crash leaves a part that `RuntimeAvailable` accepts;
`IsLoopbackHost` is false of `localhost:port`; overlapping installations of the
Linux runtime share an archive and a directory; the app's disk cache publishes an
entry before its blob is written (disk_cache.dart:193), and its `get` may
subtract the size of an entry that was replaced meanwhile (:158); one failed request closes the LAN
backend's client for good (lan_backend.dart:58); `connect()` of a replaced client still sets
`connected` (app_state.dart:234).

## 6. Plan

1. `DiskCache` with the web proxy's conditional requests; abstract
   specification: a map whose reads return a stored pair of body and ETag.
2. Hub and store composed: GC against a host whose tunnel is up.
3. The runtime of the shells: downloads, installation and what a crash leaves.
4. An abstract specification of the relay as the phone and the bridge see it, between
   `PageTunnel` and `RelayHub`, so that the frames `Streams` routes are those that
   `HostIsolation` speaks of.

## 7. Not modelled, and why

Third-party code, build and deployment scripts, QR code drawing, settings
parsers (pure text functions on which no property of the state machines
depends), window layout, menus and wording. The macOS shell repeats what the Linux
shell does in another toolkit. The relay's HTTP pages beyond the handlers in
`RelayHub` and `RelayStore`, the bridge's LAN proxy and its tools hold no state
that others share. Cache, LAN backend, downloads and installation of the
runtime, updates of the Linux shell are planned as above. `dsh`, npm and the plugin market
are external: they are modelled by what the code hands to them and makes of
their answers.
