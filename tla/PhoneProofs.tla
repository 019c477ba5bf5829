---------------------------- MODULE PhoneProofs ----------------------------
(* Proofs about the phone, for any set of clients and any number asked for. *)
EXTENDS Phone, TLAPS

\* A flow of the home page is awaited in one place.
OneEach ==
    /\ \A j, k \in Client :
          attach[j] = attach[k] /\ attach[j] \in {"home", "repair"} => j = k
    /\ post["repair"] <= 1
    /\ Pending("repair") => \A k \in Client : attach[k] # "repair"

\* A reconnect is due only for a client that has dropped, if it is the active one.
DueForDropped == timer # None /\ timer.of = client => ~HasChannel(client)

\* What a reconnect replaces is never the active client again, so the
\* catchError of its timer reaches a _scheduleReconnect that does nothing.
ReplacesAnother ==
    \A k \in Client : attach[k] = "timer" => origin[k] \in Client /\ origin[k] # client

IInv == TypeOK /\ FlowsAwaited /\ OneEach /\ DueForDropped /\ ReplacesAnother

LEMMA ScheduledType ==
    ASSUME TypeOK, NEW c \in Client, NEW att, NEW t,
           t = None \/ t \in [of : Client, after : SUBSET Client]
    PROVE  LET s == Scheduled(c, att, t) IN
           /\ s = None \/ s \in [of : Client, after : SUBSET Client]
           /\ s # None => s = t \/ (t = None /\ s.of = c)
  BY DEF Scheduled, Waiting

\* What the pages do to the POSTs in flight.
LEMMA PostFewer ==
    ASSUME TypeOK, NEW p \in Asker, Pending(p), post' = [post EXCEPT ![p] = @ - 1]
    PROVE  /\ post' \in [Asker -> Nat]
           /\ \A q \in Asker : Pending(q)' => Pending(q)
           /\ \A q \in Asker : q # p => post'[q] = post[q] /\ (Pending(q)' <=> Pending(q))
           /\ post[p] <= 1 => ~Pending(p)' /\ post'[p] = 0
<1>1. post \in [Asker -> Nat] /\ post[p] \in Nat /\ post[p] > 0
  BY DEF TypeOK, Pending
<1>2. \A q \in Asker : post'[q] = IF q = p THEN post[p] - 1 ELSE post[q]
  BY <1>1
<1>3. post[p] - 1 \in Nat /\ post[p] - 1 <= post[p] /\ (post[p] <= 1 => post[p] - 1 = 0)
  BY <1>1
<1>4. post' \in [Asker -> Nat]
  BY <1>1, <1>3
<1>5. \A q \in Asker : q # p => post'[q] = post[q] /\ (Pending(q)' <=> Pending(q))
  BY <1>2 DEF Pending
<1>6. Pending(p)' => Pending(p)
  OBVIOUS
<1>7. post[p] <= 1 => ~Pending(p)' /\ post'[p] = 0
  BY <1>2, <1>3 DEF Pending
<1> QED BY <1>4, <1>5, <1>6, <1>7

LEMMA PostMore ==
    ASSUME TypeOK, NEW p \in Asker, post' = [post EXCEPT ![p] = @ + 1]
    PROVE  /\ post' \in [Asker -> Nat]
           /\ Pending(p)' /\ (~Pending(p) => post'[p] <= 1)
           /\ \A q \in Asker : q # p => post'[q] = post[q] /\ (Pending(q)' <=> Pending(q))
<1>1. post \in [Asker -> Nat] /\ post[p] \in Nat
  BY DEF TypeOK
<1>2. \A q \in Asker : post'[q] = IF q = p THEN post[p] + 1 ELSE post[q]
  BY <1>1
<1>3. post' \in [Asker -> Nat]
  BY <1>1
<1>4. Pending(p)' /\ (~Pending(p) => post'[p] <= 1)
  BY <1>1, <1>2 DEF Pending
<1>5. \A q \in Asker : q # p => post'[q] = post[q] /\ (Pending(q)' <=> Pending(q))
  BY <1>2 DEF Pending
<1> QED BY <1>3, <1>4, <1>5

LEMMA PostMoved ==
    ASSUME TypeOK, NEW from \in Asker, NEW to \in Asker, from # to,
           post' = Moved(from, to)
    PROVE  /\ post' \in [Asker -> Nat]
           /\ ~Pending(from)'
           /\ Pending(to)' => Pending(to) \/ Pending(from)
           /\ \A q \in Asker \ {from, to} :
                 post'[q] = post[q] /\ (Pending(q)' <=> Pending(q))
<1>1. post \in [Asker -> Nat] /\ post[from] \in Nat /\ post[to] \in Nat
  BY DEF TypeOK
<1>2. /\ post' \in [Asker -> Nat]
      /\ \A q \in Asker : post'[q] = IF q = to THEN post[to] + post[from]
                                     ELSE IF q = from THEN 0 ELSE post[q]
  BY <1>1 DEF Moved
<1>3. \A q \in Asker \ {from, to} : post'[q] = post[q] /\ (Pending(q)' <=> Pending(q))
  BY <1>2 DEF Pending
<1>4. ~Pending(from)'
  BY <1>2 DEF Pending
<1>5. Pending(to)' => Pending(to) \/ Pending(from)
  BY <1>1, <1>2 DEF Pending
<1> QED BY <1>2, <1>3, <1>4, <1>5

LEMMA InitInv == Init => IInv
<1> SUFFICES ASSUME Init PROVE IInv
  OBVIOUS
<1>1. TypeOK
  <2>1. /\ sock \in [Client -> {"unused", "opening", "open", "ended"}]
        /\ shut \in [Client -> BOOLEAN]
        /\ attach \in [Client -> Flows] /\ origin \in [Client -> Client \cup {None}]
    BY DEF Init, Flows
  <2>2. asked \in 0..MaxAsked
    BY PhoneAssumption DEF Init
  <2>3. post \in [Asker -> Nat]
    BY DEF Init
  <2> QED BY <2>1, <2>2, <2>3 DEF Init, TypeOK
<1>0. post["repair"] = 0 /\ \A p \in Asker : ~Pending(p)
  BY DEF Init, Pending, Asker
<1>2. FlowsAwaited
  BY <1>0 DEF Init, FlowsAwaited, Awaited, Asker
<1>3. OneEach /\ DueForDropped /\ ReplacesAnother
  BY <1>0 DEF Init, OneEach, DueForDropped, ReplacesAnother, Asker
<1> QED BY <1>1, <1>2, <1>3 DEF IInv

\* A step that touches neither a flow nor a page.
LEMMA Frame ==
    ASSUME IInv, UNCHANGED <<client, linkVars, post, pageVars, fading>>
    PROVE  FlowsAwaited' /\ OneEach' /\ ReplacesAnother'
<1>1. \A p : (Pending(p)' <=> Pending(p)) /\ (Awaited(p)' <=> Awaited(p))
  BY DEF Pending, Awaited, linkVars
<1>2. FlowsAwaited'
  BY <1>1 DEF IInv, FlowsAwaited, pageVars
<1>3. OneEach' /\ ReplacesAnother'
  BY <1>1 DEF IInv, OneEach, ReplacesAnother, linkVars
<1> QED BY <1>2, <1>3

LEMMA AttachType ==
    ASSUME TypeOK, NEW k \in Client, NEW who \in Flows, NEW c \in Client \cup {None},
           Attach(k, who, c)
    PROVE  /\ client' \in Client /\ closing' \in BOOLEAN
           /\ sock' \in [Client -> {"unused", "opening", "open", "ended"}]
           /\ shut' \in [Client -> BOOLEAN]
           /\ attach' \in [Client -> Flows]
           /\ origin' \in [Client -> Client \cup {None}]
           /\ client' = k
           /\ attach[k] = "none" /\ attach'[k] = who
           /\ \A j \in Client : j # k => attach'[j] = attach[j]
           /\ timer # None => timer.of # k
           /\ \A j \in Client : attach[j] # "none" => origin[j] # k
           /\ origin'[k] = c /\ \A j \in Client : j # k => origin'[j] = origin[j]
  BY DEF Attach, Lowest, Free, TypeOK

-----------------------------------------------------------------------------
(* Every step keeps the invariant. *)

LEMMA TimerFiresInv == IInv /\ TimerFires => IInv'
<1> SUFFICES ASSUME IInv, TimerFires PROVE IInv'
  OBVIOUS
<1>1. CASE StillActive(timer.of)
  <2>1. PICK k \in Client : Attach(k, "timer", timer.of)
    BY <1>1 DEF TimerFires
  <2>2. timer.of \in Client
    BY DEF TimerFires, IInv, TypeOK
  <2>3. TypeOK'
    BY <2>1, <2>2, AttachType DEF TimerFires, IInv, TypeOK, Flows, pageVars
  <2>8. attach'[k] = "timer" /\ attach[k] = "none" /\ \A j \in Client : j # k => attach'[j] = attach[j]
    BY <2>1, <2>2, AttachType DEF IInv, Flows
  <2>9. \A p : Pending(p)' <=> Pending(p)
    BY DEF TimerFires, Pending
  <2>10. \A who \in Flows \ {"none", "timer"} : Awaited(who)' <=> Awaited(who)
    BY <2>8 DEF Awaited
  <2>4. FlowsAwaited'
    <3>1. {"home", "repair", "pair", "fading"} \subseteq Flows \ {"none", "timer"}
      BY DEF Flows, Asker
    <3>2. UNCHANGED <<pageVars, fading>>
      BY DEF TimerFires
    <3> QED BY <2>9, <2>10, <3>1, <3>2 DEF IInv, FlowsAwaited, pageVars
  <2>5. OneEach'
    BY <2>8, <2>9 DEF TimerFires, IInv, OneEach
  <2>6. DueForDropped'
    BY DEF TimerFires, DueForDropped
  <2>7. ReplacesAnother'
    BY <2>1, <2>2, AttachType DEF TimerFires, IInv, ReplacesAnother, Flows
  <2> QED BY <2>3, <2>4, <2>5, <2>6, <2>7 DEF IInv
<1>2. CASE ~StillActive(timer.of)
  <2>1. TypeOK' /\ DueForDropped'
    BY <1>2 DEF TimerFires, IInv, TypeOK, DueForDropped, HasChannel, linkVars, pageVars
  <2>2. FlowsAwaited' /\ OneEach' /\ ReplacesAnother'
    <3>1. UNCHANGED <<client, linkVars, post, pageVars, fading>>
      BY <1>2 DEF TimerFires
    <3> QED BY <3>1, Frame
  <2> QED BY <2>1, <2>2 DEF IInv
<1> QED BY <1>1, <1>2

LEMMA AskInv ==
    ASSUME IInv, NEW k \in Client, NEW who \in Flows \ {"timer"}, Ask(k, who),
           UNCHANGED timer
    PROVE  /\ client' \in Client /\ closing' \in BOOLEAN
           /\ sock' \in [Client -> {"unused", "opening", "open", "ended"}]
           /\ shut' \in [Client -> BOOLEAN]
           /\ attach' \in [Client -> Flows]
           /\ origin' \in [Client -> Client \cup {None}]
           /\ asked' \in 0..MaxAsked
           /\ attach[k] = "none" /\ attach'[k] = who
           /\ \A j \in Client : j # k => attach'[j] = attach[j]
           /\ DueForDropped' /\ ReplacesAnother'
<1>1. Attach(k, who, None)
  BY DEF Ask
<1>2. asked' \in 0..MaxAsked
  BY PhoneAssumption DEF Ask, IInv, TypeOK
<1>3. client' = k /\ (timer # None => timer.of # k)
  BY <1>1, AttachType DEF IInv
<1>4. DueForDropped'
  BY <1>3 DEF DueForDropped
<1>5. ReplacesAnother'
  BY <1>1, AttachType DEF IInv, ReplacesAnother, TypeOK
<1> QED BY <1>1, <1>2, <1>4, <1>5, AttachType DEF IInv

LEMMA ConnectToInv == IInv /\ ConnectTo => IInv'
<1> SUFFICES ASSUME IInv, ConnectTo PROVE IInv'
  OBVIOUS
<1>1. PICK k \in Client : Ask(k, "home")
  BY DEF ConnectTo
<1>2. /\ TypeOK'
      /\ DueForDropped' /\ ReplacesAnother'
  BY <1>1, AskInv DEF ConnectTo, IInv, TypeOK, Flows
<1>5. attach[k] = "none" /\ attach'[k] = "home" /\ \A j \in Client : j # k => attach'[j] = attach[j]
  BY <1>1, AskInv DEF ConnectTo, Flows
<1>6. \A p : Pending(p)' <=> Pending(p)
  BY DEF ConnectTo, Pending
<1>7. /\ Awaited("home")' /\ ~Awaited("home")
      /\ \A who \in {"repair", "pair", "fading"} : Awaited(who)' <=> Awaited(who)
  BY <1>5 DEF ConnectTo, IInv, FlowsAwaited, Awaited
<1>3. FlowsAwaited'
  BY <1>6, <1>7 DEF ConnectTo, IInv, FlowsAwaited
<1>4. OneEach'
  <2>1. \A j \in Client : attach[j] # "home"
    BY <1>7 DEF Awaited
  <2> QED BY <1>5, <1>6, <2>1 DEF ConnectTo, IInv, OneEach
<1> QED BY <1>2, <1>3, <1>4 DEF IInv

LEMMA PairAnswerInv == IInv /\ PairAnswer => IInv'
<1> SUFFICES ASSUME IInv, PairAnswer PROVE IInv'
  OBVIOUS
<1>1. PICK p \in Asker :
        /\ Pending(p)
        /\ post' = [post EXCEPT ![p] = @ - 1]
        /\ \/ /\ \E k \in Client : Ask(k, p)
              /\ UNCHANGED home
           \/ /\ home' = IF p = "repair" THEN "idle" ELSE home
              /\ UNCHANGED <<client, closing, linkVars, asked>>
        /\ UNCHANGED <<connected, timer, over, mode, proxy, seen, leaving, fading>>
  BY DEF PairAnswer
<1>2. p \in Flows \ {"timer", "home", "none"}
  BY DEF Flows, Asker
<1>0. /\ post' \in [Asker -> Nat]
      /\ \A q \in Asker : Pending(q)' => Pending(q)
      /\ \A q \in Asker : q # p => post'[q] = post[q] /\ (Pending(q)' <=> Pending(q))
      /\ p = "repair" => ~Pending("repair")' /\ post'["repair"] = 0
  BY <1>1, PostFewer DEF IInv, OneEach
<1>5. post'["repair"] <= 1
  BY <1>0 DEF IInv, OneEach, Asker
<1>3. ASSUME NEW k \in Client, Ask(k, p), UNCHANGED home
      PROVE  IInv'
  <2>0. /\ attach[k] = "none" /\ attach'[k] = p
        /\ \A j \in Client : j # k => attach'[j] = attach[j]
        /\ DueForDropped' /\ ReplacesAnother'
    BY <1>1, <1>2, <1>3, AskInv
  <2>1. TypeOK'
    BY <1>0, <1>1, <1>2, <1>3, AskInv DEF IInv, TypeOK, Flows
  <2>2. FlowsAwaited'
    <3>2. \A who \in Flows \ {"none"} : Awaited(who)' <=> Awaited(who) \/ who = p
      BY <2>0 DEF Awaited
    <3>3. Awaited("home")' <=> Awaited("home")
      BY <1>2, <3>2 DEF Flows, Asker
    <3>4. Pending("repair")' \/ Awaited("repair")' <=> Pending("repair") \/ Awaited("repair")
      BY <1>0, <1>1, <3>2 DEF Flows, Asker
    <3>5. Pending("pair")' \/ Awaited("pair")' => Pending("pair") \/ Awaited("pair")
      BY <1>0, <1>1, <3>2 DEF Flows, Asker
    <3>6. Pending("fading")' \/ Awaited("fading")' => Pending("fading") \/ Awaited("fading")
      BY <1>0, <1>1, <3>2 DEF Flows, Asker
    <3> QED BY <1>1, <1>3, <3>3, <3>4, <3>5, <3>6 DEF IInv, FlowsAwaited
  <2>3. OneEach'
    <3>1. \A j \in Client : attach[j] = "repair" => ~Pending("repair")
      BY DEF IInv, OneEach
    <3> QED BY <1>0, <1>1, <1>2, <1>5, <2>0, <3>1 DEF IInv, OneEach, Flows, Asker
  <2> QED BY <2>0, <2>1, <2>2, <2>3 DEF IInv
<1>4. CASE /\ home' = IF p = "repair" THEN "idle" ELSE home
           /\ UNCHANGED <<client, closing, linkVars, asked>>
  <2>1. TypeOK' /\ DueForDropped' /\ ReplacesAnother'
    BY <1>0, <1>1, <1>4 DEF IInv, TypeOK, DueForDropped, HasChannel, ReplacesAnother, linkVars
  <2>2. \A who : Awaited(who)' <=> Awaited(who)
    BY <1>4 DEF Awaited, linkVars
  <2>3. OneEach'
    BY <1>0, <1>4, <1>5 DEF IInv, OneEach, Asker, linkVars
  <2>4. FlowsAwaited'
    <3>1. CASE p = "repair"
      <4>1. home = "repairing" /\ ~Awaited("repair") /\ ~Awaited("home")
        BY <1>1, <3>1 DEF IInv, FlowsAwaited, OneEach, Awaited
      <4>2. /\ Pending("pair")' <=> Pending("pair")
            /\ Pending("fading")' <=> Pending("fading")
            /\ ~Pending("repair")'
        BY <1>0, <3>1 DEF Asker
      <4> QED BY <1>1, <1>4, <2>2, <3>1, <4>1, <4>2 DEF IInv, FlowsAwaited
    <3>2. CASE p # "repair"
      <4>1. /\ Pending("pair")' => Pending("pair")
            /\ Pending("fading")' => Pending("fading")
            /\ Pending("repair")' <=> Pending("repair")
        BY <1>0, <3>2 DEF Asker
      <4> QED BY <1>1, <1>4, <2>2, <3>2, <4>1 DEF IInv, FlowsAwaited
    <3> QED BY <3>1, <3>2
  <2> QED BY <2>1, <2>3, <2>4 DEF IInv
<1> QED BY <1>1, <1>3, <1>4

\* What replacing the page on top does.
LEMMA PushRemoteInv ==
    ASSUME IInv, PushRemote
    PROVE  /\ post' \in [Asker -> Nat]
           /\ leaving' \in Nat /\ fading' \in BOOLEAN
           /\ home' \in {home, "gone"} /\ (home' = "gone" => over = "none" \/ home = "gone")
           /\ (over = "none" => home' = "gone")
           /\ over' = "remote" /\ mode' = "starting" /\ proxy' = None
           /\ fading' = (fading \/ over = "pair")
           /\ ~Pending("pair")'
           /\ Pending("fading")' => Pending("fading") \/ Pending("pair")
           /\ Pending("repair")' <=> Pending("repair")
           /\ post'["repair"] = post["repair"]
<1>1. post' = Moved("pair", "fading") /\ "pair" \in Asker /\ "fading" \in Asker /\ "repair" \in Asker
  BY DEF PushRemote, Asker
<1>2. /\ post' \in [Asker -> Nat]
      /\ ~Pending("pair")'
      /\ Pending("fading")' => Pending("fading") \/ Pending("pair")
      /\ Pending("repair")' <=> Pending("repair")
      /\ post'["repair"] = post["repair"]
  BY <1>1, PostMoved DEF IInv
<1>3. leaving' \in Nat /\ fading' \in BOOLEAN
  BY DEF PushRemote, IInv, TypeOK
<1> QED BY <1>2, <1>3 DEF PushRemote

LEMMA LanWinsInv == IInv /\ LanWins => IInv'
<1> SUFFICES ASSUME IInv, LanWins PROVE IInv'
  OBVIOUS
<1>1. home \in {"probing", "met", "failed", "rejected"} /\ PushRemote
  BY DEF LanWins
<1>2. \A j \in Client : attach'[j] = IF attach[j] = "home" THEN "lost" ELSE attach[j]
  BY DEF LanWins
<1>3. over = "none" /\ ~fading /\ home' = "gone" /\ over' = "remote" /\ mode' = "starting"
  BY <1>1, PushRemoteInv DEF IInv, FlowsAwaited
<1>4. TypeOK'
  <2>1. attach' \in [Client -> Flows]
    BY <1>2 DEF LanWins, IInv, TypeOK, Flows, Asker
  <2> QED BY <1>1, <1>3, <2>1, PushRemoteInv DEF LanWins, IInv, TypeOK, appVars
<1>5. DueForDropped'
  BY DEF LanWins, IInv, DueForDropped, HasChannel, appVars
<1>6. /\ ~Awaited("home")'
      /\ \A who \in {"repair", "pair", "fading"} : Awaited(who)' <=> Awaited(who)
  BY <1>2 DEF Awaited
<1>7. FlowsAwaited'
  BY <1>1, <1>3, <1>6, PushRemoteInv DEF IInv, FlowsAwaited
<1>8. OneEach'
  <2>1. post'["repair"] <= 1 /\ (Pending("repair")' <=> Pending("repair"))
    BY <1>1, PushRemoteInv DEF IInv, OneEach
  <2> QED BY <1>2, <2>1 DEF IInv, OneEach
<1>9. ReplacesAnother'
  BY <1>2 DEF LanWins, IInv, ReplacesAnother, appVars
<1> QED BY <1>4, <1>5, <1>7, <1>8, <1>9 DEF IInv

LEMMA LanLosesInv == IInv /\ LanLoses => IInv'
<1> SUFFICES ASSUME IInv, LanLoses PROVE IInv'
  OBVIOUS
<1>1. UNCHANGED <<appVars, linkVars, asked>>
  BY DEF LanLoses
<1>2. DueForDropped' /\ ReplacesAnother'
  BY <1>1 DEF IInv, DueForDropped, HasChannel, ReplacesAnother, appVars, linkVars
<1>3. \A who : Awaited(who)' <=> Awaited(who)
  BY <1>1 DEF Awaited, linkVars
<1>4. CASE home = "met" /\ PushRemote /\ seen' = connected
  <2>1. TypeOK'
    BY <1>1, <1>4, PushRemoteInv DEF IInv, TypeOK, appVars, linkVars
  <2>2. FlowsAwaited'
    BY <1>3, <1>4, PushRemoteInv DEF IInv, FlowsAwaited
  <2>3. OneEach'
    BY <1>1, <1>4, PushRemoteInv DEF IInv, OneEach, linkVars
  <2> QED BY <1>2, <2>1, <2>2, <2>3 DEF IInv
<1>5. CASE /\ \/ home = "met" /\ ~connected /\ home' = "idle"
              \/ home = "probing" /\ home' = "connecting"
              \/ home = "failed" /\ home' = "idle"
              \/ home = "rejected" /\ home' = "asking"
           /\ UNCHANGED <<post, over, mode, proxy, seen, leaving, fading>>
  <2>1. \A p : Pending(p)' <=> Pending(p)
    BY <1>5 DEF Pending
  <2>2. TypeOK'
    BY <1>1, <1>5 DEF IInv, TypeOK, appVars, linkVars
  <2>3. FlowsAwaited'
    BY <1>3, <1>5, <2>1 DEF IInv, FlowsAwaited
  <2>4. OneEach'
    BY <1>1, <1>5, <2>1 DEF IInv, OneEach, linkVars
  <2> QED BY <1>2, <2>2, <2>3, <2>4 DEF IInv
<1> QED BY <1>4, <1>5 DEF LanLoses

LEMMA PagesInv ==
    IInv /\ (OpenPairing \/ SubmitPairing \/ EnterPin \/ Bootstrap \/ LanFails \/ Leave) => IInv'
<1> SUFFICES ASSUME IInv,
                    OpenPairing \/ SubmitPairing \/ EnterPin \/ Bootstrap \/ LanFails \/ Leave
             PROVE  IInv'
  OBVIOUS
<1>1. UNCHANGED <<appVars, linkVars, asked>>
  BY DEF OpenPairing, SubmitPairing, EnterPin, Bootstrap, LanFails, Leave
<1>2. DueForDropped' /\ ReplacesAnother'
  BY <1>1 DEF IInv, DueForDropped, HasChannel, ReplacesAnother, appVars, linkVars
<1>3. \A who : Awaited(who)' <=> Awaited(who)
  BY <1>1 DEF Awaited, linkVars
<1>4. TypeOK'
  <2>1. CASE OpenPairing
    BY <1>1, <2>1 DEF IInv, TypeOK, appVars, linkVars, pageVars, OpenPairing
  <2>2. CASE SubmitPairing
    <3>1. post' \in [Asker -> Nat]
      BY <2>2, PostMore DEF SubmitPairing, IInv, Asker
    <3> QED BY <1>1, <2>2, <3>1 DEF IInv, TypeOK, appVars, linkVars, pageVars, SubmitPairing
  <2>3. CASE EnterPin
    <3>1. post' \in [Asker -> Nat]
      BY <2>3, PostMore DEF EnterPin, IInv, TypeOK, Asker
    <3> QED BY <1>1, <2>3, <3>1 DEF IInv, TypeOK, appVars, linkVars, pageVars, EnterPin
  <2>4. CASE Bootstrap
    BY <1>1, <2>4 DEF IInv, TypeOK, appVars, linkVars, pageVars, Bootstrap, StartTunnel
  <2>5. CASE LanFails
    BY <1>1, <2>5 DEF IInv, TypeOK, appVars, linkVars, pageVars, LanFails, StartTunnel
  <2>6. CASE Leave
    BY <1>1, <2>6 DEF IInv, TypeOK, appVars, linkVars, pageVars, Leave
  <2> QED BY <2>1, <2>2, <2>3, <2>4, <2>5, <2>6
<1>5. CASE SubmitPairing
  <2>1. /\ post'["repair"] = post["repair"]
        /\ Pending("repair")' <=> Pending("repair")
        /\ Pending("fading")' <=> Pending("fading")
    BY <1>5, PostMore DEF SubmitPairing, IInv, Asker
  <2>2. FlowsAwaited'
    BY <1>3, <1>5, <2>1 DEF IInv, FlowsAwaited, SubmitPairing, pageVars
  <2>3. OneEach'
    BY <1>1, <2>1 DEF IInv, OneEach, linkVars
  <2> QED BY <1>2, <1>4, <2>2, <2>3 DEF IInv
<1>6. CASE EnterPin /\ post' = [post EXCEPT !["repair"] = @ + 1]
  <2>1. ~Pending("repair") /\ ~Awaited("repair")
    BY <1>6 DEF EnterPin, IInv, FlowsAwaited
  <2>2. /\ Pending("repair")' /\ post'["repair"] <= 1
        /\ Pending("pair")' <=> Pending("pair")
        /\ Pending("fading")' <=> Pending("fading")
    BY <1>6, <2>1, PostMore DEF IInv, Asker
  <2>3. home' \in {"idle", "repairing"}
    BY <1>6 DEF EnterPin
  <2>4. home' = "repairing"
    <3>1. post' # post
      BY <2>1, <2>2 DEF Pending
    <3> QED BY <1>6, <3>1 DEF EnterPin
  <2>5. FlowsAwaited'
    BY <1>3, <1>6, <2>1, <2>2, <2>4 DEF IInv, FlowsAwaited, EnterPin
  <2>6. OneEach'
    BY <1>1, <2>1, <2>2 DEF IInv, OneEach, Awaited, linkVars
  <2> QED BY <1>2, <1>4, <2>5, <2>6 DEF IInv
<1>7. CASE ~SubmitPairing /\ UNCHANGED post
  <2>1. \A p : Pending(p)' <=> Pending(p)
    BY <1>7 DEF Pending
  <2>2. OneEach'
    BY <1>1, <1>7, <2>1 DEF IInv, OneEach, linkVars
  <2>3. FlowsAwaited'
    <3>1. CASE OpenPairing
      BY <1>3, <2>1, <3>1 DEF IInv, FlowsAwaited, OpenPairing
    <3>2. CASE EnterPin
      <4>1. home' = "idle" \/ home' = "repairing"
        BY <3>2 DEF EnterPin
      <4>2. home' = "idle"
        <5>1. post["repair"] \in Nat
          BY DEF IInv, TypeOK, Asker
        <5>2. [post EXCEPT !["repair"] = @ + 1] # post
          BY <5>1 DEF IInv, TypeOK, Asker
        <5> QED BY <1>7, <3>2, <5>2 DEF EnterPin
      <4> QED BY <1>3, <2>1, <3>2, <4>2 DEF IInv, FlowsAwaited, EnterPin
    <3>3. CASE Bootstrap \/ LanFails \/ Leave
      BY <1>3, <2>1, <3>3 DEF IInv, FlowsAwaited, TypeOK, Bootstrap, LanFails, Leave, StartTunnel
    <3> QED BY <1>7, <3>1, <3>2, <3>3
  <2> QED BY <1>2, <1>4, <2>2, <2>3 DEF IInv
<1> QED BY <1>5, <1>6, <1>7 DEF OpenPairing, EnterPin, Bootstrap, LanFails, Leave

LEMMA ClosePairingInv == IInv /\ ClosePairing => IInv'
<1> SUFFICES ASSUME IInv, ClosePairing PROVE IInv'
  OBVIOUS
<1>1. \A j \in Client : attach'[j] = IF attach[j] = "pair" THEN "fading" ELSE attach[j]
  BY DEF ClosePairing, Fade
<1>2. /\ post' \in [Asker -> Nat]
      /\ ~Pending("pair")' /\ post'["repair"] = post["repair"]
      /\ Pending("repair")' <=> Pending("repair")
  BY PostMoved DEF ClosePairing, IInv, Asker
<1>3. TypeOK' /\ DueForDropped'
  BY <1>1, <1>2 DEF ClosePairing, Fade, IInv, TypeOK, DueForDropped, HasChannel, Flows, Asker, appVars
<1>4. /\ ~Awaited("pair")'
      /\ \A who \in {"home", "repair"} : Awaited(who)' <=> Awaited(who)
  BY <1>1 DEF Awaited
<1>5. FlowsAwaited'
  BY <1>2, <1>4 DEF ClosePairing, IInv, FlowsAwaited
<1>6. OneEach' /\ ReplacesAnother'
  BY <1>1, <1>2 DEF ClosePairing, IInv, OneEach, ReplacesAnother, appVars
<1> QED BY <1>3, <1>5, <1>6 DEF IInv

LEMMA UnmountInv == IInv /\ Unmount => IInv'
<1> SUFFICES ASSUME IInv, Unmount PROVE IInv'
  OBVIOUS
<1>1. \A j \in Client : attach'[j] = IF attach[j] = "fading" THEN "lost" ELSE attach[j]
  BY DEF Unmount, Orphaned
<1>2. /\ post' \in [Asker -> Nat]
      /\ ~Pending("fading")' /\ post'["repair"] = post["repair"]
      /\ Pending("repair")' <=> Pending("repair")
      /\ Pending("pair")' <=> Pending("pair")
  <2>1. post' = Moved("fading", "lost") /\ {"fading", "lost", "repair", "pair"} \subseteq Asker
    BY DEF Unmount, Orphaned, Asker
  <2> QED BY <2>1, PostMoved DEF IInv
<1>7. TypeOK'
  <2>1. attach' \in [Client -> Flows]
    BY <1>1 DEF Unmount, IInv, TypeOK, Flows, Asker
  <2>2. post' \in [Asker -> Nat] /\ fading' \in BOOLEAN
    BY <1>2 DEF Unmount
  <2>3. UNCHANGED <<appVars, sock, shut, origin, pageVars, leaving, asked>>
    BY DEF Unmount
  <2> QED BY <2>1, <2>2, <2>3 DEF IInv, TypeOK, appVars, pageVars
<1>3. TypeOK' /\ DueForDropped'
  BY <1>7 DEF Unmount, IInv, DueForDropped, HasChannel, appVars
<1>4. /\ ~Awaited("fading")'
      /\ \A who \in {"home", "repair", "pair"} : Awaited(who)' <=> Awaited(who)
  BY <1>1 DEF Awaited
<1>5. FlowsAwaited'
  BY <1>2, <1>4 DEF Unmount, IInv, FlowsAwaited, pageVars
<1>6. OneEach' /\ ReplacesAnother'
  BY <1>1, <1>2 DEF Unmount, IInv, OneEach, ReplacesAnother, appVars
<1> QED BY <1>3, <1>5, <1>6 DEF IInv

LEMMA DisposeInv == IInv /\ Dispose => IInv'
<1> SUFFICES ASSUME IInv, Dispose PROVE IInv'
  OBVIOUS
<1>0. shut' \in [Client -> BOOLEAN] /\ leaving' \in Nat /\ seen' \in BOOLEAN
  BY DEF Dispose, Notify, IInv, TypeOK
<1>1. TypeOK'
  BY <1>0 DEF Dispose, IInv, TypeOK
<1>4. DueForDropped' /\ ReplacesAnother'
  BY PhoneAssumption DEF Dispose, IInv, DueForDropped, ReplacesAnother
<1>2. \A who : (Awaited(who)' <=> Awaited(who)) /\ (Pending(who)' <=> Pending(who))
  BY DEF Dispose, Awaited, Pending
<1>3. OneEach'
  BY <1>2 DEF Dispose, IInv, OneEach
<1>5. FlowsAwaited'
  BY <1>2 DEF Dispose, IInv, FlowsAwaited
<1> QED BY <1>1, <1>3, <1>4, <1>5 DEF IInv

LEMMA RestartInv == IInv /\ Restart => IInv'
<1> SUFFICES ASSUME Restart PROVE IInv'
  OBVIOUS
<1>1. /\ sock' \in [Client -> {"unused", "opening", "open", "ended"}]
      /\ shut' \in [Client -> BOOLEAN]
      /\ attach' \in [Client -> Flows] /\ origin' \in [Client -> Client \cup {None}]
  BY DEF Restart, Flows
<1>2. asked' \in 0..MaxAsked
  BY PhoneAssumption DEF Restart
<1>0. post' \in [Asker -> Nat] /\ post'["repair"] = 0 /\ \A p \in Asker : ~Pending(p)'
  BY DEF Restart, Pending, Asker
<1>3. TypeOK'
  BY <1>0, <1>1, <1>2 DEF Restart, TypeOK
<1>4. FlowsAwaited'
  BY <1>0 DEF Restart, FlowsAwaited, Awaited, Asker
<1>5. OneEach' /\ DueForDropped' /\ ReplacesAnother'
  BY <1>0 DEF Restart, OneEach, DueForDropped, ReplacesAnother, Asker
<1> QED BY <1>3, <1>4, <1>5 DEF IInv

\* The attach of a client ends, in the same way for every outcome.
LEMMA EndOfAttach ==
    ASSUME IInv, NEW k \in Client,
           attach' = [attach EXCEPT ![k] = "none"],
           origin' = [origin EXCEPT ![k] = None],
           UNCHANGED <<post, client>>
    PROVE  /\ attach' \in [Client -> Flows]
           /\ origin' \in [Client -> Client \cup {None}]
           /\ OneEach' /\ ReplacesAnother'
           /\ \A who \in Asker : Pending(who)' <=> Pending(who)
           /\ \A who \in {"home", "repair"} :
                 Awaited(who)' <=> Awaited(who) /\ attach[k] # who
           /\ \A who \in Asker : Awaited(who)' => Awaited(who)
<1>1. /\ attach' \in [Client -> Flows]
      /\ origin' \in [Client -> Client \cup {None}]
  BY DEF IInv, TypeOK, Flows
<1>2. \A j \in Client : attach'[j] = IF j = k THEN "none" ELSE attach[j]
  BY DEF IInv, TypeOK
<1>0. \A who : Pending(who)' <=> Pending(who)
  BY DEF Pending
<1>3. OneEach' /\ ReplacesAnother'
  BY <1>0, <1>2 DEF IInv, OneEach, ReplacesAnother, TypeOK
<1>4. ASSUME NEW who \in {"home", "repair"}
      PROVE  Awaited(who)' <=> Awaited(who) /\ attach[k] # who
  BY <1>2, <1>4 DEF IInv, OneEach, Awaited
<1>5. \A who \in Asker : Awaited(who)' => Awaited(who)
  BY <1>2 DEF Awaited, Asker
<1> QED BY <1>0, <1>1, <1>3, <1>4, <1>5

\* What an attach that succeeds does to the pages.
LEMMA ConnectedInv ==
    ASSUME IInv, NEW k \in Client, attach[k] # "none", Connected(k),
           UNCHANGED <<client, closing, timer, shut, asked>>,
           sock' \in [Client -> {"unused", "opening", "open", "ended"}],
           DueForDropped'
    PROVE  IInv'
<1>1. connected' = TRUE /\ origin' = [origin EXCEPT ![k] = None]
  BY DEF Connected
<1>2. Awaited(attach[k])
  BY DEF Awaited
<1>3. CASE /\ \/ attach[k] = "timer" \/ attach[k] = "lost"
              \/ (attach[k] = "home" /\ home = "probing")
           /\ attach' = [attach EXCEPT ![k] = "none"]
           /\ home' = IF attach[k] = "home" THEN "met" ELSE home
           /\ IF attach[k] = "timer" THEN UNCHANGED seen ELSE Notify(over)
           /\ UNCHANGED <<post, over, mode, proxy, leaving, fading>>
  <2>1. /\ attach' \in [Client -> Flows]
        /\ origin' \in [Client -> Client \cup {None}]
        /\ OneEach' /\ ReplacesAnother'
        /\ \A who \in Asker : Pending(who)' <=> Pending(who)
        /\ \A who \in {"home", "repair"} : Awaited(who)' <=> Awaited(who) /\ attach[k] # who
        /\ \A who \in Asker : Awaited(who)' => Awaited(who)
    BY <1>1, <1>3, EndOfAttach
  <2>2. seen' \in BOOLEAN
    BY <1>3 DEF Notify, IInv, TypeOK
  <2>3. TypeOK'
    BY <1>1, <1>3, <2>1, <2>2 DEF IInv, TypeOK
  <2>4. FlowsAwaited'
    <3>1. CASE attach[k] = "home"
      BY <1>3, <2>1, <3>1 DEF IInv, FlowsAwaited, Asker
    <3>2. CASE attach[k] # "home"
      <4>1. attach[k] # "repair"
        BY <1>3
      <4> QED BY <1>3, <2>1, <3>2, <4>1 DEF IInv, FlowsAwaited, Asker
    <3> QED BY <3>1, <3>2
  <2> QED BY <2>1, <2>3, <2>4 DEF IInv
<1>4. CASE /\ \/ attach[k] \in {"repair", "pair", "fading"}
              \/ (attach[k] = "home" /\ home = "connecting")
           /\ attach' = [j \in Client |-> IF j = k THEN "none" ELSE Fade(attach[j])]
           /\ PushRemote
           /\ Notify("remote")
  <2>1. \A j \in Client : attach'[j] = IF j = k THEN "none"
                                       ELSE IF attach[j] = "pair" THEN "fading" ELSE attach[j]
    BY <1>4 DEF Fade
  <2>2. /\ attach' \in [Client -> Flows]
        /\ origin' \in [Client -> Client \cup {None}]
    <3>1. attach' \in [Client -> Flows]
      BY <1>4, <2>1 DEF IInv, TypeOK, Flows, Asker
    <3> QED BY <1>1, <3>1 DEF IInv, TypeOK
  <2>3. TypeOK'
    <3>1. seen' \in BOOLEAN
      BY <1>4 DEF Notify
    <3> QED BY <1>1, <1>4, <2>2, <3>1, PushRemoteInv DEF IInv, TypeOK
  <2>4. /\ \A who \in {"home", "repair"} : Awaited(who)' <=> Awaited(who) /\ attach[k] # who
        /\ ~Awaited("pair")'
        /\ Awaited("fading")' => Awaited("fading") \/ Awaited("pair")
    <3>1. \A who \in {"home", "repair"} : Awaited(who)' <=> Awaited(who) /\ attach[k] # who
      BY <2>1 DEF IInv, OneEach, Awaited
    <3>2. ~Awaited("pair")' /\ (Awaited("fading")' => Awaited("fading") \/ Awaited("pair"))
      BY <2>1 DEF Awaited
    <3> QED BY <3>1, <3>2
  <2>5. OneEach' /\ ReplacesAnother'
    <3>1. post'["repair"] <= 1 /\ (Pending("repair")' <=> Pending("repair"))
      BY <1>4, PushRemoteInv DEF IInv, OneEach
    <3>2. OneEach'
      BY <2>1, <3>1 DEF IInv, OneEach
    <3>3. ReplacesAnother'
      BY <1>1, <2>1 DEF IInv, ReplacesAnother, TypeOK
    <3> QED BY <3>2, <3>3
  <2>6. FlowsAwaited'
    <3>1. CASE attach[k] \in {"home", "repair"}
      <4>1. home \in {"connecting", "repairing"} /\ over = "none" /\ ~fading
        BY <1>2, <1>4, <3>1 DEF IInv, FlowsAwaited
      <4>2. ~Awaited("home")' /\ ~Awaited("repair")' /\ ~Pending("repair")'
        <5>1. ~Pending("repair")
          BY <1>4, <3>1, <4>1 DEF IInv, FlowsAwaited, OneEach
        <5>2. ~Pending("repair")'
          BY <1>4, <5>1, PushRemoteInv
        <5>3. ~Awaited("home")' /\ ~Awaited("repair")'
          BY <1>2, <1>4, <2>4, <3>1, <4>1 DEF IInv, FlowsAwaited
        <5> QED BY <5>2, <5>3
      <4>3. over' = "remote" /\ mode' = "starting" /\ home' = "gone"
            /\ ~Pending("pair")' /\ ~Pending("fading")'
        BY <1>4, <4>1, PushRemoteInv DEF IInv, FlowsAwaited
      <4>4. ~Awaited("fading")'
        BY <2>4, <4>1 DEF IInv, FlowsAwaited
      <4> QED BY <2>4, <4>2, <4>3, <4>4 DEF FlowsAwaited
    <3>2. CASE attach[k] \in {"pair", "fading"}
      <4>1. over = "pair" \/ fading
        BY <1>2, <3>2 DEF IInv, FlowsAwaited
      <4>2. home \in {"idle", "gone"} /\ ~Awaited("home") /\ ~Awaited("repair") /\ ~Pending("repair")
        BY <4>1 DEF IInv, FlowsAwaited
      <4>3. over' = "remote" /\ mode' = "starting" /\ home' \in {"idle", "gone"}
            /\ fading' /\ ~Pending("pair")' /\ ~Pending("repair")'
        BY <1>4, <4>1, <4>2, PushRemoteInv
      <4> QED BY <2>4, <4>2, <4>3 DEF FlowsAwaited
    <3> QED BY <1>4, <3>1, <3>2
  <2> QED BY <2>3, <2>5, <2>6 DEF IInv
<1> QED BY <1>3, <1>4 DEF Connected

LEMMA FirstFrameInv == \A k \in Client : IInv /\ FirstFrame(k) => IInv'
<1> SUFFICES ASSUME NEW k \in Client, IInv, FirstFrame(k) PROVE IInv'
  OBVIOUS
<1>1. /\ sock' \in [Client -> {"unused", "opening", "open", "ended"}]
      /\ \A j \in Client : HasChannel(j)' <=> HasChannel(j)
  BY DEF FirstFrame, IInv, TypeOK, HasChannel
<1>2. DueForDropped'
  BY <1>1 DEF FirstFrame, IInv, TypeOK, DueForDropped
<1>3. CASE attach[k] # "none"
  BY <1>1, <1>2, <1>3, ConnectedInv DEF FirstFrame
<1>4. CASE attach[k] = "none"
  <2>1. UNCHANGED <<connected, attach, origin, post, pageVars, leaving, fading>>
    BY <1>4 DEF FirstFrame
  <2>2. \A p : (Pending(p)' <=> Pending(p)) /\ (Awaited(p)' <=> Awaited(p))
    BY <2>1 DEF Pending, Awaited
  <2>3. TypeOK'
    BY <1>1, <2>1 DEF FirstFrame, IInv, TypeOK, pageVars
  <2>4. FlowsAwaited'
    BY <2>1, <2>2 DEF IInv, FlowsAwaited, pageVars
  <2>5. OneEach' /\ ReplacesAnother'
    BY <2>1, <2>2 DEF FirstFrame, IInv, OneEach, ReplacesAnother
  <2> QED BY <1>2, <2>3, <2>4, <2>5 DEF IInv
<1> QED BY <1>3, <1>4

LEMMA OptimisticInv == \A k \in Client : IInv /\ Optimistic(k) => IInv'
<1> SUFFICES ASSUME NEW k \in Client, IInv, Optimistic(k) PROVE IInv'
  OBVIOUS
<1>1. DueForDropped'
  BY DEF Optimistic, IInv, DueForDropped, HasChannel
<1> QED BY <1>1, ConnectedInv DEF Optimistic, IInv, TypeOK

LEMMA EndsInv == \A k \in Client, u \in BOOLEAN : IInv /\ Ends(k, u) => IInv'
<1> SUFFICES ASSUME NEW k \in Client, NEW u \in BOOLEAN, IInv, Ends(k, u) PROVE IInv'
  OBVIOUS
<1>1. /\ attach' \in [Client -> Flows]
      /\ origin' \in [Client -> Client \cup {None}]
      /\ OneEach' /\ ReplacesAnother'
      /\ \A who \in Asker : Pending(who)' <=> Pending(who)
      /\ \A who \in {"home", "repair"} : Awaited(who)' <=> Awaited(who) /\ attach[k] # who
      /\ \A who \in Asker : Awaited(who)' => Awaited(who)
  BY EndOfAttach DEF Ends
<1>7. /\ attach[k] = "repair" => home' = "idle"
      /\ attach[k] = "home" /\ home = "probing" => home' \in {"rejected", "failed"}
      /\ attach[k] = "home" /\ home # "probing" => home' \in {"asking", "idle"}
      /\ attach[k] \notin {"home", "repair"} => home' = home
  <2> DEFINE new == CASE attach[k] = "repair" -> "idle"
                      [] attach[k] = "home" /\ home = "probing" -> IF u THEN "rejected" ELSE "failed"
                      [] attach[k] = "home" /\ home # "probing" -> IF u THEN "asking" ELSE "idle"
                      [] OTHER -> home
  <2>1. /\ attach[k] = "repair" => new = "idle"
        /\ attach[k] = "home" /\ home = "probing" => new \in {"rejected", "failed"}
        /\ attach[k] = "home" /\ home # "probing" => new \in {"asking", "idle"}
        /\ attach[k] \notin {"home", "repair"} => new = home
    OBVIOUS
  <2>2. home' = new
    BY DEF Ends
  <2> HIDE DEF new
  <2> QED BY <2>1, <2>2
<1>2. /\ sock' \in [Client -> {"unused", "opening", "open", "ended"}]
      /\ sock'[k] = "ended" /\ \A j \in Client : j # k => sock'[j] = sock[j]
  BY DEF Ends, IInv, TypeOK
<1>3. /\ timer' = None \/ timer' \in [of : Client, after : SUBSET Client]
      /\ timer' # None /\ timer' # timer => timer'.of = k
  <2> DEFINE dropped == IF shut[k] THEN timer ELSE Scheduled(k, attach', timer)
  <2>1. /\ dropped = None \/ dropped \in [of : Client, after : SUBSET Client]
        /\ dropped # None => dropped = timer \/ dropped.of = k
    BY ScheduledType DEF IInv, TypeOK
  <2>2. attach[k] = "timer" => Scheduled(origin[k], attach', dropped) = dropped
    BY DEF Scheduled, StillActive, IInv, ReplacesAnother
  <2>3. timer' = dropped
    BY <2>2 DEF Ends
  <2> QED BY <2>1, <2>3
<1>4. DueForDropped'
  BY <1>2, <1>3 DEF Ends, IInv, DueForDropped, HasChannel, TypeOK
<1>5. TypeOK'
  <2>1. home' \in {"idle", "probing", "met", "failed", "rejected", "connecting",
                   "asking", "repairing", "gone"}
    BY <1>7 DEF IInv, TypeOK
  <2>2. seen' \in BOOLEAN /\ connected' \in BOOLEAN
    BY DEF Ends, Notify, IInv, TypeOK
  <2>3. post' \in [Asker -> Nat]
    BY DEF Ends, IInv, TypeOK
  <2> QED BY <1>1, <1>2, <1>3, <2>1, <2>2, <2>3 DEF Ends, IInv, TypeOK
<1>6. FlowsAwaited'
  <2>0. UNCHANGED <<over, mode, fading>>
    BY DEF Ends
  <2>1. CASE attach[k] \in {"home", "repair"}
    <3>1. Awaited(attach[k])
      BY DEF Awaited
    <3>2. home \in {"probing", "connecting", "repairing"} /\ over = "none" /\ ~fading
      BY <2>1, <3>1 DEF IInv, FlowsAwaited
    <3>3. ~Awaited("home")' /\ ~Awaited("repair")' /\ ~Pending("repair")'
      <4>1. CASE attach[k] = "home"
        BY <1>1, <3>1, <4>1 DEF IInv, FlowsAwaited, Asker
      <4>2. CASE attach[k] = "repair"
        BY <1>1, <3>1, <4>2 DEF IInv, FlowsAwaited, OneEach, Asker
      <4> QED BY <2>1, <4>1, <4>2
    <3>4. home' \in {"idle", "asking", "failed", "rejected"}
      BY <1>7, <2>1
    <3>5. /\ ~Pending("pair")' /\ ~Pending("fading")'
          /\ ~Awaited("pair")' /\ ~Awaited("fading")'
      BY <1>1, <3>2 DEF IInv, FlowsAwaited, Asker
    <3> QED BY <2>0, <3>2, <3>3, <3>4, <3>5 DEF IInv, FlowsAwaited
  <2>2. CASE attach[k] \notin {"home", "repair"}
    <3>1. home' = home
      BY <1>7, <2>2
    <3>2. /\ Pending("repair")' <=> Pending("repair")
          /\ Pending("pair")' => Pending("pair")
          /\ Pending("fading")' => Pending("fading")
          /\ Awaited("home")' <=> Awaited("home")
          /\ Awaited("repair")' <=> Awaited("repair")
          /\ Awaited("pair")' => Awaited("pair")
          /\ Awaited("fading")' => Awaited("fading")
      BY <1>1, <2>2 DEF Asker
    <3> QED BY <2>0, <3>1, <3>2 DEF IInv, FlowsAwaited
  <2> QED BY <2>1, <2>2
<1> QED BY <1>1, <1>4, <1>5, <1>6 DEF IInv

-----------------------------------------------------------------------------
(* Theorems. *)

LEMMA StepInv == IInv /\ [Next]_vars => IInv'
<1> SUFFICES ASSUME IInv, [Next]_vars PROVE IInv'
  OBVIOUS
<1>1. CASE User
  BY <1>1, ConnectToInv, PagesInv, ClosePairingInv, RestartInv DEF User
<1>2. CASE Network
  BY <1>2, PairAnswerInv, LanWinsInv, LanLosesInv, PagesInv, FirstFrameInv, EndsInv DEF Network
<1>3. CASE App
  BY <1>3, TimerFiresInv, PagesInv, DisposeInv, UnmountInv, OptimisticInv DEF App
<1>4. CASE UNCHANGED vars
  <2>1. TypeOK' /\ DueForDropped'
    BY <1>4 DEF vars, appVars, linkVars, pageVars, IInv, TypeOK, DueForDropped, HasChannel
  <2>2. FlowsAwaited' /\ OneEach' /\ ReplacesAnother'
    BY <1>4, Frame DEF vars, appVars
  <2> QED BY <2>1, <2>2 DEF IInv
<1> QED BY <1>1, <1>2, <1>3, <1>4 DEF Next

LEMMA PhoneInvariance == Spec => []IInv
  BY InitInv, StepInv, PTL DEF Spec

\* The phone's state keeps its types (AppState, RelayClient, the pages).
THEOREM TypeCorrect == Spec => []TypeOK
<1>1. IInv => TypeOK
  BY DEF IInv
<1> QED BY <1>1, PhoneInvariance, PTL

\* Whatever a page waits for is in flight, and a flow that would open the remote
\* page finds its own page mounted (HomePage._connect, HomePage._repairWithPin,
\* PairingPage._submit).
THEOREM FlowsFinish == Spec => []FlowsAwaited
<1>1. IInv => FlowsAwaited
  BY DEF IInv
<1> QED BY <1>1, PhoneInvariance, PTL

\* _scheduleReconnect and its timer replace only a dropped, active client.
THEOREM ReconnectsDropped == Spec => ReconnectsOnlyDropped
<1>1. IInv /\ Next /\ client' \notin {client, None} /\ ~UserAttach
        => client # None /\ ~HasChannel(client)
  <2> SUFFICES ASSUME IInv, Next, client' \notin {client, None}, ~UserAttach
               PROVE  client # None /\ ~HasChannel(client)
    OBVIOUS
  <2>1. \A k \in Client : \A who : ~Ask(k, who)
    BY PhoneAssumption DEF Ask, UserAttach, IInv, TypeOK
  <2>2. CASE TimerFires
    <3>1. StillActive(timer.of) /\ timer # None
      BY <2>2 DEF TimerFires
    <3> QED BY <3>1, PhoneAssumption DEF StillActive, IInv, TypeOK, DueForDropped
  <2>3. CASE User
    BY <2>1, <2>3 DEF User, ConnectTo, OpenPairing, SubmitPairing, ClosePairing, EnterPin,
                      Leave, Restart, appVars
  <2>4. CASE Network
    BY <2>1, <2>4 DEF Network, PairAnswer, LanWins, LanLoses, LanFails, FirstFrame, Ends, appVars
  <2>5. CASE Bootstrap \/ Dispose \/ Unmount \/ \E k \in Client : Optimistic(k)
    BY <2>5 DEF Bootstrap, Dispose, Unmount, Optimistic, appVars
  <2> QED BY <2>2, <2>3, <2>4, <2>5 DEF Next, App
<1>2. IInv /\ [Next]_vars
        => [client' \notin {client, None} /\ ~UserAttach
              => client # None /\ ~HasChannel(client)]_vars
  BY <1>1
<1> QED BY <1>2, PhoneInvariance, PTL DEF Spec, ReconnectsOnlyDropped

-----------------------------------------------------------------------------
\* AppState holds a client that nobody has closed, and one that has ended is
\* followed by a timer.
Served ==
    client # None => /\ ~closing /\ ~shut[client]
                     /\ sock[client] \in {"opening", "open"} \/ timer # None

\* No timer of a client that was replaced is armed.
NoStaleTimer == timer # None => timer.of = client

\* A tunnel that has dropped and is not left has its reconnect armed.
RecoveryDue == client # None /\ ~HasChannel(client) => timer # None /\ timer.of = client

LEMMA AttachServes ==
    ASSUME IInv, NEW k \in Client, NEW who, NEW c, Attach(k, who, c)
    PROVE  Served'
  BY DEF Attach, Served, IInv, TypeOK

LEMMA ServedStep == IInv /\ Served /\ NoStaleTimer /\ [Next]_vars => Served'
<1> SUFFICES ASSUME IInv, Served, NoStaleTimer, [Next]_vars PROVE Served'
  OBVIOUS
<1>1. ASSUME NEW k \in Client, NEW who, Ask(k, who) PROVE Served'
  BY <1>1, AttachServes DEF Ask
<1>2. ASSUME UNCHANGED <<client, closing, shut, sock, timer>> PROVE Served'
  BY <1>2 DEF Served
<1>3. CASE TimerFires
  <2>1. CASE StillActive(timer.of)
    BY <1>3, <2>1, AttachServes DEF TimerFires
  <2>2. CASE ~StillActive(timer.of)
    BY <1>3, <2>2 DEF TimerFires, StillActive, Served, NoStaleTimer
  <2> QED BY <2>1, <2>2
<1>4. ASSUME NEW k \in Client, NEW u \in BOOLEAN, Ends(k, u) PROVE Served'
  <2>1. /\ UNCHANGED <<client, closing, shut>>
        /\ \A j \in Client : j # k => sock'[j] = sock[j]
    BY <1>4 DEF Ends, IInv, TypeOK
  <2>2. timer # None => timer' # None
    BY <1>4 DEF Ends, Scheduled
  <2>3. client = k /\ ~shut[k] /\ ~closing => timer' # None
    <3> SUFFICES ASSUME client = k, ~shut[k], ~closing PROVE timer' # None
      OBVIOUS
    <3>1. Scheduled(k, attach', timer) # None
      <4>1. Waiting(attach') \in SUBSET Client
        BY DEF Waiting
      <4>2. [of |-> k, after |-> Waiting(attach')] # None
        BY <4>1, NoneAssumption
      <4> QED BY <4>2, <1>4 DEF Scheduled, StillActive
    <3> QED BY <1>4, <3>1 DEF Ends, Scheduled
  <2> QED BY <2>1, <2>2, <2>3 DEF Served, IInv, TypeOK
<1>5. ASSUME NEW k \in Client, FirstFrame(k) PROVE Served'
  BY <1>5 DEF FirstFrame, Served, IInv, TypeOK
<1>6. CASE Dispose \/ Restart
  BY <1>6 DEF Dispose, Restart, Served
<1>7. CASE ConnectTo \/ PairAnswer
  BY <1>1, <1>2, <1>7 DEF ConnectTo, PairAnswer, linkVars, Served
<1>8. CASE \/ OpenPairing \/ SubmitPairing \/ ClosePairing \/ EnterPin \/ Leave
           \/ LanWins \/ LanLoses \/ LanFails \/ Bootstrap \/ Unmount \/ \E k \in Client : Optimistic(k)
           \/ UNCHANGED vars
  BY <1>2, <1>8 DEF OpenPairing, SubmitPairing, ClosePairing, EnterPin, Leave, LanWins, LanLoses, LanFails,
                    Bootstrap, Unmount, Optimistic, vars, appVars, linkVars
<1> QED BY <1>3, <1>4, <1>5, <1>6, <1>7, <1>8 DEF Next, User, Network, App

\* The safe half of TunnelRecovers: as long as no timer of a replaced client is
\* in the way, a dropped tunnel never lacks the timer that brings it back
\* (_scheduleReconnect, app_state.dart:291).
THEOREM DroppedIsDue == Spec /\ []NoStaleTimer => []RecoveryDue
<1>1. Init => Served
  BY DEF Init, Served
<1>2. IInv /\ Served /\ NoStaleTimer => RecoveryDue
  BY DEF Served, NoStaleTimer, RecoveryDue, HasChannel
<1> QED BY <1>1, <1>2, ServedStep, PhoneInvariance, PTL DEF Spec
=============================================================================
