--------------------------- MODULE StreamsProofs ---------------------------
(***************************************************************************)
(* Proofs about Streams, for every number of calls, streams, parts, frames *)
(* and breaks: types; no caller is left without a pending request; an      *)
(* answer is the whole of one reply; a stream is shown without a gap.      *)
(***************************************************************************)
EXTENDS Streams, TLAPS

callVars == <<up, call, leader, inflight, tries, pending>>

CallTypes ==
    /\ up \in BOOLEAN
    /\ call \in [Call -> {"no", "waiting", "answered", "failed"}]
    /\ leader \in [Call -> Call \cup {None}]
    /\ inflight \in [Path -> Safe \cup {None}]
    /\ tries \in [Call -> 0 .. 2]
    /\ pending \subseteq Request

\* What is pending is the last request of its call.
PendingCurrent == \A id \in pending : id[2] = tries[id[1]]

\* Those who share a request have the same outcome as its leader.
LeadersLead ==
    \A c \in Call :
        /\ call[c] = "no" => leader[c] = None
        /\ leader[c] # None => leader[leader[c]] = leader[c] /\ call[c] = call[leader[c]]

\* _inflight holds the leaders of the GETs and HEADs that have not settled.
FlightsLed ==
    /\ \A p \in Path : inflight[p] # None =>
          /\ PathOf[inflight[p]] = p /\ leader[inflight[p]] = inflight[p]
          /\ call[inflight[p]] = "waiting"
    /\ \A c \in Safe : leader[c] = c /\ call[c] = "waiting" => inflight[PathOf[c]] = c

CallInv == CallTypes /\ CallsAwaited /\ PendingCurrent /\ LeadersLead /\ FlightsLed

-----------------------------------------------------------------------------
LEMMA Bounds ==
    /\ None \notin Call /\ Safe \subseteq Call /\ Rpc \subseteq Call /\ Post \subseteq Call
    /\ PathOf \in [Safe -> Path]
    /\ \A c \in Post \cup Rpc : c \notin Safe
    /\ \A id \in Request : id[1] \in Call /\ id[2] \in {1, 2} /\ id = <<id[1], id[2]>>
    /\ \A c \in Call, n \in {1, 2} : <<c, n>> \in Request
  BY StreamsAssumption DEF Call, Request

(* Calls. *)

LEMMA InitCalls == Init => CallInv
  BY Bounds DEF Init, CallInv, CallTypes, CallsAwaited, PendingCurrent, LeadersLead, FlightsLed

LEMMA FrameCalls == CallInv /\ UNCHANGED callVars => CallInv'
  BY DEF CallInv, CallTypes, CallsAwaited, PendingCurrent, LeadersLead, FlightsLed, callVars

LEMMA JoinKeeps ==
  ASSUME CallInv, NEW c \in Safe, call[c] = "no", Join(c), UNCHANGED up
  PROVE  CallInv'
<1> DEFINE l == inflight[PathOf[c]]
<1>1. l \in Safe /\ l \in Call /\ l # None /\ c \in Call /\ l # c
      /\ leader[l] = l /\ call[l] = "waiting" /\ leader[c] = None
  BY Bounds DEF CallInv, CallTypes, LeadersLead, FlightsLed, Join, Shared
<1>2. /\ call' = [call EXCEPT ![c] = "waiting"] /\ leader' = [leader EXCEPT ![c] = l]
      /\ UNCHANGED <<up, inflight, tries, pending>>
  BY DEF Join
<1>3. \A d \in Call : d # c => call'[d] = call[d] /\ leader'[d] = leader[d]
  BY <1>2 DEF CallInv, CallTypes
<1>4. call'[c] = "waiting" /\ leader'[c] = l
  BY <1>1, <1>2 DEF CallInv, CallTypes
<1>5. CallTypes'
  BY <1>1, <1>2 DEF CallInv, CallTypes
<1>6. \A d \in Call : leader[d] # c
  BY <1>1, Bounds DEF CallInv, LeadersLead
<1>7. CallsAwaited'
  <2>1. \A id \in pending : id[1] # c
    BY <1>1, Bounds DEF CallInv, CallsAwaited
  <2>2. \E id \in pending : id[1] = l /\ id[2] = tries[l]
    BY <1>1 DEF CallInv, CallsAwaited
  <2> QED BY <1>1, <1>2, <1>3, <1>4, <2>1, <2>2, Bounds DEF CallInv, CallTypes, CallsAwaited
<1>8. PendingCurrent'
  BY <1>2 DEF CallInv, PendingCurrent
<1>9. LeadersLead'
  BY <1>1, <1>3, <1>4, <1>6, Bounds DEF CallInv, CallTypes, LeadersLead
<1>10. FlightsLed'
  BY <1>1, <1>2, <1>3, <1>4, Bounds DEF CallInv, CallTypes, FlightsLed
<1> QED BY <1>5, <1>7, <1>8, <1>9, <1>10 DEF CallInv

LEMMA NoChannelKeeps ==
  ASSUME CallInv, NEW c \in Call, call[c] = "no", NoChannel(c), UNCHANGED up
  PROVE  CallInv'
<1>1. leader[c] = None /\ \A d \in Call : leader[d] # c
  BY Bounds DEF CallInv, CallTypes, LeadersLead
<1>2. \A d \in Call : d # c => call'[d] = call[d]
  BY DEF CallInv, CallTypes, NoChannel
<1>3. call'[c] = "failed"
  BY DEF CallInv, CallTypes, NoChannel
<1>4. UNCHANGED <<up, leader, inflight, tries, pending>> /\ ~up
  BY DEF NoChannel
<1>5. CallTypes'
  BY <1>4 DEF CallInv, CallTypes, NoChannel
<1>6. CallsAwaited' /\ PendingCurrent'
  BY <1>1, <1>2, <1>3, <1>4, Bounds DEF CallInv, CallTypes, CallsAwaited, PendingCurrent
<1>7. LeadersLead'
  BY <1>1, <1>2, <1>3, <1>4, Bounds DEF CallInv, CallTypes, LeadersLead
<1>8. FlightsLed'
  BY <1>1, <1>2, <1>3, <1>4, Bounds DEF CallInv, CallTypes, FlightsLed
<1> QED BY <1>5, <1>6, <1>7, <1>8 DEF CallInv

\* A new leader; if it is a GET or HEAD, nobody led its path.
LEMMA LeadKeeps ==
  ASSUME CallInv, NEW c \in Call, call[c] = "no", Lead(c), UNCHANGED up,
         \/ /\ c \in Safe /\ inflight[PathOf[c]] = None
            /\ inflight' = [inflight EXCEPT ![PathOf[c]] = c]
         \/ c \notin Safe /\ UNCHANGED inflight
  PROVE  CallInv'
<1>1. leader[c] = None /\ \A d \in Call : leader[d] # c
  BY Bounds DEF CallInv, CallTypes, LeadersLead
<1>2. \A d \in Call : d # c =>
         call'[d] = call[d] /\ leader'[d] = leader[d] /\ tries'[d] = tries[d]
  BY DEF CallInv, CallTypes, Lead, Issue
<1>3. call'[c] = "waiting" /\ leader'[c] = c /\ tries'[c] = 1
      /\ pending' = pending \cup {<<c, 1>>} /\ up'
  BY DEF CallInv, CallTypes, Lead, Issue, IdOf
<1>4. \A id \in pending : id[1] # c
  BY <1>1, Bounds DEF CallInv, CallTypes, CallsAwaited
<1>5. CallTypes'
  <2>1. inflight' \in [Path -> Safe \cup {None}]
    BY Bounds DEF CallInv, CallTypes
  <2>2. pending' \subseteq Request /\ up' \in BOOLEAN
    BY <1>3, Bounds DEF CallInv, CallTypes
  <2>3. call' = [call EXCEPT ![c] = "waiting"] /\ leader' = [leader EXCEPT ![c] = c]
        /\ tries' = [tries EXCEPT ![c] = 1]
    BY DEF Lead, Issue
  <2>4. 1 \in 0 .. 2
    OBVIOUS
  <2> QED BY <2>1, <2>2, <2>3, <2>4 DEF CallInv, CallTypes
<1>6. CallsAwaited'
  <2>1. \A d \in Call : d # c /\ call[d] = "waiting" => leader[d] \in Call /\ leader[d] # c
    BY <1>1, Bounds DEF CallInv, CallTypes, CallsAwaited
  <2>2. <<c, 1>>[1] = c /\ <<c, 1>>[2] = 1
    OBVIOUS
  <2>3. ASSUME NEW d \in Call, call'[d] = "waiting"
        PROVE  \E x \in pending' : x[1] = leader'[d] /\ x[2] = tries'[leader'[d]]
    <3>1. CASE d = c
      BY <3>1, <1>3, <2>2
    <3>2. CASE d # c
      <4>1. PICK x \in pending : x[1] = leader[d] /\ x[2] = tries[leader[d]]
        BY <2>3, <3>2, <1>2 DEF CallInv, CallsAwaited
      <4> QED BY <4>1, <2>1, <2>3, <3>2, <1>2, <1>3
    <3> QED BY <3>1, <3>2
  <2>4. ASSUME NEW x \in pending'
        PROVE  up' /\ call'[x[1]] = "waiting" /\ leader'[x[1]] = x[1]
    <3>1. CASE x = <<c, 1>>
      BY <3>1, <1>3, <2>2
    <3>2. CASE x \in pending
      <4>1. x[1] \in Call /\ x[1] # c /\ call[x[1]] = "waiting" /\ leader[x[1]] = x[1]
        BY <3>2, <1>4, Bounds DEF CallInv, CallTypes, CallsAwaited
      <4> QED BY <4>1, <1>2, <1>3
    <3> QED BY <3>1, <3>2, <2>4, <1>3
  <2> QED BY <2>3, <2>4 DEF CallsAwaited
<1>7. PendingCurrent'
  BY <1>2, <1>3, <1>4, Bounds DEF CallInv, CallTypes, PendingCurrent
<1>8. LeadersLead'
  BY <1>1, <1>2, <1>3, Bounds DEF CallInv, CallTypes, LeadersLead
<1>9. FlightsLed'
  <2>1. CASE c \in Safe /\ inflight[PathOf[c]] = None
             /\ inflight' = [inflight EXCEPT ![PathOf[c]] = c]
    BY <2>1, <1>1, <1>2, <1>3, Bounds DEF CallInv, CallTypes, FlightsLed
  <2>2. CASE c \notin Safe /\ UNCHANGED inflight
    BY <2>2, <1>1, <1>2, <1>3, Bounds DEF CallInv, CallTypes, FlightsLed
  <2> QED BY <2>1, <2>2
<1> QED BY <1>5, <1>6, <1>7, <1>8, <1>9 DEF CallInv

LEMMA SettleKeeps ==
  ASSUME CallInv, NEW id \in pending, NEW outcome \in {"answered", "failed"}, NEW parts,
         Settle(id, outcome, parts), UNCHANGED <<up, leader>>
  PROVE  CallInv'
<1> DEFINE c == id[1]
<1>1. c \in Call /\ leader[c] = c /\ call[c] = "waiting" /\ id \in Request
      /\ id[2] = tries[c] /\ up
  BY Bounds DEF CallInv, CallTypes, CallsAwaited, PendingCurrent
<1>2. \A d \in Call : call'[d] = IF leader[d] = c THEN outcome ELSE call[d]
  BY DEF Settle
<1>3. /\ pending' = pending \ {id} /\ UNCHANGED <<up, leader, tries>>
      /\ inflight' = [p \in Path |-> IF inflight[p] = c THEN None ELSE inflight[p]]
  BY DEF Settle
<1>4. CallTypes'
  BY <1>3 DEF CallInv, CallTypes, Settle
<1>5. \A x \in pending' : x[1] # c /\ x \in pending
  BY <1>1, <1>3, Bounds DEF CallInv, CallTypes, PendingCurrent
<1>6. CallsAwaited'
  <2>1. ASSUME NEW d \in Call, call'[d] = "waiting"
        PROVE  \E x \in pending' : x[1] = leader'[d] /\ x[2] = tries'[leader'[d]]
    BY <2>1, <1>1, <1>2, <1>3 DEF CallInv, CallsAwaited
  <2>2. ASSUME NEW x \in pending'
        PROVE  up' /\ call'[x[1]] = "waiting" /\ leader'[x[1]] = x[1]
    BY <1>2, <1>3, <1>5, Bounds DEF CallInv, CallTypes, CallsAwaited
  <2> QED BY <2>1, <2>2 DEF CallsAwaited
<1>7. PendingCurrent'
  BY <1>3 DEF CallInv, PendingCurrent
<1>8. LeadersLead'
  BY <1>1, <1>2, <1>3, Bounds DEF CallInv, CallTypes, LeadersLead
<1>9. FlightsLed'
  BY <1>1, <1>2, <1>3, Bounds DEF CallInv, CallTypes, FlightsLed
<1> QED BY <1>4, <1>6, <1>7, <1>8, <1>9 DEF CallInv

LEMMA RetryKeeps ==
  ASSUME CallInv, NEW id \in pending, Retries(id[1]), Retry(id), UNCHANGED <<up, leader>>
  PROVE  CallInv'
<1> DEFINE c == id[1]
<1>1. c \in Call /\ leader[c] = c /\ call[c] = "waiting" /\ id \in Request
      /\ id[2] = tries[c] /\ tries[c] = 1 /\ up
  BY Bounds DEF CallInv, CallTypes, CallsAwaited, PendingCurrent, Retries
<1>2. /\ pending' = (pending \ {id}) \cup {<<c, 2>>}
      /\ UNCHANGED <<up, leader, call, inflight>>
  BY <1>1 DEF Retry, IdOf
<1>3. tries'[c] = 2 /\ \A d \in Call : d # c => tries'[d] = tries[d]
  BY <1>1 DEF Retry, CallInv, CallTypes
<1>4. CallTypes'
  BY <1>1, <1>2, Bounds DEF CallInv, CallTypes, Retry
<1>5. \A x \in pending \ {id} : x[1] # c /\ x[1] \in Call
  BY <1>1, Bounds DEF CallInv, CallTypes, PendingCurrent
<1>6. <<c, 2>>[1] = c /\ <<c, 2>>[2] = 2
  OBVIOUS
<1>7. CallsAwaited'
  <2>1. ASSUME NEW d \in Call, call'[d] = "waiting"
        PROVE  \E x \in pending' : x[1] = leader'[d] /\ x[2] = tries'[leader'[d]]
    <3>1. CASE leader[d] = c
      BY <3>1, <1>2, <1>3, <1>6
    <3>2. CASE leader[d] # c
      <4>1. PICK x \in pending : x[1] = leader[d] /\ x[2] = tries[leader[d]]
        BY <2>1, <1>2 DEF CallInv, CallsAwaited
      <4>2. x # id /\ x[1] \in Call
        BY <3>2, <4>1, Bounds DEF CallInv, CallTypes
      <4> QED BY <4>1, <4>2, <3>2, <1>2, <1>3
    <3> QED BY <3>1, <3>2
  <2>2. ASSUME NEW x \in pending'
        PROVE  up' /\ call'[x[1]] = "waiting" /\ leader'[x[1]] = x[1]
    BY <1>1, <1>2, <1>6 DEF CallInv, CallsAwaited
  <2> QED BY <2>1, <2>2 DEF CallsAwaited
<1>8. PendingCurrent'
  BY <1>2, <1>3, <1>5, <1>6 DEF CallInv, PendingCurrent
<1>9. LeadersLead' /\ FlightsLed'
  BY <1>2 DEF CallInv, LeadersLead, FlightsLed
<1> QED BY <1>4, <1>7, <1>8, <1>9 DEF CallInv

LEMMA DropKeeps ==
  ASSUME CallInv, PhoneDrop
  PROVE  CallInv'
<1>1. /\ up' = FALSE /\ pending' = {} /\ UNCHANGED <<leader, tries>>
      /\ inflight' = [p \in Path |-> None]
      /\ \A c \in Call : call'[c] = IF call[c] = "waiting" THEN "failed" ELSE call[c]
  BY DEF PhoneDrop, FailedCalls
<1>2. CallTypes'
  BY <1>1 DEF CallInv, CallTypes, PhoneDrop, FailedCalls
<1>3. CallsAwaited' /\ PendingCurrent'
  BY <1>1 DEF CallsAwaited, PendingCurrent
<1>4. LeadersLead'
  BY <1>1, Bounds DEF CallInv, CallTypes, LeadersLead
<1>5. FlightsLed'
  BY <1>1, Bounds DEF FlightsLed
<1> QED BY <1>2, <1>3, <1>4, <1>5 DEF CallInv

\* Every step keeps the calls together.
LEMMA NextCalls == CallInv /\ [Next]_vars => CallInv'
<1> SUFFICES ASSUME CallInv, [Next]_vars PROVE CallInv'
  OBVIOUS
<1>1. ASSUME NEW c \in Call, TunnelSafe(c) PROVE CallInv'
  <2>1. c \in Safe /\ call[c] = "no" /\ UNCHANGED up
    BY <1>1 DEF TunnelSafe
  <2>2. CASE Join(c)
    BY <2>1, <2>2, JoinKeeps
  <2>3. CASE NoChannel(c)
    BY <2>1, <2>3, NoChannelKeeps
  <2>4. CASE /\ inflight[PathOf[c]] = None /\ Lead(c)
             /\ inflight' = [inflight EXCEPT ![PathOf[c]] = c]
    BY <2>1, <2>4, LeadKeeps
  <2> QED BY <1>1, <2>2, <2>3, <2>4 DEF TunnelSafe, Shared
<1>2. ASSUME NEW c \in Call, CallOnce(c) PROVE CallInv'
  <2>1. c \notin Safe /\ call[c] = "no" /\ UNCHANGED up
    BY <1>2, Bounds DEF CallOnce
  <2>2. CASE NoChannel(c)
    BY <2>1, <2>2, NoChannelKeeps
  <2>3. CASE Lead(c) /\ UNCHANGED inflight
    BY <2>1, <2>3, LeadKeeps
  <2> QED BY <1>2, <2>2, <2>3 DEF CallOnce
<1>3. ASSUME NEW id \in Request, RequestTimeout(id) PROVE CallInv'
  BY <1>3, SettleKeeps, RetryKeeps DEF RequestTimeout
<1>4. ASSUME PhoneReceive PROVE CallInv'
  <2> DEFINE f == Head(toPhone)
  <2>1. UNCHANGED <<up, leader>>
    BY <1>4 DEF PhoneReceive
  <2>2. \/ OnReply(f) \/ Accept(f) \/ UNCHANGED <<call, inflight, tries, pending>>
    BY <1>4 DEF PhoneReceive
  <2>3. CASE OnReply(f)
    BY <2>1, <2>3, SettleKeeps, FrameCalls DEF OnReply, callVars
  <2>4. CASE Accept(f)
    BY <2>1, <2>4, SettleKeeps, FrameCalls DEF Accept, callVars
  <2>5. CASE UNCHANGED <<call, inflight, tries, pending>>
    BY <2>1, <2>5, FrameCalls DEF callVars
  <2> QED BY <2>2, <2>3, <2>4, <2>5
<1>5. ASSUME PhoneDrop PROVE CallInv'
  BY <1>5, DropKeeps
<1>6. ASSUME \/ \E s \in Stream : OpenStream(s) \/ LeaveStream(s) \/ ForwardFrame(s) \/ StreamEnds(s)
             \/ PhoneBreak \/ BridgeReceive
             \/ \E r \in Request : Fetched(r) \/ Drained(r)
             \/ Break \/ RelayNotices \/ BridgeClosed \/ BridgeStarts \/ BridgeConnects
             \/ UNCHANGED vars
      PROVE  CallInv'
  <2>1. UNCHANGED callVars
    BY <1>6 DEF callVars, phoneVars, vars, OpenStream, LeaveStream, ForwardFrame, StreamEnds,
                PhoneBreak, BridgeReceive, Fetched, Drained, Break, RelayNotices, BridgeClosed,
                BridgeStarts, BridgeConnects
  <2> QED BY <2>1, FrameCalls
<1> QED BY <1>1, <1>2, <1>3, <1>4, <1>5, <1>6 DEF Next

-----------------------------------------------------------------------------
(* Types. *)

ToB == Requests \cup OpenClose
ToP == Replies \cup PartsOf \cup Frames \cup Eofs

WireInv == pwire \in BOOLEAN /\ toBridge \in Seq(ToB) /\ toPhone \in Seq(ToP)

PieceTypes == got \in [Request -> SUBSET Piece] /\ answer \in [Call -> SUBSET Piece]

TypeInv == CallInv /\ PieceTypes /\ WireInv /\ ViewTypes /\ BridgeTypes

LEMMA TypesAll == TypeInv => TypeOK
  BY DEF TypeInv, CallInv, CallTypes, PieceTypes, WireInv, ToB, ToP, TypeOK, PhoneTypes, WireTypes

LEMMA FrameTypes ==
  ASSUME NEW r \in Request, NEW s \in Stream
  PROVE  /\ Asked(r) \in ToB /\ Opened(s) \in ToB /\ Closed(s) \in ToB
         /\ Reply(None, IdOf(r)) \in ToP /\ Reply(r, IdOf(r)) \in ToP
         /\ Eof(s) \in ToP
         /\ \A n \in Nat : Frame(s, n) \in ToP
         /\ \A i, n \in Nat : Part(r, IdOf(r), i, n) \in ToP
  BY DEF Asked, Opened, Closed, Reply, Eof, Frame, Part, IdOf, ToB, ToP, Requests, OpenClose,
         Replies, PartsOf, Frames, Eofs

\* What stands at the head of a queue.
LEMMA HeadToPhone ==
  ASSUME WireInv, toPhone # <<>>
  PROVE  /\ Tail(toPhone) \in Seq(ToP)
         /\ Head(toPhone).type = "reply" => Head(toPhone) \in Replies
         /\ Head(toPhone).type = "part" => Head(toPhone) \in PartsOf
         /\ Head(toPhone).type = "frame" => Head(toPhone) \in Frames
         /\ Head(toPhone).type = "end" => Head(toPhone) \in Eofs
<1>1. Head(toPhone) \in ToP /\ Tail(toPhone) \in Seq(ToP)
  BY DEF WireInv
<1> QED BY <1>1 DEF ToP, Replies, PartsOf, Frames, Eofs

LEMMA HeadToBridge ==
  ASSUME WireInv, toBridge # <<>>
  PROVE  /\ Tail(toBridge) \in Seq(ToB)
         /\ Head(toBridge).type \in {"rpc", "http"} => Head(toBridge) \in Requests
         /\ Head(toBridge).type \notin {"rpc", "http"} => Head(toBridge) \in OpenClose
<1>1. Head(toBridge) \in ToB /\ Tail(toBridge) \in Seq(ToB)
  BY DEF WireInv
<1> QED BY <1>1 DEF ToB, Requests, OpenClose

LEMMA RouteTypes ==
  ASSUME WireInv, NEW f \in ToB, Route(f), UNCHANGED pwire,
         f.type \in {"rpc", "http"} => Reply(None, f.id) \in ToP
  PROVE  WireInv'
<1>1. toBridge' \in Seq(ToB)
  BY DEF WireInv, Route
<1>2. toPhone' \in Seq(ToP)
  BY DEF WireInv, Route, ToDevice
<1> QED BY <1>1, <1>2 DEF WireInv

LEMMA AskTypes ==
  ASSUME WireInv, NEW r \in Request, Route(Asked(r)), UNCHANGED pwire
  PROVE  WireInv'
<1>1. Asked(r).id = IdOf(r)
  BY DEF Asked
<1>3. Asked(r) \in ToB /\ Reply(None, IdOf(r)) \in ToP
  BY DEF Asked, Reply, IdOf, ToB, ToP, Requests, Replies
<1> QED BY <1>1, <1>3, RouteTypes

LEMMA BridgeSendsTypes ==
  ASSUME WireInv, NEW f \in ToP
  PROVE  BridgeSends(f) \in Seq(ToP)
  BY DEF WireInv, BridgeSends, ToDevice

LEMMA BodiesCount ==
  ASSUME NEW r
  PROVE  Bodies(r) \subseteq 1 .. Parts /\ Bodies(r) \subseteq Nat
  BY StreamsAssumption DEF Bodies

LEMMA InitTypes == Init => TypeInv
<1> SUFFICES ASSUME Init PROVE TypeInv
  OBVIOUS
<1>1. CallInv
  BY InitCalls
<1>2. PieceTypes /\ WireInv /\ ViewTypes
  BY DEF Init, PieceTypes, WireInv, ViewTypes
<1>3. BridgeTypes
  BY DEF Init, BridgeTypes
<1> QED BY <1>1, <1>2, <1>3 DEF TypeInv

LEMMA NextTypes == TypeInv /\ [Next]_vars => TypeInv'
<1> SUFFICES ASSUME TypeInv, [Next]_vars PROVE TypeInv'
  OBVIOUS
<1> USE DEF TypeInv
<1>0. CallInv'
  BY NextCalls
<1>1. ASSUME NEW c \in Call, TunnelSafe(c) \/ CallOnce(c) PROVE TypeInv'
  <2>1. UNCHANGED <<got, answer, viewVars, pwire, bridgeVars>>
    BY <1>1 DEF TunnelSafe, CallOnce
  <2>2. \/ UNCHANGED <<toBridge, toPhone>> \/ Lead(c)
    BY <1>1 DEF TunnelSafe, CallOnce, Join, NoChannel
  <2>3. WireInv'
    <3>1. CASE UNCHANGED <<toBridge, toPhone>>
      BY <2>1, <3>1 DEF WireInv
    <3>2. CASE Lead(c)
      BY <2>1, <3>2, AskTypes, Bounds DEF Lead, Issue
    <3> QED BY <2>2, <3>1, <3>2
  <2> QED BY <1>0, <2>1, <2>3 DEF PieceTypes, ViewTypes, BridgeTypes, viewVars, bridgeVars, linkVars,
                                 handlerVars, streamVars
<1>2. ASSUME NEW id \in Request, RequestTimeout(id) PROVE TypeInv'
  <2>1. UNCHANGED <<viewVars, pwire, bridgeVars>>
    BY <1>2 DEF RequestTimeout
  <2>2. CASE Retries(id[1]) /\ Retry(id)
    <3>1. <<id[1], tries[id[1]] + 1>> \in Request
      BY <2>2, Bounds DEF Retries, CallInv, CallTypes
    <3>2. WireInv'
      BY <2>1, <2>2, <3>1, AskTypes DEF Retry
    <3>3. PieceTypes'
      BY <2>2 DEF Retry, PieceTypes
    <3> QED BY <1>0, <2>1, <3>2, <3>3 DEF ViewTypes, BridgeTypes, viewVars, bridgeVars, linkVars,
                                 handlerVars, streamVars
  <2>3. CASE Settle(id, "failed", {}) /\ UNCHANGED <<toBridge, toPhone>>
    <3>1. PieceTypes'
      BY <2>3, Bounds DEF Settle, PieceTypes
    <3>2. WireInv'
      BY <2>1, <2>3 DEF WireInv
    <3> QED BY <1>0, <2>1, <3>1, <3>2 DEF ViewTypes, BridgeTypes, viewVars, bridgeVars, linkVars,
                                 handlerVars, streamVars
  <2> QED BY <1>2, <2>2, <2>3 DEF RequestTimeout
<1>3. ASSUME NEW s \in Stream, OpenStream(s) \/ LeaveStream(s) PROVE TypeInv'
  <2>1. UNCHANGED <<phoneVars, shown, pwire, bridgeVars>>
    BY <1>3 DEF OpenStream, LeaveStream
  <2>2. ViewTypes'
    BY <1>3, <2>1 DEF OpenStream, LeaveStream, ViewTypes
  <2>3. /\ Opened(s) \in ToB /\ Closed(s) \in ToB
        /\ Opened(s).type \notin {"rpc", "http"} /\ Closed(s).type \notin {"rpc", "http"}
    BY DEF Opened, Closed, ToB, OpenClose
  <2>4. WireInv'
    <3>1. CASE UNCHANGED <<toBridge, toPhone>>
      BY <2>1, <3>1 DEF WireInv
    <3>2. CASE Route(Opened(s))
      BY <2>1, <2>3, <3>2, RouteTypes
    <3>3. CASE Route(Closed(s))
      BY <2>1, <2>3, <3>3, RouteTypes
    <3> QED BY <1>3, <3>1, <3>2, <3>3 DEF OpenStream, LeaveStream
  <2> QED BY <1>0, <2>1, <2>2, <2>4 DEF PieceTypes, BridgeTypes, phoneVars, bridgeVars, linkVars,
                                 handlerVars, streamVars
<1>4. ASSUME PhoneReceive PROVE TypeInv'
  <2> DEFINE f == Head(toPhone)
  <2>1. toPhone # <<>> /\ toPhone' = Tail(toPhone) /\ UNCHANGED <<pwire, toBridge, bridgeVars>>
    BY <1>4 DEF PhoneReceive
  <2>2. WireInv'
    BY <2>1, HeadToPhone DEF WireInv
  <2>3. BridgeTypes'
    BY <2>1 DEF BridgeTypes, bridgeVars, linkVars, handlerVars, streamVars
  <2>4. CASE f.type = "reply" /\ OnReply(f) /\ UNCHANGED viewVars
    <3>1. f.run \in Request \cup {None} /\ f.id \in Request
      BY <2>1, <2>4, HeadToPhone DEF Replies
    <3>2. {<<f.run, 0, 1>>} \in SUBSET Piece
      BY <3>1 DEF Piece
    <3>3. PieceTypes'
      BY <2>4, <3>1, <3>2, Bounds DEF OnReply, Settle, PieceTypes
    <3> QED BY <1>0, <2>2, <2>3, <2>4, <3>3 DEF ViewTypes, viewVars
  <2>5. CASE f.type = "part" /\ Accept(f) /\ UNCHANGED viewVars
    <3>1. f.run \in Request /\ f.id \in Request /\ f.index \in Nat /\ f.total \in Nat
      BY <2>1, <2>5, HeadToPhone DEF PartsOf
    <3>2. got[f.id] \cup {<<f.run, f.index, f.total>>} \in SUBSET Piece
      BY <3>1 DEF Piece, PieceTypes
    <3>3. PieceTypes'
      BY <2>5, <3>1, <3>2, Bounds DEF Accept, Settle, PieceTypes
    <3> QED BY <1>0, <2>2, <2>3, <2>5, <3>3 DEF ViewTypes, viewVars
  <2>6. CASE /\ f.type = "frame"
             /\ shown' = IF view[f.ch] = "open"
                         THEN [shown EXCEPT ![f.ch] = Append(@, f.n)] ELSE shown
             /\ UNCHANGED <<got, answer, view>>
    <3>1. f.ch \in Stream /\ f.n \in Nat
      BY <2>1, <2>6, HeadToPhone DEF Frames
    <3>2. ViewTypes'
      BY <2>6, <3>1 DEF ViewTypes
    <3> QED BY <1>0, <2>2, <2>3, <2>6, <3>2 DEF PieceTypes
  <2>7. CASE /\ f.type = "end"
             /\ view' = IF view[f.ch] = "open" THEN [view EXCEPT ![f.ch] = "told"] ELSE view
             /\ UNCHANGED <<got, answer, shown>>
    <3>1. ViewTypes'
      BY <2>7 DEF ViewTypes
    <3> QED BY <1>0, <2>2, <2>3, <2>7, <3>1 DEF PieceTypes
  <2> QED BY <1>4, <2>4, <2>5, <2>6, <2>7 DEF PhoneReceive
<1>5. ASSUME PhoneBreak \/ PhoneDrop PROVE TypeInv'
  <2>1. UNCHANGED <<answer, viewVars, toBridge, bridgeVars>>
    BY <1>5 DEF PhoneBreak, PhoneDrop, phoneVars
  <2>2. PieceTypes'
    BY <1>5, <2>1 DEF PhoneBreak, PhoneDrop, phoneVars, PieceTypes
  <2>3. WireInv'
    <3>1. pwire' \in BOOLEAN /\ (toPhone' = <<>> \/ toPhone' = toPhone)
      BY <1>5 DEF PhoneBreak, PhoneDrop, WireInv
    <3>2. <<>> \in Seq(ToP)
      OBVIOUS
    <3>3. toPhone' \in Seq(ToP)
      BY <3>1, <3>2 DEF WireInv
    <3> QED BY <2>1, <3>1, <3>3 DEF WireInv
  <2> QED BY <1>0, <2>1, <2>2, <2>3 DEF ViewTypes, BridgeTypes, viewVars, bridgeVars, linkVars,
                                 handlerVars, streamVars
<1>6. ASSUME BridgeReceive PROVE TypeInv'
  <2>1. /\ toBridge # <<>> /\ toBridge' = Tail(toBridge)
        /\ UNCHANGED <<phoneVars, viewVars, pwire, toPhone, linkVars, size, next, sent>>
    BY <1>6 DEF BridgeReceive
  <2>2. WireInv'
    BY <2>1, HeadToBridge DEF WireInv
  <2>3. handler' \in [Request -> {"none", "fetching", "sending", "over"}]
    BY <1>6, <2>1, HeadToBridge DEF BridgeReceive, Requests, BridgeTypes
  <2>4. sseStreams' \subseteq Stream
    BY <1>6, <2>1, HeadToBridge DEF BridgeReceive, OpenClose, BridgeTypes
  <2> QED BY <1>0, <2>1, <2>2, <2>3, <2>4 DEF PieceTypes, ViewTypes, BridgeTypes, phoneVars, viewVars, linkVars
<1>7. ASSUME NEW r \in Request, Fetched(r) \/ Drained(r) PROVE TypeInv'
  <2>1. UNCHANGED <<phoneVars, viewVars, pwire, toBridge, linkVars, streamVars>>
    BY <1>7 DEF Fetched, Drained
  <2>2. ASSUME NEW i \in Nat, NEW n \in Nat, SendPart(r, i, n)
        PROVE  WireInv' /\ BridgeTypes'
    <3>1. WireInv'
      BY <2>1, <2>2, FrameTypes, BridgeSendsTypes DEF SendPart, WireInv, Part, ToP, PartsOf, IdOf
    <3>2. BridgeTypes'
      BY <2>1, <2>2 DEF SendPart, BridgeTypes, linkVars, streamVars
    <3> QED BY <3>1, <3>2
  <2>3. ASSUME toPhone' = BridgeSends(Reply(r, IdOf(r))),
               handler' = [handler EXCEPT ![r] = "over"], UNCHANGED <<size, next>>
        PROVE  WireInv' /\ BridgeTypes'
    <3>1. WireInv'
      BY <2>1, <2>3, BridgeSendsTypes DEF WireInv, Reply, ToP, Replies, IdOf
    <3>2. BridgeTypes'
      BY <2>1, <2>3 DEF BridgeTypes, linkVars, streamVars
    <3> QED BY <3>1, <3>2
  <2>4. WireInv' /\ BridgeTypes'
    <3>1. CASE Fetched(r)
      BY <3>1, <2>2, <2>3, BodiesCount DEF Fetched
    <3>2. CASE Drained(r)
      BY <3>2, <2>2 DEF Drained, BridgeTypes
    <3> QED BY <1>7, <3>1, <3>2
  <2> QED BY <1>0, <2>1, <2>4 DEF PieceTypes, ViewTypes, phoneVars, viewVars
<1>8. ASSUME NEW s \in Stream, ForwardFrame(s) \/ StreamEnds(s) PROVE TypeInv'
  <2>1. UNCHANGED <<phoneVars, viewVars, pwire, toBridge, linkVars, handlerVars>>
    BY <1>8 DEF ForwardFrame, StreamEnds
  <2>2. Eof(s) \in ToP /\ Frame(s, sent[s] + 1) \in ToP
    BY DEF BridgeTypes, Eof, Frame, ToP, Eofs, Frames
  <2>3. toPhone' \in Seq(ToP)
    BY <1>8, <2>2, BridgeSendsTypes DEF ForwardFrame, StreamEnds
  <2>4. sseStreams' \subseteq Stream /\ sent' \in [Stream -> Nat]
    BY <1>8 DEF ForwardFrame, StreamEnds, BridgeTypes
  <2> QED BY <1>0, <2>1, <2>3, <2>4 DEF PieceTypes, WireInv, ViewTypes, BridgeTypes, phoneVars,
                                 viewVars, linkVars, handlerVars
<1>9. ASSUME Break \/ RelayNotices \/ BridgeStarts \/ BridgeConnects \/ BridgeClosed
      PROVE  TypeInv'
  <2>1. UNCHANGED <<phoneVars, viewVars, pwire, toPhone>>
    BY <1>9 DEF Break, RelayNotices, BridgeStarts, BridgeConnects, BridgeClosed
  <2>2. WireInv'
    <3>1. toBridge' = <<>> \/ toBridge' = toBridge
      BY <1>9 DEF Break, RelayNotices, BridgeStarts, BridgeConnects, BridgeClosed
    <3>2. <<>> \in Seq(ToB)
      OBVIOUS
    <3>3. toBridge' \in Seq(ToB)
      BY <3>1, <3>2 DEF WireInv
    <3> QED BY <2>1, <3>3 DEF WireInv
  <2>3. BridgeTypes'
    <3>1. /\ relayEnd' \in BOOLEAN /\ bridgeEnd' \in BOOLEAN
          /\ wire' \in BOOLEAN /\ crashed' \in BOOLEAN
      BY <1>9 DEF Break, RelayNotices, BridgeStarts, BridgeConnects, BridgeClosed, BridgeTypes
    <3>2. breaks' \in Nat
      BY <1>9 DEF Break, RelayNotices, BridgeStarts, BridgeConnects, BridgeClosed, BridgeTypes
    <3>3. CASE Break \/ RelayNotices \/ BridgeStarts \/ BridgeConnects
      <4>1. UNCHANGED <<handlerVars, streamVars>>
        BY <3>3 DEF Break, RelayNotices, BridgeStarts, BridgeConnects
      <4> QED BY <3>1, <3>2, <4>1 DEF BridgeTypes, handlerVars, streamVars
    <3>4. CASE BridgeClosed
      <4>1. handler' \in [Request -> {"none", "fetching", "sending", "over"}]
        BY <3>4 DEF BridgeClosed, BridgeTypes, handlerVars
      <4>2. size' \in [Request -> Nat] /\ next' \in [Request -> Nat]
        BY <3>4 DEF BridgeClosed, BridgeTypes, handlerVars
      <4>3. sseStreams' \subseteq Stream /\ sent' = sent
        BY <3>4 DEF BridgeClosed, BridgeTypes
      <4> QED BY <3>1, <3>2, <4>1, <4>2, <4>3 DEF BridgeTypes
    <3> QED BY <1>9, <3>3, <3>4
  <2> QED BY <1>0, <2>1, <2>2, <2>3 DEF PieceTypes, ViewTypes, phoneVars, viewVars
<1>10. ASSUME UNCHANGED vars PROVE TypeInv'
  BY <1>0, <1>10 DEF vars, PieceTypes, WireInv, ViewTypes, BridgeTypes, phoneVars, viewVars,
                    bridgeVars, linkVars, handlerVars, streamVars
<1> QED BY <1>1, <1>2, <1>3, <1>4, <1>5, <1>6, <1>7, <1>8, <1>9, <1>10 DEF Next

\* All state keeps its type.
THEOREM TypeCorrect == Spec => []TypeOK
  BY InitTypes, NextTypes, TypesAll, PTL DEF Spec

\* No caller waits for nothing, whatever is retried, shared, lost or dropped.
THEOREM CallersAwait == Spec => []CallsAwaited
<1>1. CallInv => CallsAwaited
  BY DEF CallInv
<1> QED BY InitCalls, NextCalls, <1>1, PTL DEF Spec

\* One request at a time for a path.
THEOREM OneFlight == Spec => []OneFlightPerPath
<1>1. CallInv => OneFlightPerPath
  <2> SUFFICES ASSUME CallInv, NEW x \in pending, NEW y \in pending,
                      x[1] \in Safe, y[1] \in Safe, PathOf[x[1]] = PathOf[y[1]]
               PROVE  x = y
    BY DEF OneFlightPerPath
  <2>1. x[1] = y[1]
    BY DEF CallInv, CallsAwaited, FlightsLed
  <2>2. x[2] = y[2]
    BY <2>1 DEF CallInv, PendingCurrent
  <2> QED BY <2>1, <2>2, Bounds DEF CallInv, CallTypes
<1> QED BY InitCalls, NextCalls, <1>1, PTL DEF Spec

-----------------------------------------------------------------------------
(* Answers. *)

Queued(q) == {q[i] : i \in 1 .. Len(q)}

PartsQueued(r) == {f \in Queued(toPhone) : f.type = "part" /\ f.run = r}

\* The totals that parts of r's reply carry, on their way or in.
Totals(r) == {f.total : f \in PartsQueued(r)} \cup {x[3] : x \in got[r]}

\* Frames carry the id of the request that they answer.
FramesHonest ==
    \A f \in Queued(toPhone) :
        /\ f.type = "part" => f.id = f.run /\ f.index < f.total
        /\ f.type = "reply" => f.run \in {f.id, None}

GotHonest == \A r \in Request : \A x \in got[r] : x[1] = r

\* A request has one reply, cut in one way.
OneTotal ==
    \A r \in Request :
        /\ \A m, n \in Totals(r) : m = n
        /\ handler[r] \in {"none", "fetching"} => Totals(r) = {}
        /\ handler[r] = "sending" => Totals(r) \subseteq {size[r]} /\ next[r] < size[r]

\* A request reaches the bridge once.
IsRequest(f) == f.type \in {"rpc", "http"}

AskedOnce ==
    /\ \A f \in Queued(toBridge) : IsRequest(f) =>
          handler[f.run] = "none" /\ f.run[2] <= tries[f.run[1]]
    /\ \A i, j \in 1 .. Len(toBridge) :
          /\ IsRequest(toBridge[i]) /\ IsRequest(toBridge[j])
          /\ toBridge[i].run = toBridge[j].run
          => i = j
    /\ \A r \in Request : r[2] > tries[r[1]] => handler[r] = "none"
    /\ \A c \in Call : call[c] = "no" => tries[c] = 0

Whole(l, parts) ==
    \/ parts = {<<None, 0, 1>>}
    \/ \E x \in parts :
          /\ x[1] \in {l} \X {1, 2}
          /\ parts = {<<x[1], i, x[3]>> : i \in 0 .. x[3] - 1}

LeadersWhole ==
    /\ \A c \in Call : call[c] = "answered" => leader[c] # None
    /\ \A c \in Call : call[c] = "answered" => Whole(leader[c], answer[c])

ReplyInv == FramesHonest /\ GotHonest /\ OneTotal

AnswerInv == TypeInv /\ ReplyInv /\ AskedOnce /\ LeadersWhole

-----------------------------------------------------------------------------
LEMMA QueuedAppend ==
  ASSUME NEW S, NEW q \in Seq(S), NEW f \in S
  PROVE  Queued(Append(q, f)) = Queued(q) \cup {f}
<1>1. Len(Append(q, f)) = Len(q) + 1 /\ Len(q) \in Nat
      /\ \A i \in 1 .. Len(q) : Append(q, f)[i] = q[i]
      /\ Append(q, f)[Len(q) + 1] = f
  OBVIOUS
<1>2. 1 .. Len(q) + 1 = (1 .. Len(q)) \cup {Len(q) + 1}
  BY <1>1
<1> QED BY <1>1, <1>2 DEF Queued

LEMMA QueuedMaybe ==
  ASSUME NEW S, NEW q \in Seq(S), NEW f \in S, NEW p \in {q, Append(q, f)}
  PROVE  Queued(p) \subseteq Queued(q) \cup {f}
<1>1. CASE p = q
  BY <1>1
<1>2. CASE p = Append(q, f)
  BY <1>2, QueuedAppend
<1> QED BY <1>1, <1>2

LEMMA QueuedTail ==
  ASSUME NEW S, NEW q \in Seq(S), q # <<>>
  PROVE  /\ Queued(Tail(q)) \subseteq Queued(q) /\ Head(q) \in Queued(q)
         /\ \A i \in 1 .. Len(Tail(q)) : Tail(q)[i] = q[i + 1] /\ i + 1 \in 1 .. Len(q)
         /\ Head(q) = q[1] /\ 1 \in 1 .. Len(q)
<1>1. Len(Tail(q)) = Len(q) - 1 /\ Len(q) \in Nat /\ Len(q) > 0
      /\ \A i \in 1 .. Len(Tail(q)) : Tail(q)[i] = q[i + 1]
      /\ Head(q) = q[1]
  OBVIOUS
<1> QED BY <1>1 DEF Queued

LEMMA QueuedEmpty == Queued(<<>>) = {}
  BY DEF Queued

\* Nothing but old parts: what has been said of totals stays.
LEMMA FewerTotals ==
  ASSUME OneTotal, UNCHANGED handlerVars,
         \A r \in Request : Totals(r)' \subseteq Totals(r)
  PROVE  OneTotal'
  BY DEF OneTotal, handlerVars

LEMMA SameReplies ==
  ASSUME ReplyInv, Queued(toPhone') \subseteq Queued(toPhone),
         \A r \in Request : got'[r] \subseteq got[r], UNCHANGED handlerVars
  PROVE  ReplyInv'
<1>1. FramesHonest'
  BY DEF ReplyInv, FramesHonest
<1>2. GotHonest'
  BY DEF ReplyInv, GotHonest
<1>3. \A r \in Request : Totals(r)' \subseteq Totals(r)
  BY DEF Totals, PartsQueued
<1> QED BY <1>1, <1>2, <1>3, FewerTotals DEF ReplyInv

\* A reply in one frame adds no part.
LEMMA ReplySent ==
  ASSUME ReplyInv, WireInv, NEW r \in Request \cup {None}, NEW id \in Request, r \in {id, None},
         toPhone' \in {toPhone, Append(toPhone, Reply(r, id))}, UNCHANGED <<got, handlerVars>>
  PROVE  ReplyInv'
<1>1. Reply(r, id) \in ToP /\ Reply(r, id).type = "reply"
      /\ Reply(r, id).run = r /\ Reply(r, id).id = id
  BY DEF Reply, ToP, Replies
<1>2. Queued(toPhone') \subseteq Queued(toPhone) \cup {Reply(r, id)}
  BY <1>1, QueuedMaybe DEF WireInv
<1>3. FramesHonest'
  BY <1>1, <1>2 DEF ReplyInv, FramesHonest
<1>4. GotHonest'
  BY DEF ReplyInv, GotHonest
<1>5. \A x \in Request : Totals(x)' \subseteq Totals(x)
  BY <1>1, <1>2 DEF Totals, PartsQueued
<1> QED BY <1>3, <1>4, <1>5, FewerTotals DEF ReplyInv

\* So does a frame of a stream.
LEMMA StreamSent ==
  ASSUME ReplyInv, WireInv, NEW f \in ToP, f.type \notin {"part", "reply"},
         toPhone' \in {toPhone, Append(toPhone, f)}, UNCHANGED <<got, handlerVars>>
  PROVE  ReplyInv'
<1>2. Queued(toPhone') \subseteq Queued(toPhone) \cup {f}
  BY QueuedMaybe DEF WireInv
<1>3. FramesHonest'
  BY <1>2 DEF ReplyInv, FramesHonest
<1>4. GotHonest'
  BY DEF ReplyInv, GotHonest
<1>5. \A x \in Request : Totals(x)' \subseteq Totals(x)
  BY <1>2 DEF Totals, PartsQueued
<1> QED BY <1>3, <1>4, <1>5, FewerTotals DEF ReplyInv

\* A part of r's reply: the first, or another of those that were counted.
LEMMA PartSent ==
  ASSUME ReplyInv, WireInv, BridgeTypes, NEW r \in Request, NEW i \in Nat, NEW n \in Nat, i < n,
         SendPart(r, i, n), Totals(r) \subseteq {n}, handler[r] \in {"fetching", "sending"},
         UNCHANGED got
  PROVE  ReplyInv'
<1> DEFINE p == Part(r, IdOf(r), i, n)
<1>1. p \in ToP /\ p.type = "part" /\ p.run = r /\ p.id = r /\ p.index = i /\ p.total = n
  BY DEF Part, IdOf, ToP, PartsOf
<1>2. toPhone' \in {toPhone, Append(toPhone, p)}
  BY DEF SendPart, BridgeSends, ToDevice
<1>3. Queued(toPhone') \subseteq Queued(toPhone) \cup {p}
  <2>1. toPhone \in Seq(ToP) /\ p \in ToP
    BY <1>1 DEF WireInv
  <2> HIDE DEF p
  <2> QED BY <1>2, <2>1, QueuedMaybe
<1>4. FramesHonest'
  BY <1>1, <1>3 DEF ReplyInv, FramesHonest
<1>5. GotHonest'
  BY DEF ReplyInv, GotHonest
<1>6. Totals(r)' \subseteq {n}
  BY <1>1, <1>3 DEF Totals, PartsQueued
<1>7. \A x \in Request : x # r => Totals(x)' \subseteq Totals(x)
  BY <1>1, <1>3 DEF Totals, PartsQueued
<1>8. \A x \in Request : x # r =>
         handler'[x] = handler[x] /\ size'[x] = size[x] /\ next'[x] = next[x]
  BY DEF SendPart, BridgeTypes
<1>9. /\ handler'[r] \in {"sending", "over"}
      /\ handler'[r] = "sending" => size'[r] = n /\ next'[r] = i + 1 /\ i + 1 < n
  BY DEF SendPart, BridgeTypes
<1>10. OneTotal'
  <2>1. ASSUME NEW x \in Request, x # r
        PROVE  /\ \A m, k \in Totals(x)' : m = k
               /\ handler'[x] \in {"none", "fetching"} => Totals(x)' = {}
               /\ handler'[x] = "sending" => Totals(x)' \subseteq {size'[x]} /\ next'[x] < size'[x]
    BY <2>1, <1>7, <1>8 DEF ReplyInv, OneTotal
  <2>2. /\ \A m, k \in Totals(r)' : m = k
        /\ handler'[r] \in {"none", "fetching"} => Totals(r)' = {}
        /\ handler'[r] = "sending" => Totals(r)' \subseteq {size'[r]} /\ next'[r] < size'[r]
    BY <1>6, <1>9
  <2> QED BY <2>1, <2>2 DEF OneTotal
<1> QED BY <1>4, <1>5, <1>10 DEF ReplyInv

-----------------------------------------------------------------------------
(* Requests reach the bridge once. *)

\* A bridge that has read, or lost, what was sent to it.
LEMMA SameAsked ==
  ASSUME AskedOnce, CallInv, toBridge' \in {toBridge, <<>>},
         \A r \in Request : handler[r] = "none" => handler'[r] = "none",
         UNCHANGED tries,
         \A c \in Call : call'[c] = "no" => call[c] = "no",
         \A f \in Queued(toBridge) : IsRequest(f) => f.run \in Request
  PROVE  AskedOnce'
<1>1. Queued(toBridge') \subseteq Queued(toBridge)
  BY DEF Queued
<1>2. \A f \in Queued(toBridge') : IsRequest(f) =>
         handler'[f.run] = "none" /\ f.run[2] <= tries'[f.run[1]]
  BY <1>1 DEF AskedOnce
<1>3. \A i, j \in 1 .. Len(toBridge') :
         IsRequest(toBridge'[i]) /\ IsRequest(toBridge'[j]) /\ toBridge'[i].run = toBridge'[j].run
         => i = j
  BY DEF AskedOnce
<1>4. \A r \in Request : r[2] > tries'[r[1]] => handler'[r] = "none"
  BY DEF AskedOnce
<1> QED BY <1>2, <1>3, <1>4 DEF AskedOnce

LEMMA RunsQueued ==
  ASSUME WireInv, NEW f \in Queued(toBridge), IsRequest(f)
  PROVE  f.run \in Request /\ f \in ToB
<1>1. f \in ToB
  BY DEF WireInv, Queued
<1> QED BY <1>1 DEF ToB, Requests, OpenClose, IsRequest

\* The n-th request for c, the first that carries this number.
LEMMA NextAsked ==
  ASSUME AskedOnce, CallInv, WireInv, NEW c \in Call, NEW n \in {1, 2}, n = tries[c] + 1,
         Route(Asked(<<c, n>>)), UNCHANGED handler,
         tries' = [tries EXCEPT ![c] = n], call'[c] # "no",
         \A d \in Call : d # c => call'[d] = call[d]
  PROVE  AskedOnce'
<1> DEFINE r == <<c, n>>
           a == Asked(<<c, n>>)
<1>1. r \in Request /\ r[1] = c /\ r[2] = n
  BY Bounds
<1>2. a \in ToB /\ a.run = r /\ IsRequest(a)
  BY <1>1 DEF Asked, IdOf, ToB, Requests, IsRequest
<1>3. toBridge' \in {toBridge, Append(toBridge, a)}
  BY DEF Route
<1>4. tries[c] \in Nat /\ tries'[c] = n /\ \A d \in Call : d # c => tries'[d] = tries[d]
  BY DEF CallInv, CallTypes
<1>5. handler[r] = "none"
  BY <1>1, <1>4 DEF AskedOnce
<1>6. \A f \in Queued(toBridge) : IsRequest(f) => f.run \in Request /\ f.run # r
  BY <1>1, <1>4, RunsQueued DEF AskedOnce
<1>7. Queued(toBridge') \subseteq Queued(toBridge) \cup {a}
  <2>1. toBridge \in Seq(ToB)
    BY DEF WireInv
  <2> HIDE DEF a
  <2> QED BY <1>2, <1>3, <2>1, QueuedMaybe
<1>8. \A f \in Queued(toBridge') : IsRequest(f) =>
         handler'[f.run] = "none" /\ f.run[2] <= tries'[f.run[1]]
  <2>1. ASSUME NEW f \in Queued(toBridge'), IsRequest(f)
        PROVE  handler'[f.run] = "none" /\ f.run[2] <= tries'[f.run[1]]
    <3>1. CASE f = a
      BY <3>1, <1>1, <1>2, <1>4, <1>5
    <3>2. CASE f \in Queued(toBridge)
      <4>1. f.run \in Request /\ handler[f.run] = "none" /\ f.run[2] <= tries[f.run[1]]
        BY <2>1, <3>2, <1>6 DEF AskedOnce
      <4>2. f.run[1] \in Call /\ f.run[2] \in {1, 2}
        BY <4>1, Bounds
      <4> QED BY <4>1, <4>2, <1>4
    <3> QED BY <2>1, <3>1, <3>2, <1>7
  <2> QED BY <2>1
<1>9. \A i, j \in 1 .. Len(toBridge') :
         IsRequest(toBridge'[i]) /\ IsRequest(toBridge'[j]) /\ toBridge'[i].run = toBridge'[j].run
         => i = j
  <2>1. CASE toBridge' = toBridge
    BY <2>1 DEF AskedOnce
  <2>2. CASE toBridge' = Append(toBridge, a)
    <3>1. /\ Len(toBridge) \in Nat /\ Len(toBridge') = Len(toBridge) + 1
          /\ \A i \in 1 .. Len(toBridge) : toBridge'[i] = toBridge[i]
          /\ toBridge'[Len(toBridge) + 1] = a
      BY <2>2, <1>2 DEF WireInv
    <3>2. \A i \in 1 .. Len(toBridge) : IsRequest(toBridge[i]) => toBridge[i].run # r
      BY <1>6 DEF Queued
    <3> HIDE DEF a, r
    <3> QED BY <3>1, <3>2, <1>2 DEF AskedOnce
  <2> QED BY <2>1, <2>2, <1>3
<1>10. \A x \in Request : x[2] > tries'[x[1]] => handler'[x] = "none"
  BY <1>4, Bounds DEF AskedOnce
<1>11. \A d \in Call : call'[d] = "no" => tries'[d] = 0
  BY <1>4 DEF AskedOnce
<1> QED BY <1>8, <1>9, <1>10, <1>11 DEF AskedOnce

\* A frame that is no request.
LEMMA OtherAsked ==
  ASSUME AskedOnce, WireInv, NEW f \in ToB, ~IsRequest(f),
         toBridge' \in {toBridge, Append(toBridge, f)}, UNCHANGED <<handler, tries, call>>
  PROVE  AskedOnce'
<1>1. Queued(toBridge') \subseteq Queued(toBridge) \cup {f}
  BY QueuedMaybe DEF WireInv
<1>2. \A i, j \in 1 .. Len(toBridge') :
         IsRequest(toBridge'[i]) /\ IsRequest(toBridge'[j]) /\ toBridge'[i].run = toBridge'[j].run
         => i = j
  <2>1. CASE toBridge' = toBridge
    BY <2>1 DEF AskedOnce
  <2>2. CASE toBridge' = Append(toBridge, f)
    <3>1. /\ Len(toBridge) \in Nat /\ Len(toBridge') = Len(toBridge) + 1
          /\ \A i \in 1 .. Len(toBridge) : toBridge'[i] = toBridge[i]
          /\ toBridge'[Len(toBridge) + 1] = f
      BY <2>2 DEF WireInv
    <3> QED BY <3>1 DEF AskedOnce
  <2> QED BY <2>1, <2>2
<1> QED BY <1>1, <1>2 DEF AskedOnce

\* The bridge reads a frame: no second one asks for the same reply.
LEMMA ReadAsked ==
  ASSUME AskedOnce, CallInv, WireInv, BridgeTypes, BridgeReceive
  PROVE  AskedOnce'
<1> DEFINE h == Head(toBridge)
<1>1. toBridge # <<>> /\ toBridge' = Tail(toBridge) /\ UNCHANGED <<tries, call>>
  BY DEF BridgeReceive, phoneVars
<1>2. /\ Queued(toBridge') \subseteq Queued(toBridge) /\ h = toBridge[1] /\ h \in Queued(toBridge)
      /\ 1 \in 1 .. Len(toBridge)
      /\ \A i \in 1 .. Len(toBridge') : toBridge'[i] = toBridge[i + 1] /\ i + 1 \in 1 .. Len(toBridge)
  BY <1>1, QueuedTail DEF WireInv
<1>3. \A i \in 1 .. Len(toBridge') :
         IsRequest(h) /\ IsRequest(toBridge'[i]) => toBridge'[i].run # h.run
  BY <1>2 DEF AskedOnce
<1>4. IF IsRequest(h) THEN handler' = [handler EXCEPT ![h.run] = "fetching"] ELSE handler' = handler
  BY DEF BridgeReceive, IsRequest
<1>5. \A r \in Request : handler'[r] = handler[r] \/ (IsRequest(h) /\ r = h.run)
  BY <1>4 DEF BridgeTypes
<1>6. \A f \in Queued(toBridge') : IsRequest(f) =>
         handler'[f.run] = "none" /\ f.run[2] <= tries'[f.run[1]]
  <2>1. ASSUME NEW f \in Queued(toBridge'), IsRequest(f)
        PROVE  handler'[f.run] = "none" /\ f.run[2] <= tries'[f.run[1]]
    <3>1. f \in Queued(toBridge) /\ f.run \in Request
      BY <2>1, <1>2, RunsQueued
    <3>2. IsRequest(h) => f.run # h.run
      BY <2>1, <1>3 DEF Queued
    <3> QED BY <2>1, <3>1, <3>2, <1>1, <1>5 DEF AskedOnce
  <2> QED BY <2>1
<1>7. \A i, j \in 1 .. Len(toBridge') :
         IsRequest(toBridge'[i]) /\ IsRequest(toBridge'[j]) /\ toBridge'[i].run = toBridge'[j].run
         => i = j
  BY <1>2 DEF AskedOnce
<1>8. \A r \in Request : r[2] > tries'[r[1]] => handler'[r] = "none"
  <2>1. ASSUME NEW r \in Request, r[2] > tries[r[1]]
        PROVE  handler'[r] = "none"
    <3>1. IsRequest(h) => r # h.run
      <4>1. IsRequest(h) => h.run[2] <= tries[h.run[1]] /\ h.run \in Request
        BY <1>2, RunsQueued DEF AskedOnce
      <4>2. r[2] \in {1, 2} /\ tries[r[1]] \in Nat
        BY Bounds DEF CallInv, CallTypes
      <4> QED BY <2>1, <4>1, <4>2
    <3> QED BY <2>1, <3>1, <1>5 DEF AskedOnce
  <2> QED BY <2>1, <1>1
<1> QED BY <1>1, <1>6, <1>7, <1>8 DEF AskedOnce

-----------------------------------------------------------------------------
(* Answers. *)

LEMMA SameLeaders ==
  ASSUME LeadersWhole,
         \A c \in Call : call'[c] = "answered" => call[c] = "answered" /\ leader'[c] = leader[c],
         UNCHANGED answer
  PROVE  LeadersWhole'
  BY DEF LeadersWhole, Whole

LEMMA SettleWhole ==
  ASSUME LeadersWhole, CallInv, PieceTypes, NEW id \in pending,
         NEW outcome \in {"answered", "failed"}, NEW parts \in SUBSET Piece,
         Settle(id, outcome, parts), UNCHANGED leader, outcome = "answered" => Whole(id[1], parts)
  PROVE  LeadersWhole'
<1> DEFINE c == id[1]
<1>1. c \in Call /\ c # None
  BY Bounds DEF CallInv, CallTypes
<1>2. \A d \in Call : /\ call'[d] = IF leader[d] = c THEN outcome ELSE call[d]
                     /\ answer'[d] = IF leader[d] = c THEN parts ELSE answer[d]
  BY DEF Settle
<1>3. \A d \in Call : call'[d] = "answered" => leader'[d] # None
  BY <1>1, <1>2 DEF LeadersWhole
<1>4. ASSUME NEW d \in Call, call'[d] = "answered"
      PROVE  Whole(leader'[d], answer'[d])
  <2>1. CASE leader[d] = c
    BY <2>1, <1>2, <1>4
  <2>2. CASE leader[d] # c
    BY <2>2, <1>2, <1>4 DEF LeadersWhole
  <2> QED BY <2>1, <2>2
<1>5. \A d \in Call : call'[d] = "answered" => Whole(leader'[d], answer'[d])
  BY <1>4
<1> QED BY <1>3, <1>5 DEF LeadersWhole, Whole

\* When all the parts that a transfer knows of are in, they are the reply.
LEMMA PartsWhole ==
  ASSUME NEW r \in Request, NEW n \in Nat, NEW i \in Nat, i < n,
         NEW parts \in SUBSET Piece, <<r, i, n>> \in parts,
         \A x \in parts : x[1] = r /\ x[3] = n,
         {x[2] : x \in parts} = 0 .. n - 1
  PROVE  Whole(r[1], parts)
<1>1. \A x \in parts : x = <<r, x[2], n>> /\ x[2] \in 0 .. n - 1
  BY DEF Piece
<1>2. ASSUME NEW k \in 0 .. n - 1 PROVE <<r, k, n>> \in parts
  <2>1. PICK x \in parts : x[2] = k
    OBVIOUS
  <2> QED BY <1>1, <2>1
<1>3. parts = {<<r, k, n>> : k \in 0 .. n - 1}
  BY <1>1, <1>2
<1>4. <<r, i, n>>[1] = r /\ <<r, i, n>>[3] = n /\ r \in {r[1]} \X {1, 2}
  BY Bounds
<1> QED BY <1>3, <1>4 DEF Whole

LEMMA AcceptWhole ==
  ASSUME AnswerInv, toPhone # <<>>, Head(toPhone).type = "part", Accept(Head(toPhone)),
         toPhone' = Tail(toPhone), UNCHANGED <<leader, handlerVars>>
  PROVE  ReplyInv' /\ LeadersWhole'
<1> DEFINE f == Head(toPhone)
           r == f.run
           now == got[r] \cup {<<r, f.index, f.total>>}
<1>1. /\ f \in Queued(toPhone) /\ Queued(toPhone') \subseteq Queued(toPhone)
      /\ f \in PartsOf
  BY QueuedTail, HeadToPhone DEF AnswerInv, TypeInv, WireInv
<1>2. r \in Request /\ f.index \in Nat /\ f.total \in Nat
  BY <1>1 DEF PartsOf
<1>3. f.id = r /\ f.index < f.total
  BY <1>1 DEF AnswerInv, ReplyInv, FramesHonest
<1>4. f.total \in Totals(r) /\ \A x \in got[r] : x[3] \in Totals(r) /\ x[1] = r
  BY <1>1, <1>2 DEF Totals, PartsQueued, AnswerInv, ReplyInv, GotHonest
<1>5. now \in SUBSET Piece /\ \A x \in now : x[1] = r /\ x[3] = f.total
  BY <1>2, <1>4 DEF AnswerInv, TypeInv, PieceTypes, Piece, ReplyInv, OneTotal
<1>6. {x[2] : x \in now} = {x[2] : x \in got[r]} \cup {f.index}
  <2>1. <<r, f.index, f.total>>[2] = f.index
    OBVIOUS
  <2> QED BY <2>1
<1>7. CASE UNCHANGED <<call, inflight, tries, pending, got, answer>>
  <2>1. ReplyInv'
    BY <1>1, <1>7, SameReplies DEF AnswerInv
  <2>2. LeadersWhole'
    BY <1>7, SameLeaders DEF AnswerInv
  <2> QED BY <2>1, <2>2
<1>8. CASE /\ r \in pending /\ {x[2] : x \in got[r]} \cup {f.index} = 0 .. f.total - 1
           /\ Settle(r, "answered", now)
  <2>1. \A x \in Request : got'[x] \subseteq got[x]
    BY <1>8 DEF Settle, AnswerInv, TypeInv, PieceTypes
  <2>2. ReplyInv'
    BY <1>1, <2>1, SameReplies DEF AnswerInv
  <2>3. Whole(r[1], now)
    <3>1. {x[2] : x \in now} = 0 .. f.total - 1 /\ <<r, f.index, f.total>> \in now
      BY <1>6, <1>8
    <3> HIDE DEF now, f, r
    <3> QED BY <1>2, <1>3, <1>5, <3>1, PartsWhole
  <2>4. LeadersWhole'
    BY <1>5, <1>8, <2>3, SettleWhole DEF AnswerInv, TypeInv
  <2> QED BY <2>2, <2>4
<1>9. CASE got' = [got EXCEPT ![r] = now] /\ UNCHANGED <<call, inflight, tries, pending, answer>>
  <2>1. got'[r] = now /\ \A x \in Request : x # r => got'[x] = got[x]
    BY <1>2, <1>9 DEF AnswerInv, TypeInv, PieceTypes
  <2>2. FramesHonest'
    BY <1>1 DEF AnswerInv, ReplyInv, FramesHonest
  <2>3. GotHonest'
    BY <1>5, <2>1 DEF AnswerInv, ReplyInv, GotHonest
  <2>4. \A x \in Request : Totals(x)' \subseteq Totals(x)
    <3>1. {x[3] : x \in now} \subseteq Totals(r)
      BY <1>4, <1>5
    <3>2. \A x \in Request : PartsQueued(x)' \subseteq PartsQueued(x)
      BY <1>1 DEF PartsQueued
    <3> QED BY <2>1, <3>1, <3>2 DEF Totals
  <2>5. OneTotal'
    BY <2>4, FewerTotals DEF AnswerInv, ReplyInv
  <2>6. LeadersWhole'
    BY <1>9, SameLeaders DEF AnswerInv
  <2> QED BY <2>2, <2>3, <2>5, <2>6 DEF ReplyInv
<1> QED BY <1>3, <1>7, <1>8, <1>9 DEF Accept

LEMMA ReplyWhole ==
  ASSUME AnswerInv, toPhone # <<>>, Head(toPhone).type = "reply", OnReply(Head(toPhone)),
         toPhone' = Tail(toPhone), UNCHANGED <<leader, handlerVars>>
  PROVE  ReplyInv' /\ LeadersWhole'
<1> DEFINE f == Head(toPhone)
           parts == {<<f.run, 0, 1>>}
<1>1. /\ f \in Queued(toPhone) /\ Queued(toPhone') \subseteq Queued(toPhone)
      /\ f \in Replies
  BY QueuedTail, HeadToPhone DEF AnswerInv, TypeInv, WireInv
<1>2. f.id \in Request /\ f.run \in {f.id, None}
  BY <1>1 DEF AnswerInv, ReplyInv, FramesHonest, Replies
<1>3. parts \in SUBSET Piece
  BY <1>2 DEF Piece
<1>4. \A x \in Request : got'[x] \subseteq got[x]
  BY DEF OnReply, Settle, AnswerInv, TypeInv, PieceTypes
<1>5. ReplyInv'
  BY <1>1, <1>4, SameReplies DEF AnswerInv
<1>6. CASE f.id \in pending /\ Settle(f.id, "answered", parts)
  <2>1. Whole(f.id[1], parts)
    <3>1. CASE f.run = None
      BY <3>1 DEF Whole
    <3>2. CASE f.run = f.id
      <4>1. <<f.run, 0, 1>>[1] = f.id /\ <<f.run, 0, 1>>[3] = 1 /\ f.id \in {f.id[1]} \X {1, 2}
        BY <3>2, <1>2, Bounds
      <4>2. 0 .. 1 - 1 = {0}
        OBVIOUS
      <4>3. parts = {<<f.run, k, 1>> : k \in 0 .. 1 - 1}
        BY <4>2
      <4> QED BY <3>2, <4>1, <4>3 DEF Whole
    <3> QED BY <1>2, <3>1, <3>2
  <2> QED BY <1>3, <1>5, <1>6, <2>1, SettleWhole DEF AnswerInv, TypeInv
<1>7. CASE UNCHANGED <<call, inflight, tries, pending, got, answer>>
  BY <1>5, <1>7, SameLeaders DEF AnswerInv
<1> QED BY <1>6, <1>7 DEF OnReply

-----------------------------------------------------------------------------
(* Every step. *)

LEMMA AskWhole ==
  ASSUME AnswerInv, NEW c \in Call, NEW n \in {1, 2}, n = tries[c] + 1, Route(Asked(<<c, n>>)),
         UNCHANGED handlerVars, tries' = [tries EXCEPT ![c] = n], call'[c] # "no",
         \A d \in Call : d # c => call'[d] = call[d],
         \A r \in Request : got'[r] \subseteq got[r]
  PROVE  ReplyInv' /\ AskedOnce'
<1> DEFINE a == Reply(None, <<c, n>>)
<1>1. <<c, n>> \in Request
  BY Bounds
<1>2. AskedOnce'
  BY NextAsked DEF AnswerInv, TypeInv, handlerVars
<1>3. toPhone' \in {toPhone, Append(toPhone, a)}
  BY DEF Route, ToDevice, Asked, IdOf
<1>4. a \in ToP /\ a.type = "reply" /\ a.run = None
  BY <1>1 DEF Reply, ToP, Replies
<1>5. ReplyInv'
  <2>1. Queued(toPhone') \subseteq Queued(toPhone) \cup {a}
    <3>1. toPhone \in Seq(ToP)
      BY DEF AnswerInv, TypeInv, WireInv
    <3> HIDE DEF a
    <3> QED BY <1>3, <1>4, <3>1, QueuedMaybe
  <2>2. FramesHonest'
    BY <1>4, <2>1 DEF AnswerInv, ReplyInv, FramesHonest
  <2>3. GotHonest'
    BY DEF AnswerInv, ReplyInv, GotHonest
  <2>4. \A x \in Request : Totals(x)' \subseteq Totals(x)
    BY <1>4, <2>1 DEF Totals, PartsQueued
  <2> QED BY <2>2, <2>3, <2>4, FewerTotals DEF AnswerInv, ReplyInv
<1> QED BY <1>2, <1>5

LEMMA CallsWhole ==
  ASSUME AnswerInv, NEW c \in Call, TunnelSafe(c) \/ CallOnce(c)
  PROVE  ReplyInv' /\ AskedOnce' /\ LeadersWhole'
<1>1. call[c] = "no" /\ UNCHANGED <<got, answer, handlerVars>>
  BY DEF TunnelSafe, CallOnce, bridgeVars
<1>2. /\ call'[c] \in {"waiting", "failed"}
      /\ \A d \in Call : d # c => call'[d] = call[d] /\ leader'[d] = leader[d]
  BY DEF TunnelSafe, CallOnce, Join, NoChannel, Lead, Issue, AnswerInv, TypeInv, CallInv, CallTypes
<1>3. LeadersWhole'
  BY <1>1, <1>2, SameLeaders DEF AnswerInv
<1>4. CASE Lead(c)
  <2>1. tries[c] = 0 /\ 1 = tries[c] + 1 /\ 1 \in {1, 2}
    BY <1>1 DEF AnswerInv, AskedOnce
  <2>2. /\ Route(Asked(<<c, 1>>)) /\ tries' = [tries EXCEPT ![c] = 1]
        /\ call'[c] # "no" /\ \A r \in Request : got'[r] \subseteq got[r]
    BY <1>1, <1>2, <1>4 DEF Lead, Issue
  <2> QED BY <1>1, <1>2, <1>3, <2>1, <2>2, AskWhole
<1>5. CASE UNCHANGED <<tries, toBridge, toPhone>>
  <2>1. ReplyInv'
    BY <1>1, <1>5, SameReplies DEF AnswerInv
  <2>2. AskedOnce'
    BY <1>1, <1>2, <1>5, RunsQueued, SameAsked DEF AnswerInv, TypeInv, handlerVars
  <2> QED BY <1>3, <2>1, <2>2
<1> QED BY <1>4, <1>5 DEF TunnelSafe, CallOnce, Join, NoChannel

LEMMA TimeoutWhole ==
  ASSUME AnswerInv, NEW id \in Request, RequestTimeout(id)
  PROVE  ReplyInv' /\ AskedOnce' /\ LeadersWhole'
<1> DEFINE c == id[1]
<1>1. id \in pending /\ c \in Call /\ call[c] = "waiting" /\ UNCHANGED <<leader, handlerVars>>
  BY Bounds DEF RequestTimeout, AnswerInv, TypeInv, CallInv, CallsAwaited, bridgeVars
<1>2. CASE Retries(c) /\ Retry(id)
  <2>1. tries[c] = 1 /\ tries[c] + 1 = 2 /\ 2 \in {1, 2}
    BY <1>2 DEF Retries
  <2>2. /\ Route(Asked(<<c, 2>>)) /\ tries' = [tries EXCEPT ![c] = 2]
        /\ UNCHANGED <<call, answer>>
    BY <1>2, <2>1 DEF Retry
  <2>3. \A r \in Request : got'[r] \subseteq got[r]
    BY <1>2 DEF Retry, AnswerInv, TypeInv, PieceTypes
  <2>4. ReplyInv' /\ AskedOnce'
    BY <1>1, <2>1, <2>2, <2>3, AskWhole
  <2>5. LeadersWhole'
    BY <1>1, <2>2, SameLeaders DEF AnswerInv
  <2> QED BY <2>4, <2>5
<1>3. CASE Settle(id, "failed", {}) /\ UNCHANGED <<toBridge, toPhone>>
  <2>1. \A r \in Request : got'[r] \subseteq got[r]
    BY <1>3 DEF Settle, AnswerInv, TypeInv, PieceTypes
  <2>2. ReplyInv'
    BY <1>1, <1>3, <2>1, SameReplies DEF AnswerInv
  <2>3. \A d \in Call : call'[d] = "no" => call[d] = "no"
    BY <1>3 DEF Settle
  <2>4. AskedOnce'
    BY <1>1, <1>3, <2>3, RunsQueued, SameAsked DEF AnswerInv, TypeInv, handlerVars, Settle
  <2>5. LeadersWhole'
    BY <1>1, <1>3, SettleWhole DEF AnswerInv, TypeInv
  <2> QED BY <2>2, <2>4, <2>5
<1> QED BY <1>2, <1>3 DEF RequestTimeout

LEMMA ReceiveWhole ==
  ASSUME AnswerInv, PhoneReceive
  PROVE  ReplyInv' /\ AskedOnce' /\ LeadersWhole'
<1> DEFINE f == Head(toPhone)
<1>1. toPhone # <<>> /\ toPhone' = Tail(toPhone) /\ UNCHANGED <<leader, toBridge, handlerVars>>
  BY DEF PhoneReceive, bridgeVars
<1>2. \/ f.type = "reply" /\ OnReply(f)
      \/ f.type = "part" /\ Accept(f)
      \/ UNCHANGED <<call, tries, got, answer>>
  BY DEF PhoneReceive
<1>3. UNCHANGED tries /\ \A d \in Call : call'[d] = "no" => call[d] = "no"
  BY <1>2 DEF OnReply, Accept, Settle
<1>4. AskedOnce'
  BY <1>1, <1>3, RunsQueued, SameAsked DEF AnswerInv, TypeInv, handlerVars
<1>5. CASE f.type = "reply" /\ OnReply(f)
  BY <1>1, <1>4, <1>5, ReplyWhole
<1>6. CASE f.type = "part" /\ Accept(f)
  BY <1>1, <1>4, <1>6, AcceptWhole
<1>7. CASE UNCHANGED <<call, tries, got, answer>>
  <2>1. Queued(toPhone') \subseteq Queued(toPhone)
    BY <1>1, QueuedTail DEF AnswerInv, TypeInv, WireInv
  <2>2. ReplyInv'
    BY <1>1, <1>7, <2>1, SameReplies DEF AnswerInv
  <2>3. LeadersWhole'
    BY <1>1, <1>7, SameLeaders DEF AnswerInv
  <2> QED BY <1>4, <2>2, <2>3
<1> QED BY <1>2, <1>5, <1>6, <1>7

LEMMA BridgeReadsWhole ==
  ASSUME AnswerInv, BridgeReceive
  PROVE  ReplyInv' /\ AskedOnce' /\ LeadersWhole'
<1> DEFINE h == Head(toBridge)
<1>1. UNCHANGED <<call, leader, got, answer, toPhone, size, next>>
  BY DEF BridgeReceive, phoneVars
<1>2. AskedOnce'
  BY ReadAsked DEF AnswerInv, TypeInv
<1>3. LeadersWhole'
  BY <1>1, SameLeaders DEF AnswerInv
<1>4. \A r \in Request :
         \/ handler'[r] = handler[r]
         \/ handler[r] = "none" /\ handler'[r] = "fetching"
  <2>1. h \in Queued(toBridge)
    BY QueuedTail DEF BridgeReceive, AnswerInv, TypeInv, WireInv
  <2>2. IsRequest(h) => h.run \in Request /\ handler[h.run] = "none"
    BY <2>1, RunsQueued DEF AnswerInv, TypeInv, AskedOnce
  <2>3. handler' = IF IsRequest(h) THEN [handler EXCEPT ![h.run] = "fetching"] ELSE handler
    BY DEF BridgeReceive, IsRequest
  <2>4. DOMAIN handler = Request
    BY DEF AnswerInv, TypeInv, BridgeTypes
  <2> HIDE DEF h
  <2>5. CASE IsRequest(h)
    BY <2>2, <2>3, <2>4, <2>5
  <2>6. CASE ~IsRequest(h)
    BY <2>3, <2>6
  <2> QED BY <2>5, <2>6
<1>5. FramesHonest' /\ GotHonest'
  BY <1>1 DEF AnswerInv, ReplyInv, FramesHonest, GotHonest
<1>6. \A r \in Request : Totals(r)' = Totals(r)
  BY <1>1 DEF Totals, PartsQueued
<1>7. OneTotal'
  BY <1>1, <1>4, <1>6 DEF AnswerInv, ReplyInv, OneTotal
<1> QED BY <1>2, <1>3, <1>5, <1>7 DEF ReplyInv

LEMMA HandlersWhole ==
  ASSUME AnswerInv, NEW r \in Request, Fetched(r) \/ Drained(r)
  PROVE  ReplyInv' /\ AskedOnce' /\ LeadersWhole'
<1>1. UNCHANGED <<call, leader, tries, got, answer, toBridge>>
  BY DEF Fetched, Drained, phoneVars
<1>2. LeadersWhole'
  BY <1>1, SameLeaders DEF AnswerInv
<1>3. \A x \in Request : handler[x] = "none" => handler'[x] = "none"
  BY DEF Fetched, Drained, SendPart, AnswerInv, TypeInv, BridgeTypes
<1>4. AskedOnce'
  BY <1>1, <1>3, RunsQueued, SameAsked DEF AnswerInv, TypeInv
<1>5. ASSUME NEW n \in 1 .. Parts, SendPart(r, 0, n), handler[r] = "fetching"
      PROVE  ReplyInv'
  <2>1. n \in Nat /\ 0 < n /\ 0 \in Nat
    BY <1>5, StreamsAssumption
  <2>2. Totals(r) \subseteq {n} /\ handler[r] \in {"fetching", "sending"}
    BY <1>5 DEF AnswerInv, ReplyInv, OneTotal
  <2> QED BY <1>1, <1>5, <2>1, <2>2, PartSent DEF AnswerInv, TypeInv
<1>6. ASSUME toPhone' = BridgeSends(Reply(r, IdOf(r))), handler' = [handler EXCEPT ![r] = "over"],
             UNCHANGED <<size, next>>
      PROVE  ReplyInv'
  <2> DEFINE a == Reply(r, IdOf(r))
  <2>1. a \in ToP /\ a.type = "reply" /\ a.run = r /\ a.id = r
    BY DEF Reply, IdOf, ToP, Replies
  <2>2. toPhone' \in {toPhone, Append(toPhone, a)}
    BY <1>6 DEF BridgeSends, ToDevice
  <2>3. Queued(toPhone') \subseteq Queued(toPhone) \cup {a}
    <3>1. toPhone \in Seq(ToP)
      BY DEF AnswerInv, TypeInv, WireInv
    <3> HIDE DEF a
    <3> QED BY <2>1, <2>2, <3>1, QueuedMaybe
  <2>4. FramesHonest'
    BY <2>1, <2>3 DEF AnswerInv, ReplyInv, FramesHonest
  <2>5. GotHonest'
    BY <1>1 DEF AnswerInv, ReplyInv, GotHonest
  <2>6. \A x \in Request : Totals(x)' \subseteq Totals(x)
    BY <1>1, <2>1, <2>3 DEF Totals, PartsQueued
  <2>7. \A x \in Request : handler'[x] = handler[x] \/ handler'[x] = "over"
    BY <1>6 DEF AnswerInv, TypeInv, BridgeTypes
  <2>8. OneTotal'
    BY <1>6, <2>6, <2>7 DEF AnswerInv, ReplyInv, OneTotal
  <2> QED BY <2>4, <2>5, <2>8 DEF ReplyInv
<1>7. CASE Fetched(r)
  BY <1>2, <1>4, <1>5, <1>6, <1>7, BodiesCount DEF Fetched
<1>8. CASE Drained(r)
  <2>1. /\ handler[r] = "sending" /\ SendPart(r, next[r], size[r])
        /\ next[r] \in Nat /\ size[r] \in Nat
    BY <1>8 DEF Drained, AnswerInv, TypeInv, BridgeTypes
  <2>2. next[r] < size[r] /\ Totals(r) \subseteq {size[r]} /\ handler[r] \in {"fetching", "sending"}
    BY <2>1 DEF AnswerInv, ReplyInv, OneTotal
  <2>3. ReplyInv'
    BY <1>1, <2>1, <2>2, PartSent DEF AnswerInv, TypeInv
  <2> QED BY <1>2, <1>4, <2>3
<1> QED BY <1>7, <1>8

LEMMA StreamsSendWhole ==
  ASSUME AnswerInv, NEW s \in Stream,
         OpenStream(s) \/ LeaveStream(s) \/ ForwardFrame(s) \/ StreamEnds(s)
  PROVE  ReplyInv' /\ AskedOnce' /\ LeadersWhole'
<1>1. UNCHANGED <<call, leader, tries, got, answer, handlerVars>>
  BY DEF OpenStream, LeaveStream, ForwardFrame, StreamEnds, phoneVars, bridgeVars
<1>2. LeadersWhole'
  BY <1>1, SameLeaders DEF AnswerInv
<1>3. CASE OpenStream(s) \/ LeaveStream(s)
  <2>1. /\ Opened(s) \in ToB /\ Opened(s).type = "open"
        /\ Closed(s) \in ToB /\ Closed(s).type = "close"
    BY DEF Opened, Closed, ToB, OpenClose
  <2>2. toPhone' = toPhone
    BY <1>3, <2>1 DEF OpenStream, LeaveStream, Route
  <2>3. ReplyInv'
    BY <1>1, <2>2, SameReplies DEF AnswerInv
  <2>4. \/ toBridge' \in {toBridge, Append(toBridge, Opened(s))}
        \/ toBridge' \in {toBridge, Append(toBridge, Closed(s))}
    BY <1>3 DEF OpenStream, LeaveStream, Route
  <2>5. ~IsRequest(Opened(s)) /\ ~IsRequest(Closed(s))
    BY <2>1 DEF IsRequest
  <2>6. AskedOnce'
    BY <1>1, <2>1, <2>4, <2>5, OtherAsked DEF AnswerInv, TypeInv, handlerVars
  <2> QED BY <1>2, <2>3, <2>6
<1>4. CASE ForwardFrame(s) \/ StreamEnds(s)
  <2>1. toBridge' = toBridge
    BY <1>4 DEF ForwardFrame, StreamEnds
  <2>2. AskedOnce'
    BY <1>1, <2>1, RunsQueued, SameAsked DEF AnswerInv, TypeInv, handlerVars
  <2>3. /\ Frame(s, sent[s] + 1) \in ToP /\ Frame(s, sent[s] + 1).type = "frame"
        /\ Eof(s) \in ToP /\ Eof(s).type = "end"
    BY DEF AnswerInv, TypeInv, BridgeTypes, Frame, Eof, ToP, Frames, Eofs
  <2>4. \/ toPhone' \in {toPhone, Append(toPhone, Frame(s, sent[s] + 1))}
        \/ toPhone' \in {toPhone, Append(toPhone, Eof(s))}
    BY <1>4 DEF ForwardFrame, StreamEnds, BridgeSends, ToDevice
  <2>5. ReplyInv'
    BY <1>1, <2>3, <2>4, StreamSent DEF AnswerInv, TypeInv
  <2> QED BY <1>2, <2>2, <2>5
<1> QED BY <1>3, <1>4

LEMMA DropsWhole ==
  ASSUME AnswerInv, PhoneBreak \/ PhoneDrop
  PROVE  ReplyInv' /\ AskedOnce' /\ LeadersWhole'
<1>1. UNCHANGED <<leader, tries, answer, toBridge, handlerVars>>
  BY DEF PhoneBreak, PhoneDrop, phoneVars, bridgeVars
<1>2. toPhone' \in {toPhone, <<>>} /\ \A r \in Request : got'[r] \subseteq got[r]
  BY DEF PhoneBreak, PhoneDrop, phoneVars
<1>3. \A c \in Call : call'[c] = call[c] \/ call'[c] = "failed"
  BY DEF PhoneBreak, PhoneDrop, phoneVars, FailedCalls
<1>4. Queued(toPhone') \subseteq Queued(toPhone)
  BY <1>2, QueuedEmpty
<1>5. ReplyInv'
  BY <1>1, <1>2, <1>4, SameReplies DEF AnswerInv
<1>6. AskedOnce'
  BY <1>1, <1>3, RunsQueued, SameAsked DEF AnswerInv, TypeInv, handlerVars
<1>7. LeadersWhole'
  BY <1>1, <1>3, SameLeaders DEF AnswerInv
<1> QED BY <1>5, <1>6, <1>7

LEMMA LinkWhole ==
  ASSUME AnswerInv, Break \/ RelayNotices \/ BridgeClosed \/ BridgeStarts \/ BridgeConnects
  PROVE  ReplyInv' /\ AskedOnce' /\ LeadersWhole'
<1>1. UNCHANGED <<call, leader, tries, got, answer, toPhone>>
  BY DEF Break, RelayNotices, BridgeClosed, BridgeStarts, BridgeConnects, phoneVars
<1>2. toBridge' \in {toBridge, <<>>}
  BY DEF Break, RelayNotices, BridgeClosed, BridgeStarts, BridgeConnects
<1>3. \A r \in Request :
         \/ handler'[r] = handler[r] /\ size'[r] = size[r] /\ next'[r] = next[r]
         \/ handler'[r] = IF handler[r] = "none" THEN "none" ELSE "over"
  BY DEF Break, RelayNotices, BridgeClosed, BridgeStarts, BridgeConnects, handlerVars
<1>4. LeadersWhole'
  BY <1>1, SameLeaders DEF AnswerInv
<1>5. AskedOnce'
  BY <1>1, <1>2, <1>3, RunsQueued, SameAsked DEF AnswerInv, TypeInv
<1>6. FramesHonest' /\ GotHonest'
  BY <1>1 DEF AnswerInv, ReplyInv, FramesHonest, GotHonest
<1>7. \A r \in Request : Totals(r)' = Totals(r)
  BY <1>1 DEF Totals, PartsQueued
<1>8. OneTotal'
  BY <1>3, <1>7 DEF AnswerInv, ReplyInv, OneTotal
<1> QED BY <1>4, <1>5, <1>6, <1>8 DEF ReplyInv

-----------------------------------------------------------------------------
LEMMA InitAnswers == Init => AnswerInv
<1> SUFFICES ASSUME Init PROVE AnswerInv
  OBVIOUS
<1>1. TypeInv
  BY InitTypes
<1>2. Queued(toPhone) = {} /\ Queued(toBridge) = {} /\ Len(toBridge) = 0
  BY QueuedEmpty DEF Init
<1>3. \A r \in Request : got[r] = {} /\ handler[r] = "none"
  BY DEF Init
<1>4. \A r \in Request : Totals(r) = {}
  BY <1>2, <1>3 DEF Totals, PartsQueued
<1>5. ReplyInv
  BY <1>2, <1>3, <1>4 DEF ReplyInv, FramesHonest, GotHonest, OneTotal
<1>6. AskedOnce
  BY <1>2, <1>3 DEF Init, AskedOnce
<1>7. LeadersWhole
  BY DEF Init, LeadersWhole
<1> QED BY <1>1, <1>5, <1>6, <1>7 DEF AnswerInv

LEMMA NextAnswers == AnswerInv /\ [Next]_vars => AnswerInv'
<1> SUFFICES ASSUME AnswerInv, [Next]_vars PROVE AnswerInv'
  OBVIOUS
<1>1. TypeInv'
  BY NextTypes DEF AnswerInv
<1>2. CASE Next
  <2>1. ReplyInv' /\ AskedOnce' /\ LeadersWhole'
    BY <1>2, CallsWhole, TimeoutWhole, ReceiveWhole, BridgeReadsWhole, HandlersWhole,
       StreamsSendWhole, DropsWhole, LinkWhole DEF Next
  <2> QED BY <1>1, <2>1 DEF AnswerInv
<1>3. CASE UNCHANGED vars
  <2>1. UNCHANGED <<call, leader, tries, got, answer, toPhone, toBridge, handlerVars>>
    BY <1>3 DEF vars, phoneVars, bridgeVars
  <2>2. ReplyInv'
    BY <2>1, SameReplies DEF AnswerInv
  <2>3. AskedOnce'
    BY <2>1, RunsQueued, SameAsked DEF AnswerInv, TypeInv, handlerVars
  <2>4. LeadersWhole'
    BY <2>1, SameLeaders DEF AnswerInv
  <2> QED BY <1>1, <2>2, <2>3, <2>4 DEF AnswerInv
<1> QED BY <1>2, <1>3

\* An answer is the whole of one reply, whatever was retried or lost.
THEOREM AnswersAreWhole == Spec => []AnswersWhole
<1>1. AnswerInv => AnswersWhole
  BY DEF AnswerInv, LeadersWhole, AnswersWhole, Whole
<1> QED BY InitAnswers, NextAnswers, <1>1, PTL DEF Spec
-----------------------------------------------------------------------------
(* Streams. *)

IsOpen(f, s)  == f.type = "open" /\ f.ch = s
IsFrame(f, s) == f.type = "frame" /\ f.ch = s
IsEnd(f, s)   == f.type = "end" /\ f.ch = s

\* What a queue holds of s: the numbers of its frames, and its end.
Numbers(q, s) == {q[i].n : i \in {j \in 1 .. Len(q) : IsFrame(q[j], s)}}
Ends(q, s)    == \E i \in 1 .. Len(q) : IsEnd(q[i], s)
Opens(q, s)   == \E i \in 1 .. Len(q) : IsOpen(q[i], s)

InOrder(q, s) == \A i, j \in 1 .. Len(q) :
    IsFrame(q[i], s) /\ IsFrame(q[j], s) /\ i < j => q[i].n < q[j].n

\* No frame of s comes after its end.
EndLast(q, s) == \A i, j \in 1 .. Len(q) : IsFrame(q[i], s) /\ IsEnd(q[j], s) => i < j

OpenOnce(q, s) == \A i, j \in 1 .. Len(q) : IsOpen(q[i], s) /\ IsOpen(q[j], s) => i = j

\* Nothing has happened to s on the bridge.
Fresh(s) == s \notin sseStreams /\ sent[s] = 0 /\ ~Ends(toPhone, s) /\ view[s] # "told"

\* The page has the first frames of s, no more than there are.
Prefix(s) ==
    /\ shown[s] = [i \in 1 .. Len(shown[s]) |-> i] /\ Len(shown[s]) <= sent[s]
    /\ Numbers(toPhone, s) \subseteq 1 .. sent[s]

\* A stream begins once and ends once.
Course(s) ==
    /\ OpenOnce(toBridge, s)
    /\ Opens(toBridge, s) => Fresh(s)
    /\ view[s] \in {"no", "hung"} => Fresh(s) /\ ~Opens(toBridge, s)
    /\ view[s] = "told" => s \notin sseStreams /\ Len(shown[s]) = sent[s]
    /\ Ends(toPhone, s) => s \notin sseStreams

\* What the page lacks of a stream that it listens to is on its way, in
\* order, unless a tunnel has broken: then no more of it comes.
Coming(s) ==
    LET lacks == Len(shown[s]) + 1 .. sent[s]
        queue == Numbers(toPhone, s)
    IN  /\ InOrder(toPhone, s)
        /\ \A n \in queue : n > Len(shown[s]) /\ Len(shown[s]) + 1 .. n \subseteq queue
        /\ s \in sseStreams /\ wire /\ pwire => lacks \subseteq queue
        /\ Ends(toPhone, s) => EndLast(toPhone, s) /\ lacks \subseteq queue

StreamOk(s) == Prefix(s) /\ Course(s) /\ (view[s] = "open" => Coming(s))

LinkOk ==
    /\ bridgeEnd \/ sseStreams = {}
    /\ wire \/ toBridge = <<>>
    /\ pwire \/ toPhone = <<>>

StreamInv == TypeInv /\ LinkOk /\ \A s \in Stream : StreamOk(s)

-----------------------------------------------------------------------------
(* Queues. *)

LEMMA AppendAt ==
  ASSUME NEW S, NEW q \in Seq(S), NEW f \in S
  PROVE  /\ Len(Append(q, f)) = Len(q) + 1 /\ Len(q) \in Nat
         /\ \A i \in 1 .. Len(q) : Append(q, f)[i] = q[i]
         /\ Append(q, f)[Len(q) + 1] = f
         /\ 1 .. Len(q) + 1 = (1 .. Len(q)) \cup {Len(q) + 1}
  OBVIOUS

LEMMA AppendOther ==
  ASSUME NEW S, NEW q \in Seq(S), NEW f \in S, NEW s, ~IsFrame(f, s), ~IsEnd(f, s),
         NEW p \in {q, Append(q, f)}
  PROVE  /\ Numbers(p, s) = Numbers(q, s)
         /\ Ends(p, s) => Ends(q, s)
         /\ InOrder(q, s) => InOrder(p, s)
         /\ EndLast(q, s) => EndLast(p, s)
<1>1. CASE p = q
  BY <1>1
<1>2. CASE p = Append(q, f)
  <2>1. Numbers(p, s) = Numbers(q, s)
    BY <1>2, AppendAt DEF Numbers
  <2>2. Ends(p, s) => Ends(q, s)
    BY <1>2, AppendAt DEF Ends
  <2>3. InOrder(q, s) => InOrder(p, s)
    BY <1>2, AppendAt DEF InOrder
  <2>4. EndLast(q, s) => EndLast(p, s)
    BY <1>2, AppendAt DEF EndLast
  <2> QED BY <2>1, <2>2, <2>3, <2>4
<1> QED BY <1>1, <1>2

LEMMA AppendFrame ==
  ASSUME NEW S, NEW q \in Seq(S), NEW f \in S, NEW s, IsFrame(f, s)
  PROVE  /\ Numbers(Append(q, f), s) = Numbers(q, s) \cup {f.n}
         /\ Ends(Append(q, f), s) => Ends(q, s)
         /\ InOrder(q, s) /\ (\A n \in Numbers(q, s) : n < f.n) => InOrder(Append(q, f), s)
<1>1. ~IsEnd(f, s)
  BY DEF IsFrame, IsEnd
<1>2. Numbers(Append(q, f), s) = Numbers(q, s) \cup {f.n}
  BY AppendAt DEF Numbers
<1>3. Ends(Append(q, f), s) => Ends(q, s)
  BY <1>1, AppendAt DEF Ends
<1>4. ASSUME InOrder(q, s), \A n \in Numbers(q, s) : n < f.n
      PROVE  InOrder(Append(q, f), s)
  <2>1. \A i \in 1 .. Len(q) : IsFrame(q[i], s) => q[i].n < f.n
    BY <1>4 DEF Numbers
  <2> QED BY <1>4, <2>1, AppendAt DEF InOrder
<1> QED BY <1>2, <1>3, <1>4

LEMMA AppendEnd ==
  ASSUME NEW S, NEW q \in Seq(S), NEW f \in S, NEW s, IsEnd(f, s)
  PROVE  /\ Numbers(Append(q, f), s) = Numbers(q, s)
         /\ InOrder(q, s) => InOrder(Append(q, f), s)
         /\ ~Ends(q, s) => EndLast(Append(q, f), s)
<1>1. ~IsFrame(f, s)
  BY DEF IsFrame, IsEnd
<1>2. Numbers(Append(q, f), s) = Numbers(q, s)
  BY <1>1, AppendAt DEF Numbers
<1>3. InOrder(q, s) => InOrder(Append(q, f), s)
  BY <1>1, AppendAt DEF InOrder
<1>4. ~Ends(q, s) => EndLast(Append(q, f), s)
  BY <1>1, AppendAt DEF Ends, EndLast
<1> QED BY <1>2, <1>3, <1>4

LEMMA AppendOpen ==
  ASSUME NEW S, NEW q \in Seq(S), NEW f \in S, NEW s, NEW p \in {q, Append(q, f)}
  PROVE  /\ ~IsOpen(f, s) => (Opens(p, s) => Opens(q, s)) /\ (OpenOnce(q, s) => OpenOnce(p, s))
         /\ ~Opens(q, s) => OpenOnce(p, s)
<1>1. CASE p = q
  BY <1>1 DEF OpenOnce, Opens
<1>2. CASE p = Append(q, f)
  BY <1>2, AppendAt DEF OpenOnce, Opens
<1> QED BY <1>1, <1>2

LEMMA TailAt ==
  ASSUME NEW S, NEW q \in Seq(S), q # <<>>
  PROVE  /\ Len(Tail(q)) = Len(q) - 1 /\ Len(q) \in Nat /\ Len(q) > 0
         /\ \A i \in 1 .. Len(Tail(q)) : Tail(q)[i] = q[i + 1]
         /\ \A i \in 1 .. Len(q) : i = 1 \/ (i - 1 \in 1 .. Len(Tail(q)) /\ q[i] = Tail(q)[i - 1])
         /\ Head(q) = q[1]
  OBVIOUS

LEMMA TailKeeps ==
  ASSUME NEW S, NEW q \in Seq(S), q # <<>>, NEW s
  PROVE  /\ InOrder(q, s) => InOrder(Tail(q), s)
         /\ EndLast(q, s) => EndLast(Tail(q), s)
         /\ OpenOnce(q, s) => OpenOnce(Tail(q), s)
         /\ Ends(Tail(q), s) => Ends(q, s)
         /\ Opens(Tail(q), s) => Opens(q, s)
         /\ Numbers(Tail(q), s) \subseteq Numbers(q, s)
<1> DEFINE t == Tail(q)
<1>1. /\ Len(t) \in Nat
      /\ \A i \in 1 .. Len(t) : i \in Nat /\ t[i] = q[i + 1] /\ i + 1 \in 1 .. Len(q)
  BY TailAt
<1> HIDE DEF t
<1>2. InOrder(q, s) => InOrder(t, s)
  BY <1>1 DEF InOrder
<1>3. EndLast(q, s) => EndLast(t, s)
  BY <1>1 DEF EndLast
<1>4. OpenOnce(q, s) => OpenOnce(t, s)
  BY <1>1 DEF OpenOnce
<1>5. (Ends(t, s) => Ends(q, s)) /\ (Opens(t, s) => Opens(q, s))
  BY <1>1 DEF Ends, Opens
<1>6. Numbers(t, s) \subseteq Numbers(q, s)
  BY <1>1 DEF Numbers
<1> QED BY <1>2, <1>3, <1>4, <1>5, <1>6 DEF t

\* A frame of s that is read was the first of its frames.
LEMMA TailNumbers ==
  ASSUME NEW S, NEW q \in Seq(S), q # <<>>, NEW s
  PROVE  /\ ~IsFrame(Head(q), s) => Numbers(Tail(q), s) = Numbers(q, s)
         /\ IsFrame(Head(q), s) => /\ Head(q).n \in Numbers(q, s)
                                   /\ Numbers(q, s) = Numbers(Tail(q), s) \cup {Head(q).n}
         /\ IsFrame(Head(q), s) /\ InOrder(q, s) =>
                 \A n \in Numbers(Tail(q), s) : Head(q).n < n
         /\ IsEnd(Head(q), s) => Ends(q, s)
         /\ IsEnd(Head(q), s) /\ EndLast(q, s) => Numbers(q, s) = {}
<1> DEFINE t == Tail(q)
           h == Head(q)
<1>1. /\ Len(t) \in Nat /\ h = q[1] /\ 1 \in 1 .. Len(q)
      /\ \A i \in 1 .. Len(t) : i \in Nat /\ t[i] = q[i + 1] /\ i + 1 \in 1 .. Len(q) /\ 1 < i + 1
      /\ \A i \in 1 .. Len(q) : i = 1 \/ \E j \in 1 .. Len(t) : i = j + 1
  <2>1. ASSUME NEW i \in 1 .. Len(q), i # 1 PROVE \E j \in 1 .. Len(t) : i = j + 1
    <3>1. i - 1 \in 1 .. Len(t) /\ i = (i - 1) + 1
      BY <2>1, TailAt
    <3> QED BY <3>1
  <2> QED BY <2>1, TailAt
<1> HIDE DEF t, h
<1>2. Numbers(t, s) \subseteq Numbers(q, s)
  BY TailKeeps DEF t
<1>3. ASSUME NEW n \in Numbers(q, s) PROVE n \in Numbers(t, s) \/ (IsFrame(h, s) /\ n = h.n)
  <2>1. PICK i \in 1 .. Len(q) : IsFrame(q[i], s) /\ n = q[i].n
    BY DEF Numbers
  <2>2. CASE i = 1
    BY <2>1, <2>2, <1>1
  <2>3. ASSUME NEW j \in 1 .. Len(t), i = j + 1 PROVE n \in Numbers(t, s)
    BY <2>1, <2>3, <1>1 DEF Numbers
  <2> QED BY <2>2, <2>3, <1>1
<1>4. ~IsFrame(h, s) => Numbers(t, s) = Numbers(q, s)
  BY <1>2, <1>3
<1>5. IsFrame(h, s) => h.n \in Numbers(q, s)
  BY <1>1 DEF Numbers
<1>6. IsFrame(h, s) => h.n \in Numbers(q, s) /\ Numbers(q, s) = Numbers(t, s) \cup {h.n}
  BY <1>2, <1>3, <1>5
<1>7. IsFrame(h, s) /\ InOrder(q, s) => \A n \in Numbers(t, s) : h.n < n
  BY <1>1 DEF Numbers, InOrder
<1>8. IsEnd(h, s) => Ends(q, s)
  BY <1>1 DEF Ends
<1>9. IsEnd(h, s) /\ EndLast(q, s) => Numbers(q, s) = {}
  BY <1>1 DEF Numbers, EndLast
<1> QED BY <1>4, <1>6, <1>7, <1>8, <1>9 DEF t, h
-----------------------------------------------------------------------------
(* Steps that add nothing to a stream. *)

SamePhone(s) ==
    /\ Numbers(toPhone', s) = Numbers(toPhone, s)
    /\ Ends(toPhone', s) => Ends(toPhone, s)
    /\ InOrder(toPhone, s) => InOrder(toPhone', s)
    /\ EndLast(toPhone, s) => EndLast(toPhone', s)

SameBridge(s) ==
    /\ Opens(toBridge', s) => Opens(toBridge, s)
    /\ OpenOnce(toBridge, s) => OpenOnce(toBridge', s)

LEMMA Unqueued == ASSUME NEW s PROVE UNCHANGED <<toPhone, toBridge>> => SamePhone(s) /\ SameBridge(s)
  BY DEF SamePhone, SameBridge

\* The bridge may leave s, and the page may, or wait for it in vain.
LEMMA QuietStream ==
  ASSUME NEW s \in Stream, StreamOk(s), SamePhone(s), SameBridge(s),
         shown'[s] = shown[s], sent'[s] = sent[s],
         view'[s] \in {view[s], "left"} \/ (view[s] = "no" /\ view'[s] = "hung"),
         s \in sseStreams' => s \in sseStreams,
         s \in sseStreams' /\ wire' /\ pwire' => wire /\ pwire
  PROVE  StreamOk(s)'
<1>1. Prefix(s)'
  BY DEF StreamOk, Prefix, SamePhone
<1>2. Fresh(s) => Fresh(s)'
  BY DEF Fresh, SamePhone
<1>3. Course(s)'
  BY <1>2 DEF StreamOk, Course, SamePhone, SameBridge
<1>4. view'[s] = "open" => Coming(s)'
  BY DEF StreamOk, Coming, SamePhone
<1> QED BY <1>1, <1>3, <1>4 DEF StreamOk

LEMMA QuietStreams ==
  ASSUME StreamInv, \A s \in Stream : SamePhone(s) /\ SameBridge(s), UNCHANGED viewVars,
         sent' = sent, sseStreams' \subseteq sseStreams,
         sseStreams' # {} /\ wire' /\ pwire' => wire /\ pwire
  PROVE  \A s \in Stream : StreamOk(s)'
  BY QuietStream DEF StreamInv, viewVars

\* A frame that is no stream's, on its way to the phone.
LEMMA OtherQueued ==
  ASSUME WireInv, NEW f \in ToP, f.type \notin {"frame", "end"},
         toPhone' \in {toPhone, Append(toPhone, f)}, UNCHANGED toBridge, NEW s
  PROVE  SamePhone(s) /\ SameBridge(s)
<1>1. ~IsFrame(f, s) /\ ~IsEnd(f, s)
  BY DEF IsFrame, IsEnd
<1>2. SamePhone(s)
  BY <1>1, AppendOther DEF WireInv, SamePhone
<1> QED BY <1>2 DEF SameBridge

LEMMA RouteQuiet ==
  ASSUME WireInv, NEW g \in ToB, Route(g), NEW s,
         g.type \in {"rpc", "http"} => Reply(None, g.id) \in ToP
  PROVE  SamePhone(s) /\ (~IsOpen(g, s) => SameBridge(s))
<1>1. SamePhone(s)
  <2>1. CASE toPhone' = toPhone
    BY <2>1 DEF SamePhone
  <2>2. CASE g.type \in {"rpc", "http"} /\ toPhone' = Append(toPhone, Reply(None, g.id))
    <3> DEFINE f == Reply(None, g.id)
    <3>1. f \in ToP /\ ~IsFrame(f, s) /\ ~IsEnd(f, s) /\ toPhone \in Seq(ToP)
      BY <2>2 DEF WireInv, Reply, IsFrame, IsEnd
    <3>2. toPhone' = Append(toPhone, f)
      BY <2>2
    <3> HIDE DEF f
    <3> QED BY <3>1, <3>2, AppendOther DEF SamePhone
  <2> QED BY <2>1, <2>2 DEF Route, ToDevice
<1>2. toBridge' \in {toBridge, Append(toBridge, g)}
  BY DEF Route
<1>3. ~IsOpen(g, s) => SameBridge(s)
  BY <1>2, AppendOpen DEF WireInv, SameBridge
<1> QED BY <1>1, <1>3

LEMMA AskQuiet ==
  ASSUME WireInv, NEW r \in Request, Route(Asked(r)), NEW s
  PROVE  SamePhone(s) /\ SameBridge(s)
<1> DEFINE g == Asked(r)
<1>1. g \in ToB /\ g.type \in {"rpc", "http"} /\ Reply(None, g.id) \in ToP
  BY DEF Asked, Reply, IdOf, ToB, ToP, Requests, Replies
<1>2. Route(g) /\ ~IsOpen(g, s)
  BY <1>1 DEF IsOpen
<1> HIDE DEF g
<1> QED BY <1>1, <1>2, RouteQuiet

LEMMA CallsQuiet ==
  ASSUME StreamInv,
         \/ \E c \in Call : TunnelSafe(c) \/ CallOnce(c)
         \/ \E id \in Request : RequestTimeout(id)
  PROVE  \A s \in Stream : StreamOk(s)'
<1>1. UNCHANGED <<viewVars, pwire, bridgeVars>>
  BY DEF TunnelSafe, CallOnce, RequestTimeout
<1>2. \/ UNCHANGED <<toBridge, toPhone>>
      \/ \E r \in Request : Route(Asked(r))
  <2>1. ASSUME NEW c \in Call, TunnelSafe(c) \/ CallOnce(c)
        PROVE  UNCHANGED <<toBridge, toPhone>> \/ Route(Asked(<<c, 1>>))
    BY <2>1 DEF TunnelSafe, CallOnce, Join, NoChannel, Lead, Issue
  <2>2. ASSUME NEW id \in Request, RequestTimeout(id)
        PROVE  \/ UNCHANGED <<toBridge, toPhone>>
               \/ /\ Route(Asked(<<id[1], tries[id[1]] + 1>>))
                  /\ <<id[1], tries[id[1]] + 1>> \in Request
    BY <2>2, Bounds DEF RequestTimeout, Retry, Retries
  <2> QED BY <2>1, <2>2, Bounds
<1>3. \A s \in Stream : SamePhone(s) /\ SameBridge(s)
  BY <1>2, Unqueued, AskQuiet DEF StreamInv, TypeInv
<1> QED BY <1>1, <1>3, QuietStreams DEF bridgeVars, linkVars, streamVars

LEMMA HandlersQuiet ==
  ASSUME StreamInv, NEW r \in Request, Fetched(r) \/ Drained(r)
  PROVE  \A s \in Stream : StreamOk(s)'
<1>1. UNCHANGED <<viewVars, pwire, toBridge, linkVars, streamVars>>
  BY DEF Fetched, Drained
<1>2. PICK f \in ToP :
         f.type \notin {"frame", "end"} /\ toPhone' \in {toPhone, Append(toPhone, f)}
  <2>1. ASSUME NEW i \in Nat, NEW n \in Nat, SendPart(r, i, n)
        PROVE  /\ Part(r, IdOf(r), i, n) \in ToP /\ Part(r, IdOf(r), i, n).type = "part"
               /\ toPhone' \in {toPhone, Append(toPhone, Part(r, IdOf(r), i, n))}
    BY <2>1 DEF SendPart, BridgeSends, ToDevice, Part, IdOf, ToP, PartsOf
  <2>2. ASSUME toPhone' = BridgeSends(Reply(r, IdOf(r)))
        PROVE  /\ Reply(r, IdOf(r)) \in ToP /\ Reply(r, IdOf(r)).type = "reply"
               /\ toPhone' \in {toPhone, Append(toPhone, Reply(r, IdOf(r)))}
    BY <2>2 DEF BridgeSends, ToDevice, Reply, IdOf, ToP, Replies
  <2>3. CASE Fetched(r)
    BY <2>1, <2>2, <2>3, BodiesCount DEF Fetched
  <2>4. CASE Drained(r)
    BY <2>1, <2>4 DEF Drained, StreamInv, TypeInv, BridgeTypes
  <2> QED BY <2>3, <2>4
<1>3. \A s \in Stream : SamePhone(s) /\ SameBridge(s)
  BY <1>1, <1>2, OtherQueued DEF StreamInv, TypeInv
<1> QED BY <1>1, <1>3, QuietStreams DEF linkVars, streamVars
-----------------------------------------------------------------------------
(* Steps of a stream. *)

LEMMA OpenedStreams ==
  ASSUME StreamInv, NEW s \in Stream, OpenStream(s), up
  PROVE  \A t \in Stream : StreamOk(t)'
<1> DEFINE g == Opened(s)
<1>1. /\ view[s] = "no" /\ view' = [view EXCEPT ![s] = "open"]
      /\ Route(g) /\ UNCHANGED <<shown, pwire, wire, sseStreams, sent>>
  BY DEF OpenStream, bridgeVars, linkVars, streamVars
<1>2. g \in ToB /\ g.type = "open" /\ g.ch = s
  BY DEF Opened, ToB, OpenClose
<1>3. \A t \in Stream : SamePhone(t) /\ (t # s => SameBridge(t))
  <2> HIDE DEF g
  <2>1. \A t : ~IsOpen(g, t) \/ t = s
    BY <1>2 DEF IsOpen
  <2> QED BY <1>1, <1>2, <2>1, RouteQuiet DEF StreamInv, TypeInv
<1>4. view'[s] = "open" /\ \A t \in Stream : t # s => view'[t] = view[t]
  BY <1>1 DEF StreamInv, TypeInv, ViewTypes
<1>5. ASSUME NEW t \in Stream, t # s PROVE StreamOk(t)'
  BY <1>1, <1>3, <1>4, <1>5, QuietStream DEF StreamInv
<1>6. StreamOk(s)'
  <2>1. StreamOk(s) /\ Fresh(s) /\ ~Opens(toBridge, s)
    BY <1>1 DEF StreamInv, StreamOk, Course
  <2>2. Len(shown[s]) = 0 /\ Numbers(toPhone, s) = {}
    BY <2>1 DEF StreamOk, Prefix, Fresh, StreamInv, TypeInv, ViewTypes
  <2>3. Prefix(s)'
    BY <1>1, <1>3, <2>1, <2>2 DEF StreamOk, Prefix, SamePhone
  <2>4. Fresh(s)'
    BY <1>1, <1>3, <1>4, <2>1 DEF Fresh, SamePhone
  <2>5. OpenOnce(toBridge', s)
    <3>1. toBridge' \in {toBridge, Append(toBridge, g)} /\ toBridge \in Seq(ToB)
      BY <1>1 DEF Route, StreamInv, TypeInv, WireInv
    <3>2. g \in ToB /\ ~Opens(toBridge, s)
      BY <1>2, <2>1
    <3> HIDE DEF g
    <3> QED BY <3>1, <3>2, AppendOpen
  <2>6. Course(s)'
    BY <1>1, <1>4, <2>4, <2>5 DEF Course, Fresh
  <2>7. Numbers(toPhone', s) = {}
    BY <1>3, <2>2 DEF SamePhone
  <2>8. InOrder(toPhone', s)
    BY <2>7 DEF Numbers, InOrder
  <2>9. Coming(s)'
    BY <1>1, <2>4, <2>7, <2>8 DEF Coming, Fresh
  <2> QED BY <2>3, <2>6, <2>9 DEF StreamOk
<1> QED BY <1>5, <1>6

LEMMA OpenStreams ==
  ASSUME StreamInv, NEW s \in Stream, OpenStream(s)
  PROVE  \A t \in Stream : StreamOk(t)'
<1>1. CASE up
  BY <1>1, OpenedStreams
<1>2. CASE ~up
  <2>1. /\ view[s] = "no" /\ view' = [view EXCEPT ![s] = "hung"]
        /\ UNCHANGED <<toBridge, toPhone, shown, pwire, wire, sseStreams, sent>>
    BY <1>2 DEF OpenStream, bridgeVars, linkVars, streamVars
  <2>2. \A t \in Stream : view'[t] \in {view[t], "left"} \/ (view[t] = "no" /\ view'[t] = "hung")
    BY <2>1 DEF StreamInv, TypeInv, ViewTypes
  <2> QED BY <2>1, <2>2, Unqueued, QuietStream DEF StreamInv
<1> QED BY <1>1, <1>2

LEMMA LeaveStreams ==
  ASSUME StreamInv, NEW s \in Stream, LeaveStream(s)
  PROVE  \A t \in Stream : StreamOk(t)'
<1> DEFINE g == Closed(s)
<1>1. /\ view' = [view EXCEPT ![s] = "left"]
      /\ Route(g) \/ UNCHANGED <<toBridge, toPhone>>
      /\ UNCHANGED <<shown, pwire, wire, sseStreams, sent>>
  BY DEF LeaveStream, bridgeVars, linkVars, streamVars
<1>2. g \in ToB /\ g.type = "close"
  BY DEF Closed, ToB, OpenClose
<1>3. \A t \in Stream : SamePhone(t) /\ SameBridge(t)
  <2> HIDE DEF g
  <2>1. \A t : ~IsOpen(g, t)
    BY <1>2 DEF IsOpen
  <2> QED BY <1>1, <1>2, <2>1, RouteQuiet, Unqueued DEF StreamInv, TypeInv
<1>4. \A t \in Stream : view'[t] \in {view[t], "left"}
  BY <1>1 DEF StreamInv, TypeInv, ViewTypes
<1> QED BY <1>1, <1>3, <1>4, QuietStream DEF StreamInv

\* The next frame of s goes out behind those that are on their way.
LEMMA ForwardStreams ==
  ASSUME StreamInv, NEW s \in Stream, ForwardFrame(s)
  PROVE  \A t \in Stream : StreamOk(t)'
<1> DEFINE f == Frame(s, sent[s] + 1)
<1>1. /\ s \in sseStreams /\ sent' = [sent EXCEPT ![s] = @ + 1]
      /\ toPhone' = IF wire /\ pwire THEN Append(toPhone, f) ELSE toPhone
      /\ UNCHANGED <<view, shown, pwire, toBridge, wire, sseStreams>>
  BY DEF ForwardFrame, BridgeSends, ToDevice, viewVars, linkVars
<1>2. /\ sent[s] \in Nat /\ Len(shown[s]) \in Nat /\ toPhone \in Seq(ToP)
      /\ f \in ToP /\ f.type = "frame" /\ f.ch = s /\ f.n = sent[s] + 1
  BY DEF Frame, ToP, Frames, StreamInv, TypeInv, BridgeTypes, ViewTypes, WireInv
<1>3. sent'[s] = sent[s] + 1 /\ \A t \in Stream : t # s => sent'[t] = sent[t]
  BY <1>1 DEF StreamInv, TypeInv, BridgeTypes
<1> HIDE DEF f
<1>4. ASSUME NEW t \in Stream, t # s PROVE StreamOk(t)'
  <2>1. ~IsFrame(f, t) /\ ~IsEnd(f, t) /\ toPhone' \in {toPhone, Append(toPhone, f)}
    BY <1>1, <1>2, <1>4 DEF IsFrame, IsEnd
  <2>2. SamePhone(t) /\ SameBridge(t)
    BY <1>1, <1>2, <2>1, AppendOther DEF SamePhone, SameBridge
  <2> QED BY <1>1, <1>3, <1>4, <2>2, QuietStream DEF StreamInv
<1>5. StreamOk(s)'
  <2>1. StreamOk(s) /\ ~Ends(toPhone, s) /\ ~Opens(toBridge, s) /\ view[s] \notin {"no", "hung", "told"}
    BY <1>1 DEF StreamInv, StreamOk, Course, Fresh
  <2>2. /\ Numbers(toPhone', s)
             = IF wire /\ pwire THEN Numbers(toPhone, s) \cup {sent[s] + 1} ELSE Numbers(toPhone, s)
        /\ ~Ends(toPhone', s)
    <3>1. IsFrame(f, s)
      BY <1>2 DEF IsFrame
    <3>2. /\ Numbers(Append(toPhone, f), s) = Numbers(toPhone, s) \cup {sent[s] + 1}
          /\ ~Ends(Append(toPhone, f), s)
      BY <1>2, <2>1, <3>1, AppendFrame
    <3> QED BY <1>1, <2>1, <3>2
  <2>3. Prefix(s)'
    BY <1>1, <1>2, <1>3, <2>1, <2>2 DEF StreamOk, Prefix
  <2>4. Course(s)'
    BY <1>1, <2>1, <2>2 DEF StreamOk, Course
  <2>5. ASSUME view'[s] = "open" PROVE Coming(s)'
    <3>1. Coming(s) /\ Numbers(toPhone, s) \subseteq 1 .. sent[s]
      BY <1>1, <2>1, <2>5 DEF StreamOk, Prefix
    <3>2. InOrder(toPhone', s)
      BY <1>1, <1>2, <3>1, AppendFrame DEF Coming, IsFrame
    <3>3. CASE wire /\ pwire
      <4>1. Len(shown[s]) + 1 .. sent[s] \subseteq Numbers(toPhone, s)
        BY <1>1, <3>1, <3>3 DEF Coming
      <4>2. Len(shown[s]) + 1 .. sent[s] + 1 \subseteq Numbers(toPhone', s)
        BY <1>2, <2>2, <3>3, <4>1
      <4>3. \A n \in Numbers(toPhone', s) :
               n > Len(shown[s]) /\ Len(shown[s]) + 1 .. n \subseteq Numbers(toPhone', s)
        BY <1>2, <2>1, <2>2, <3>1, <3>3, <4>2 DEF Coming, StreamOk, Prefix
      <4> QED BY <1>1, <1>3, <2>2, <3>2, <4>2, <4>3 DEF Coming
    <3>4. CASE ~(wire /\ pwire)
      BY <1>1, <2>2, <3>1, <3>2, <3>4 DEF Coming
    <3> QED BY <3>3, <3>4
  <2> QED BY <2>3, <2>4, <2>5 DEF StreamOk
<1> QED BY <1>4, <1>5

\* The end of s goes out behind all of its frames.
LEMMA EndStreams ==
  ASSUME StreamInv, NEW s \in Stream, StreamEnds(s)
  PROVE  \A t \in Stream : StreamOk(t)'
<1> DEFINE f == Eof(s)
<1>1. /\ s \in sseStreams /\ sseStreams' = sseStreams \ {s}
      /\ toPhone' = IF wire /\ pwire THEN Append(toPhone, f) ELSE toPhone
      /\ UNCHANGED <<view, shown, pwire, toBridge, wire, sent>>
  BY DEF StreamEnds, BridgeSends, ToDevice, viewVars, linkVars
<1>2. toPhone \in Seq(ToP) /\ f \in ToP /\ f.type = "end" /\ f.ch = s
  BY DEF Eof, ToP, Eofs, StreamInv, TypeInv, WireInv
<1> HIDE DEF f
<1>3. ASSUME NEW t \in Stream, t # s PROVE StreamOk(t)'
  <2>1. ~IsFrame(f, t) /\ ~IsEnd(f, t) /\ toPhone' \in {toPhone, Append(toPhone, f)}
    BY <1>1, <1>2, <1>3 DEF IsFrame, IsEnd
  <2>2. SamePhone(t) /\ SameBridge(t)
    BY <1>1, <1>2, <2>1, AppendOther DEF SamePhone, SameBridge
  <2> QED BY <1>1, <1>3, <2>2, QuietStream DEF StreamInv
<1>4. StreamOk(s)'
  <2>1. StreamOk(s) /\ ~Ends(toPhone, s) /\ ~Opens(toBridge, s) /\ view[s] \notin {"no", "hung", "told"}
    BY <1>1 DEF StreamInv, StreamOk, Course, Fresh
  <2>2. /\ Numbers(toPhone', s) = Numbers(toPhone, s)
        /\ InOrder(toPhone, s) => InOrder(toPhone', s)
        /\ Ends(toPhone', s) => wire /\ pwire /\ EndLast(toPhone', s)
    BY <1>1, <1>2, <2>1, AppendEnd DEF IsEnd
  <2>3. Prefix(s)'
    BY <1>1, <2>1, <2>2 DEF StreamOk, Prefix
  <2>4. Course(s)'
    BY <1>1, <2>1 DEF StreamOk, Course
  <2>5. view'[s] = "open" => Coming(s)'
    BY <1>1, <2>1, <2>2 DEF StreamOk, Coming
  <2> QED BY <2>3, <2>4, <2>5 DEF StreamOk
<1> QED BY <1>3, <1>4

\* The bridge begins a stream that nothing has happened to, or leaves one.
LEMMA BridgeStreams ==
  ASSUME StreamInv, BridgeReceive
  PROVE  \A t \in Stream : StreamOk(t)'
<1> DEFINE h == Head(toBridge)
<1>1. /\ toBridge # <<>> /\ toBridge' = Tail(toBridge)
      /\ sseStreams' = CASE h.type = "open"  -> sseStreams \cup {h.ch}
                         [] h.type = "close" -> sseStreams \ {h.ch}
                         [] OTHER -> sseStreams
      /\ UNCHANGED <<viewVars, pwire, toPhone, wire, sent>>
  BY DEF BridgeReceive, linkVars
<1>2. toBridge \in Seq(ToB)
  BY DEF StreamInv, TypeInv, WireInv
<1>3. \A t \in Stream : SamePhone(t) /\ SameBridge(t)
  BY <1>1, <1>2, TailKeeps DEF SamePhone, SameBridge
<1>4. ASSUME NEW t \in Stream, ~IsOpen(h, t) PROVE StreamOk(t)'
  <2>1. t \in sseStreams' => t \in sseStreams
    BY <1>1, <1>4 DEF IsOpen
  <2> QED BY <1>1, <1>3, <2>1, QuietStream DEF StreamInv, viewVars
<1>5. ASSUME NEW t \in Stream, IsOpen(h, t) PROVE StreamOk(t)'
  <2>1. StreamOk(t) /\ Opens(toBridge, t) /\ ~Opens(toBridge', t)
    <3>1. h = toBridge[1] /\ 1 \in 1 .. Len(toBridge)
      BY <1>1, <1>2
    <3>2. StreamOk(t) /\ Opens(toBridge, t)
      BY <1>5, <3>1 DEF Opens, StreamInv
    <3>3. ASSUME NEW i \in 1 .. Len(toBridge'), IsOpen(toBridge'[i], t) PROVE FALSE
      <4>1. toBridge'[i] = toBridge[i + 1] /\ i + 1 \in 1 .. Len(toBridge) /\ i + 1 # 1
        BY <1>1, <1>2, TailAt
      <4> QED BY <1>5, <3>1, <3>2, <3>3, <4>1 DEF StreamOk, Course, OpenOnce
    <3> QED BY <3>2, <3>3 DEF Opens
  <2>2. Fresh(t) /\ view[t] # "no"
    BY <2>1 DEF StreamOk, Course
  <2>3. Prefix(t)'
    BY <1>1, <2>1 DEF StreamOk, Prefix, viewVars
  <2>4. Course(t)'
    BY <1>1, <1>3, <2>1, <2>2 DEF StreamOk, Course, Fresh, SameBridge, viewVars
  <2>5. Len(shown[t]) + 1 .. sent[t] = {} /\ sent[t] = 0
    BY <2>1, <2>2 DEF StreamOk, Prefix, Fresh, StreamInv, TypeInv, ViewTypes
  <2>6. view'[t] = "open" => Coming(t)'
    BY <1>1, <2>1, <2>2, <2>5 DEF StreamOk, Coming, Fresh, viewVars
  <2> QED BY <2>3, <2>4, <2>6 DEF StreamOk
<1> QED BY <1>4, <1>5
\* The phone reads a frame: of s, the next one; or its end, and has them all.
\* What the page reads of a stream it listens to is the frame it lacks, or the
\* end when it lacks none.
LEMMA NextFrame ==
  ASSUME StreamInv, toPhone # <<>>, NEW t \in Stream, IsFrame(Head(toPhone), t), view[t] = "open"
  PROVE  Head(toPhone).n = Len(shown[t]) + 1 /\ Len(shown[t]) + 1 <= sent[t]
<1> DEFINE h == Head(toPhone)
           k == Len(shown[t])
<1>1. k \in Nat /\ sent[t] \in Nat /\ Coming(t) /\ Prefix(t) /\ toPhone \in Seq(ToP)
  BY DEF StreamInv, TypeInv, WireInv, ViewTypes, BridgeTypes, StreamOk
<1>2. /\ h.n \in Numbers(toPhone, t)
      /\ Numbers(toPhone, t) = Numbers(Tail(toPhone), t) \cup {h.n}
      /\ \A n \in Numbers(Tail(toPhone), t) : h.n < n
  BY <1>1, TailNumbers DEF Coming
<1>3. h.n \in 1 .. sent[t] /\ h.n > k /\ k + 1 .. h.n \subseteq Numbers(toPhone, t)
  BY <1>1, <1>2 DEF Coming, Prefix
<1>4. k + 1 \in Numbers(toPhone, t)
  BY <1>1, <1>3
<1>5. k + 1 = h.n \/ h.n < k + 1
  BY <1>2, <1>4
<1> QED BY <1>1, <1>3, <1>5

LEMMA LastFrame ==
  ASSUME StreamInv, toPhone # <<>>, NEW t \in Stream, IsEnd(Head(toPhone), t), view[t] = "open"
  PROVE  Len(shown[t]) = sent[t]
<1>1. /\ Len(shown[t]) \in Nat /\ sent[t] \in Nat /\ toPhone \in Seq(ToP)
      /\ Coming(t) /\ Prefix(t)
  BY DEF StreamInv, TypeInv, WireInv, ViewTypes, BridgeTypes, StreamOk
<1>2. Ends(toPhone, t) /\ (EndLast(toPhone, t) => Numbers(toPhone, t) = {})
  BY <1>1, TailNumbers, TailKeeps
<1>3. Len(shown[t]) + 1 .. sent[t] = {}
  BY <1>1, <1>2 DEF Coming
<1> QED BY <1>1, <1>3 DEF Prefix

LEMMA PhoneStreams ==
  ASSUME StreamInv, PhoneReceive
  PROVE  \A t \in Stream : StreamOk(t)'
<1> DEFINE h == Head(toPhone)
<1>1. /\ toPhone # <<>> /\ toPhone' = Tail(toPhone)
      /\ UNCHANGED <<pwire, toBridge, wire, sseStreams, sent>>
  BY DEF PhoneReceive, bridgeVars, linkVars, streamVars
<1>2. toPhone \in Seq(ToP)
  BY DEF StreamInv, TypeInv, WireInv
<1>3. /\ shown' = IF h.type = "frame" /\ view[h.ch] = "open"
                  THEN [shown EXCEPT ![h.ch] = Append(@, h.n)] ELSE shown
      /\ view' = IF h.type = "end" /\ view[h.ch] = "open"
                 THEN [view EXCEPT ![h.ch] = "told"] ELSE view
  BY DEF PhoneReceive, viewVars
<1>4. ASSUME NEW t \in Stream, ~IsFrame(h, t), ~(IsEnd(h, t) /\ view[t] = "open")
      PROVE  StreamOk(t)'
  <2>1. shown'[t] = shown[t] /\ view'[t] = view[t]
    BY <1>3, <1>4 DEF IsFrame, IsEnd
  <2>2. SamePhone(t) /\ SameBridge(t)
    BY <1>1, <1>2, <1>4, TailKeeps, TailNumbers DEF SamePhone, SameBridge
  <2> QED BY <1>1, <2>1, <2>2, QuietStream DEF StreamInv
<1>5. ASSUME NEW t \in Stream, IsFrame(h, t) PROVE StreamOk(t)'
  <2> DEFINE k == Len(shown[t])
  <2>1. /\ StreamOk(t) /\ k \in Nat /\ sent[t] \in Nat
        /\ shown[t] \in Seq(Nat) /\ shown \in [Stream -> Seq(Nat)] /\ view' = view
    BY <1>3, <1>5 DEF StreamInv, TypeInv, ViewTypes, BridgeTypes, IsFrame
  <2>2. /\ h.n \in Numbers(toPhone, t)
        /\ Numbers(toPhone, t) = Numbers(toPhone', t) \cup {h.n}
        /\ InOrder(toPhone, t) => \A n \in Numbers(toPhone', t) : h.n < n
        /\ InOrder(toPhone, t) => InOrder(toPhone', t)
        /\ EndLast(toPhone, t) => EndLast(toPhone', t)
        /\ Ends(toPhone', t) => Ends(toPhone, t)
    BY <1>1, <1>2, <1>5, TailNumbers, TailKeeps
  <2>3. CASE view[t] # "open"
    <3>1. shown'[t] = shown[t]
      BY <1>3, <1>5, <2>3 DEF IsFrame
    <3>2. Prefix(t)'
      BY <1>1, <2>1, <2>2, <3>1 DEF StreamOk, Prefix
    <3>3. Course(t)'
      BY <1>1, <2>1, <2>2, <3>1 DEF StreamOk, Course, Fresh
    <3> QED BY <2>1, <2>3, <3>2, <3>3 DEF StreamOk
  <2>4. CASE view[t] = "open"
    <3>1. Coming(t) /\ Prefix(t)
      BY <2>1, <2>4 DEF StreamOk
    <3>2. h.n = k + 1 /\ k + 1 <= sent[t]
      BY <1>1, <1>5, <2>4, NextFrame
    <3>3. shown'[t] = Append(shown[t], k + 1)
      BY <1>3, <1>5, <2>1, <2>4, <3>2 DEF IsFrame
    <3>4. Len(shown'[t]) = k + 1 /\ shown'[t] = [i \in 1 .. k + 1 |-> i]
      BY <2>1, <3>1, <3>3 DEF Prefix
    <3>5. Prefix(t)'
      BY <1>1, <2>2, <3>1, <3>2, <3>4 DEF Prefix
    <3>6. Course(t)'
      BY <1>1, <2>1, <2>2, <2>4 DEF StreamOk, Course, Fresh
    <3>7. Coming(t)'
      <4>1. ASSUME NEW n \in Numbers(toPhone', t)
            PROVE  n > k + 1 /\ k + 2 .. n \subseteq Numbers(toPhone', t)
        <5>1. n \in Nat /\ k + 1 .. n \subseteq Numbers(toPhone, t) /\ n > k + 1
          BY <2>2, <3>1, <3>2, <4>1 DEF Coming, Prefix
        <5> QED BY <2>1, <2>2, <3>2, <5>1
      <4>2. ASSUME k + 1 .. sent[t] \subseteq Numbers(toPhone, t)
            PROVE  k + 2 .. sent[t] \subseteq Numbers(toPhone', t)
        BY <2>1, <2>2, <3>2, <4>2
      <4>3. k + 1 + 1 = k + 2
        BY <2>1
      <4> HIDE DEF k, h
      <4> QED BY <1>1, <2>2, <3>1, <3>4, <4>1, <4>2, <4>3 DEF Coming, k
    <3> QED BY <3>5, <3>6, <3>7 DEF StreamOk
  <2> QED BY <2>3, <2>4
<1>6. ASSUME NEW t \in Stream, IsEnd(h, t), view[t] = "open" PROVE StreamOk(t)'
  <2>1. /\ StreamOk(t) /\ Len(shown[t]) \in Nat /\ sent[t] \in Nat
        /\ view'[t] = "told" /\ shown' = shown
    BY <1>3, <1>6 DEF StreamInv, TypeInv, ViewTypes, BridgeTypes, IsEnd
  <2>2. /\ Ends(toPhone, t) /\ (EndLast(toPhone, t) => Numbers(toPhone, t) = {})
        /\ Numbers(toPhone', t) \subseteq Numbers(toPhone, t)
    BY <1>1, <1>2, <1>6, TailNumbers, TailKeeps
  <2>3. Len(shown[t]) = sent[t]
    BY <1>1, <1>6, LastFrame
  <2>4. ~Opens(toBridge, t) /\ t \notin sseStreams
    BY <2>1, <2>2 DEF StreamOk, Course, Fresh
  <2>5. Prefix(t)'
    BY <1>1, <2>1, <2>2 DEF StreamOk, Prefix
  <2>6. Course(t)'
    BY <1>1, <2>1, <2>3, <2>4 DEF StreamOk, Course
  <2> QED BY <2>1, <2>5, <2>6 DEF StreamOk
<1> QED BY <1>4, <1>5, <1>6

\* A phone without a wire gets nothing more.
LEMMA PhoneBreakStreams ==
  ASSUME StreamInv, PhoneBreak
  PROVE  \A t \in Stream : StreamOk(t)'
<1> SUFFICES ASSUME NEW t \in Stream PROVE StreamOk(t)'
  OBVIOUS
<1>1. /\ pwire' = FALSE /\ toPhone' = <<>> /\ StreamOk(t)
      /\ UNCHANGED <<view, shown, toBridge, sseStreams, sent>>
  BY DEF PhoneBreak, viewVars, bridgeVars, streamVars, StreamInv
<1>2. Numbers(<<>>, t) = {} /\ ~Ends(<<>>, t) /\ InOrder(<<>>, t)
  BY DEF Numbers, Ends, InOrder
<1>3. Prefix(t)' /\ Course(t)'
  BY <1>1, <1>2 DEF StreamOk, Prefix, Course, Fresh
<1>4. view'[t] = "open" => Coming(t)'
  BY <1>1, <1>2 DEF Coming
<1> QED BY <1>3, <1>4 DEF StreamOk

\* The bridge drops its streams before it has a wire again.
LEMMA LinkStreams ==
  ASSUME StreamInv,
         Break \/ RelayNotices \/ BridgeClosed \/ BridgeStarts \/ BridgeConnects \/ PhoneDrop
  PROVE  \A t \in Stream : StreamOk(t)'
<1>1. UNCHANGED <<viewVars, pwire, toPhone, sent>> /\ toBridge' \in {toBridge, <<>>}
  BY DEF Break, RelayNotices, BridgeClosed, BridgeStarts, BridgeConnects, PhoneDrop, bridgeVars,
         streamVars
<1>2. sseStreams' \subseteq sseStreams /\ (sseStreams' # {} /\ wire' => wire)
  BY DEF Break, RelayNotices, BridgeClosed, BridgeStarts, BridgeConnects, PhoneDrop, bridgeVars,
         streamVars, linkVars, StreamInv, LinkOk
<1>3. \A t \in Stream : SamePhone(t) /\ SameBridge(t)
  BY <1>1 DEF SamePhone, SameBridge, Opens, OpenOnce
<1> QED BY <1>1, <1>2, <1>3, QuietStreams

LEMMA LinkStays ==
  ASSUME StreamInv, Next
  PROVE  LinkOk'
<1> USE DEF StreamInv, LinkOk
<1>1. ASSUME NEW c \in Call, TunnelSafe(c) \/ CallOnce(c) PROVE LinkOk'
  <2>1. UNCHANGED <<pwire, wire, bridgeEnd, sseStreams>>
    BY <1>1 DEF TunnelSafe, CallOnce, bridgeVars, linkVars, streamVars
  <2>2. (wire \/ toBridge' = toBridge) /\ (pwire \/ toPhone' = toPhone)
    BY <1>1 DEF TunnelSafe, CallOnce, Join, NoChannel, Lead, Issue, Route, ToDevice
  <2> QED BY <2>1, <2>2
<1>2. ASSUME NEW id \in Request, RequestTimeout(id) PROVE LinkOk'
  <2>1. UNCHANGED <<pwire, wire, bridgeEnd, sseStreams>>
    BY <1>2 DEF RequestTimeout, bridgeVars, linkVars, streamVars
  <2>2. (wire \/ toBridge' = toBridge) /\ (pwire \/ toPhone' = toPhone)
    BY <1>2 DEF RequestTimeout, Retry, Route, ToDevice
  <2> QED BY <2>1, <2>2
<1>3. ASSUME NEW s \in Stream, OpenStream(s) \/ LeaveStream(s) PROVE LinkOk'
  <2>1. UNCHANGED <<pwire, wire, bridgeEnd, sseStreams>>
    BY <1>3 DEF OpenStream, LeaveStream, bridgeVars, linkVars, streamVars
  <2>2. (wire \/ toBridge' = toBridge) /\ (pwire \/ toPhone' = toPhone)
    BY <1>3 DEF OpenStream, LeaveStream, Route, ToDevice
  <2> QED BY <2>1, <2>2
<1>4. ASSUME NEW s \in Stream, ForwardFrame(s) \/ StreamEnds(s) PROVE LinkOk'
  BY <1>4 DEF ForwardFrame, StreamEnds, BridgeSends, ToDevice, linkVars
<1>5. CASE PhoneReceive \/ PhoneBreak \/ PhoneDrop
  BY <1>5 DEF PhoneReceive, PhoneBreak, PhoneDrop, bridgeVars, linkVars, streamVars
<1>6. CASE BridgeReceive
  BY <1>6 DEF BridgeReceive, linkVars
<1>7. ASSUME NEW r \in Request, Fetched(r) \/ Drained(r) PROVE LinkOk'
  BY <1>7 DEF Fetched, Drained, SendPart, BridgeSends, ToDevice, linkVars, streamVars
<1>8. CASE Break \/ RelayNotices \/ BridgeClosed \/ BridgeStarts \/ BridgeConnects
  BY <1>8 DEF Break, RelayNotices, BridgeClosed, BridgeStarts, BridgeConnects, streamVars, Aborted
<1> QED BY <1>1, <1>2, <1>3, <1>4, <1>5, <1>6, <1>7, <1>8 DEF Next

LEMMA InitStreams == Init => StreamInv
<1> SUFFICES ASSUME Init PROVE StreamInv
  OBVIOUS
<1>1. LinkOk
  BY DEF Init, LinkOk
<1>2. ASSUME NEW s \in Stream PROVE StreamOk(s)
  <2>1. /\ toPhone = <<>> /\ toBridge = <<>> /\ shown[s] = <<>> /\ sent[s] = 0 /\ view[s] = "no"
        /\ s \notin sseStreams
    BY DEF Init
  <2>2. Numbers(<<>>, s) = {} /\ ~Ends(<<>>, s) /\ ~Opens(<<>>, s) /\ OpenOnce(<<>>, s)
    BY DEF Numbers, Ends, Opens, OpenOnce
  <2>3. Len(<<>>) = 0 /\ <<>> = [i \in 1 .. 0 |-> i]
    OBVIOUS
  <2>4. Prefix(s)
    BY <2>1, <2>2, <2>3 DEF Prefix
  <2> QED BY <2>1, <2>2, <2>4 DEF StreamOk, Course, Fresh
<1> QED BY InitTypes, <1>1, <1>2 DEF StreamInv

LEMMA NextStreams == StreamInv /\ [Next]_vars => StreamInv'
<1> SUFFICES ASSUME StreamInv, [Next]_vars PROVE StreamInv'
  OBVIOUS
<1>1. TypeInv'
  BY NextTypes DEF StreamInv
<1>2. CASE Next
  <2>1. \A s \in Stream : StreamOk(s)'
    BY <1>2, CallsQuiet, HandlersQuiet, OpenStreams, LeaveStreams, ForwardStreams, EndStreams,
       BridgeStreams, PhoneStreams, PhoneBreakStreams, LinkStreams DEF Next
  <2> QED BY <1>1, <1>2, <2>1, LinkStays DEF StreamInv
<1>3. CASE UNCHANGED vars
  <2>1. UNCHANGED <<viewVars, toPhone, toBridge, pwire, wire, bridgeEnd, streamVars>>
    BY <1>3 DEF vars, bridgeVars, linkVars
  <2>2. \A s \in Stream : StreamOk(s)'
    BY <2>1, Unqueued, QuietStreams DEF streamVars
  <2> QED BY <1>1, <2>1, <2>2 DEF StreamInv, LinkOk, streamVars
<1> QED BY <1>2, <1>3

\* A stream is shown from its start without a gap, and whole when the page is
\* told of its end, whatever breaks and comes back meanwhile.
THEOREM StreamsAreWhole == Spec => []StreamsWhole
<1>1. StreamInv => StreamsWhole
  BY DEF StreamInv, StreamOk, Prefix, Course, StreamsWhole
<1> QED BY InitStreams, NextStreams, <1>1, PTL DEF Spec
-----------------------------------------------------------------------------
(* What a page is promised: Streams implements PageTunnel.                 *)

\* Those who share a request ask the same, and who has no answer has no part of
\* one.
Sharers ==
    \A c \in Call : /\ leader[c] # None => SameKey(c, leader[c])
                    /\ call[c] # "answered" => answer[c] = {}

PageInv == AnswerInv /\ StreamInv /\ Sharers

pageVars == <<up, call, answer, view, sent, shown>>

LEMMA SettleShares ==
  ASSUME CallInv, Sharers, NEW id \in pending, NEW outcome \in {"answered", "failed"}, NEW parts,
         Settle(id, outcome, parts), UNCHANGED leader, outcome = "failed" => parts = {}
  PROVE  Sharers'
  BY DEF Settle, Sharers, SameKey

LEMMA NextShares ==
  ASSUME CallInv, Sharers, Next
  PROVE  Sharers'
<1>1. ASSUME NEW c \in Call, TunnelSafe(c) \/ CallOnce(c) PROVE Sharers'
  <2>1. UNCHANGED answer /\ call[c] = "no" /\ leader[c] = None
    BY <1>1 DEF TunnelSafe, CallOnce, CallInv, LeadersLead
  <2>2. /\ \A d \in Call : d # c => call'[d] = call[d] /\ leader'[d] = leader[d]
        /\ call'[c] # "answered"
    BY <1>1 DEF TunnelSafe, CallOnce, Join, NoChannel, Lead, Issue, CallInv, CallTypes
  <2>3. leader'[c] # None => SameKey(c, leader'[c])
    <3>1. CASE Join(c) /\ c \in Safe
      <4>1. /\ PathOf[c] \in Path /\ leader'[c] = inflight[PathOf[c]]
            /\ inflight[PathOf[c]] # None
        BY <3>1, Bounds DEF Join, Shared, CallInv, CallTypes
      <4> QED BY <3>1, <4>1 DEF CallInv, CallTypes, FlightsLed, SameKey
    <3>2. CASE NoChannel(c)
      BY <2>1, <3>2 DEF NoChannel
    <3>3. CASE Lead(c)
      BY <3>3 DEF Lead, SameKey, CallInv, CallTypes
    <3> QED BY <1>1, <3>1, <3>2, <3>3 DEF TunnelSafe, CallOnce
  <2> QED BY <2>1, <2>2, <2>3 DEF Sharers, SameKey
<1>2. ASSUME NEW id \in Request, RequestTimeout(id) PROVE Sharers'
  <2>1. CASE Retry(id) /\ UNCHANGED leader
    BY <2>1 DEF Retry, Sharers, SameKey
  <2>2. CASE id \in pending /\ Settle(id, "failed", {}) /\ UNCHANGED leader
    BY <2>2, SettleShares
  <2> QED BY <1>2, <2>1, <2>2 DEF RequestTimeout
<1>3. ASSUME PhoneReceive PROVE Sharers'
  <2> DEFINE f == Head(toPhone)
  <2>1. UNCHANGED leader /\ (OnReply(f) \/ Accept(f) \/ UNCHANGED <<call, answer>>)
    BY <1>3 DEF PhoneReceive
  <2>2. CASE UNCHANGED <<call, answer>>
    BY <2>1, <2>2 DEF Sharers, SameKey
  <2>3. CASE \E id \in pending : \E parts : Settle(id, "answered", parts)
    BY <2>1, <2>3, SettleShares
  <2> QED BY <2>1, <2>2, <2>3 DEF OnReply, Accept
<1>4. ASSUME PhoneDrop PROVE Sharers'
  BY <1>4 DEF PhoneDrop, FailedCalls, Sharers, SameKey
<1>5. ASSUME UNCHANGED <<call, leader, answer>> PROVE Sharers'
  BY <1>5 DEF Sharers, SameKey
<1>6. \/ \E s \in Stream : OpenStream(s) \/ LeaveStream(s) \/ ForwardFrame(s) \/ StreamEnds(s)
      \/ PhoneBreak \/ BridgeReceive
      \/ \E r \in Request : Fetched(r) \/ Drained(r)
      \/ Break \/ RelayNotices \/ BridgeClosed \/ BridgeStarts \/ BridgeConnects
      => UNCHANGED <<call, leader, answer>>
  BY DEF phoneVars, OpenStream, LeaveStream, ForwardFrame, StreamEnds, PhoneBreak, BridgeReceive,
         Fetched, Drained, Break, RelayNotices, BridgeClosed, BridgeStarts, BridgeConnects
<1> QED BY <1>1, <1>2, <1>3, <1>4, <1>5, <1>6 DEF Next

\* Nobody joins a request of a client that has dropped.
LEMMA CallsPromised ==
  ASSUME PageInv, NEW c \in Call, TunnelSafe(c) \/ CallOnce(c)
  PROVE  Promise!Ask(c) /\ UNCHANGED <<up, view, sent, shown>>
<1>1. call[c] = "no" /\ UNCHANGED <<up, answer, view, sent, shown>>
  BY DEF TunnelSafe, CallOnce, viewVars, bridgeVars, streamVars
<1>2. CASE NoChannel(c)
  BY <1>1, <1>2 DEF NoChannel, Promise!Ask
<1>3. CASE Lead(c)
  BY <1>1, <1>3 DEF Lead, Issue, Promise!Ask
<1>4. CASE Join(c) /\ c \in Safe
  <2>1. /\ inflight[PathOf[c]] \in Call /\ call[inflight[PathOf[c]]] = "waiting"
    BY <1>4, Bounds DEF Join, Shared, PageInv, AnswerInv, TypeInv, CallInv, CallTypes, FlightsLed
  <2>2. up
    BY <2>1 DEF PageInv, AnswerInv, TypeInv, CallInv, CallsAwaited
  <2> QED BY <1>1, <1>4, <2>2 DEF Join, Promise!Ask
<1> QED BY <1>1, <1>2, <1>3, <1>4 DEF TunnelSafe, CallOnce

\* All who wait for a request have its outcome, at once, and had none before.
LEMMA SettlePromised ==
  ASSUME PageInv, NEW id \in pending, NEW outcome \in {"answered", "failed"}, NEW parts,
         Settle(id, outcome, parts), UNCHANGED leader, outcome = "failed" => parts = {},
         outcome = "answered" => LeadersWhole'
  PROVE  up /\ \E S \in SUBSET Promise!Waiting : Promise!Answers(S) \/ Promise!Fails(S)
<1> DEFINE S == {d \in Call : leader[d] = id[1]}
<1>1. /\ id[1] \in Call /\ leader[id[1]] = id[1] /\ call[id[1]] = "waiting" /\ up
      /\ id[1] # None
  BY Bounds DEF PageInv, AnswerInv, TypeInv, CallInv, CallTypes, CallsAwaited
<1>2. S \in SUBSET Promise!Waiting
  BY <1>1 DEF PageInv, AnswerInv, TypeInv, CallInv, LeadersLead, Promise!Waiting
<1>3. Promise!Outcome(S, outcome)
  BY DEF Settle, Promise!Outcome
<1>4. answer' = [d \in Call |-> IF d \in S THEN parts ELSE answer[d]]
  BY DEF Settle
<1>5. CASE outcome = "failed"
  <2>1. answer = [d \in Call |-> answer[d]]
    BY DEF PageInv, AnswerInv, TypeInv, PieceTypes
  <2>2. \A d \in S : answer[d] = {}
    BY <1>2 DEF PageInv, Sharers, Promise!Waiting
  <2>3. UNCHANGED answer
    BY <1>4, <1>5, <2>1, <2>2
  <2> QED BY <1>1, <1>2, <1>3, <1>5, <2>3 DEF Promise!Fails
<1>6. CASE outcome = "answered"
  <2>1. parts \in {answer'[d] : d \in S}
    BY <1>1, <1>4
  <2>2. ASSUME NEW d \in S PROVE ReplyTo(d, parts)
    <3>1. Whole(id[1], parts)
      <4>1. call'[d] = "answered" /\ leader'[d] = id[1] /\ answer'[d] = parts
        BY <1>4, <1>6 DEF Settle
      <4>2. \A e \in Call : call'[e] = "answered" => Whole(leader'[e], answer'[e])
        BY <1>6 DEF LeadersWhole, Whole
      <4> QED BY <4>1, <4>2
    <3>2. SameKey(d, id[1])
      BY <1>1 DEF PageInv, Sharers
    <3> QED BY <1>1, <3>1, <3>2 DEF Whole, ReplyTo
  <2> HIDE DEF S
  <2>3. Promise!Answers(S)
    BY <1>1, <1>3, <1>4, <1>6, <2>1, <2>2 DEF Promise!Answers
  <2> QED BY <1>1, <1>2, <2>3
<1> QED BY <1>5, <1>6

LEMMA StreamsPromised ==
  ASSUME PageInv, NEW s \in Stream, OpenStream(s) \/ LeaveStream(s) \/ ForwardFrame(s)
  PROVE  /\ Promise!Open(s) \/ Promise!Leave(s) \/ Promise!Publish(s)
         /\ UNCHANGED <<up, call, answer>>
<1>1. CASE OpenStream(s)
  BY <1>1 DEF OpenStream, Promise!Open, phoneVars, bridgeVars, streamVars
<1>2. CASE LeaveStream(s)
  BY <1>2 DEF LeaveStream, Promise!Leave, phoneVars, bridgeVars, streamVars
<1>3. CASE ForwardFrame(s)
  <2>1. view[s] \in {"no", "hung", "open", "told", "left"} /\ StreamOk(s) /\ s \in sseStreams
    BY <1>3 DEF PageInv, StreamInv, TypeInv, ViewTypes, ForwardFrame
  <2>2. view[s] \in {"open", "left"}
    BY <2>1 DEF StreamOk, Course, Fresh
  <2> QED BY <1>3, <2>2 DEF ForwardFrame, Promise!Publish, phoneVars, viewVars
<1> QED BY <1>1, <1>2, <1>3

LEMMA ReceivePromised ==
  ASSUME PageInv, PhoneReceive
  PROVE  \/ UNCHANGED pageVars
         \/ /\ \E S \in SUBSET Promise!Waiting : Promise!Answers(S) \/ Promise!Fails(S)
            /\ UNCHANGED <<up, view, sent, shown>>
         \/ /\ \E s \in Stream : Promise!Show(s) \/ Promise!Tell(s)
            /\ UNCHANGED <<up, call, answer>>
<1> DEFINE f == Head(toPhone)
<1>1. toPhone # <<>> /\ up /\ f \in ToP /\ UNCHANGED <<up, leader, sent>>
  BY HeadToPhone DEF PhoneReceive, bridgeVars, streamVars, PageInv, AnswerInv, TypeInv, WireInv
<1>2. LeadersWhole'
  BY ReceiveWhole DEF PageInv
<1>3. CASE (OnReply(f) \/ Accept(f)) /\ UNCHANGED viewVars
  <2>1. CASE UNCHANGED <<call, answer>>
    BY <1>1, <1>3, <2>1 DEF pageVars, viewVars
  <2>2. CASE \E id \in pending : \E parts : Settle(id, "answered", parts)
    BY <1>1, <1>2, <1>3, <2>2, SettlePromised DEF viewVars
  <2> QED BY <1>3, <2>1, <2>2 DEF OnReply, Accept
<1>4. CASE /\ f.type = "frame" /\ UNCHANGED <<call, answer, view>>
           /\ shown' = IF view[f.ch] = "open"
                       THEN [shown EXCEPT ![f.ch] = Append(@, f.n)] ELSE shown
  <2>1. f.ch \in Stream /\ IsFrame(f, f.ch)
    BY <1>1, <1>4 DEF ToP, Replies, PartsOf, Frames, Eofs, IsFrame
  <2>2. CASE view[f.ch] = "open"
    <3>1. f.n = Len(shown[f.ch]) + 1 /\ Len(shown[f.ch]) + 1 <= sent[f.ch]
      BY <1>1, <2>1, <2>2, NextFrame DEF PageInv
    <3>2. Len(shown[f.ch]) \in Nat /\ sent[f.ch] \in Nat
      BY <2>1 DEF PageInv, AnswerInv, TypeInv, ViewTypes, BridgeTypes
    <3>3. Promise!Show(f.ch)
      <4>1. PICK n : n = Len(shown[f.ch]) + 1
        OBVIOUS
      <4>2. shown' = [shown EXCEPT ![f.ch] = Append(@, n)] /\ f.n = n
        BY <1>4, <2>2, <3>1, <4>1
      <4>3. Len(shown[f.ch]) < sent[f.ch]
        BY <3>1, <3>2
      <4> HIDE DEF f
      <4> QED BY <1>1, <1>4, <2>2, <4>1, <4>2, <4>3 DEF Promise!Show
    <3> QED BY <1>1, <1>4, <2>1, <3>3
  <2> QED BY <1>1, <1>4, <2>2 DEF pageVars
<1>5. CASE /\ f.type = "end" /\ UNCHANGED <<call, answer, shown>>
           /\ view' = IF view[f.ch] = "open" THEN [view EXCEPT ![f.ch] = "told"] ELSE view
  <2>1. f.ch \in Stream /\ IsEnd(f, f.ch)
    BY <1>1, <1>5 DEF ToP, Replies, PartsOf, Frames, Eofs, IsEnd
  <2>2. CASE view[f.ch] = "open"
    <3>1. Len(shown[f.ch]) = sent[f.ch]
      BY <1>1, <2>1, <2>2, LastFrame DEF PageInv
    <3>2. Promise!Tell(f.ch)
      BY <1>1, <1>5, <2>2, <3>1 DEF Promise!Tell
    <3> QED BY <1>1, <1>5, <2>1, <3>2
  <2> QED BY <1>1, <1>5, <2>2 DEF pageVars
<1> QED BY <1>3, <1>4, <1>5 DEF PhoneReceive, viewVars

LEMMA NextPromised ==
  ASSUME PageInv, [Next]_vars
  PROVE  [Promise!Next]_<<up, Promise!calls, Promise!streams>>
<1> USE DEF Promise!calls, Promise!streams
<1>1. ASSUME UNCHANGED pageVars PROVE UNCHANGED <<up, Promise!calls, Promise!streams>>
  BY <1>1 DEF pageVars
<1>2. ASSUME NEW c \in Call, TunnelSafe(c) \/ CallOnce(c) PROVE Promise!Next
  <2>1. Promise!Ask(c) /\ UNCHANGED <<up, view, sent, shown>>
    BY <1>2, CallsPromised
  <2> QED BY <2>1 DEF Promise!Next, Promise!CallStep
<1>3. ASSUME NEW id \in Request, RequestTimeout(id)
      PROVE  Promise!Next \/ UNCHANGED pageVars
  <2>1. id \in pending /\ UNCHANGED <<up, leader, view, sent, shown>>
    BY <1>3 DEF RequestTimeout, viewVars, bridgeVars, streamVars
  <2>2. CASE Retry(id)
    BY <2>1, <2>2 DEF Retry, pageVars
  <2>3. CASE Settle(id, "failed", {})
    <3>1. \E S \in SUBSET Promise!Waiting : Promise!Answers(S) \/ Promise!Fails(S)
      BY <2>1, <2>3, SettlePromised
    <3> QED BY <2>1, <3>1 DEF Promise!Next, Promise!CallStep
  <2> QED BY <1>3, <2>2, <2>3 DEF RequestTimeout
<1>4. ASSUME NEW s \in Stream, OpenStream(s) \/ LeaveStream(s) \/ ForwardFrame(s)
      PROVE  Promise!Next
  <2>1. /\ Promise!Open(s) \/ Promise!Leave(s) \/ Promise!Publish(s)
        /\ UNCHANGED <<up, call, answer>>
    BY <1>4, StreamsPromised
  <2> QED BY <2>1 DEF Promise!Next, Promise!StreamStep
<1>5. ASSUME PhoneReceive PROVE Promise!Next \/ UNCHANGED pageVars
  BY <1>5, ReceivePromised DEF Promise!Next, Promise!CallStep, Promise!StreamStep
<1>6. ASSUME PhoneDrop PROVE Promise!Next
  <2>1. Promise!Cut
    BY <1>6 DEF PhoneDrop, FailedCalls, viewVars, bridgeVars, streamVars, Promise!Cut,
                Promise!Fails, Promise!Outcome, Promise!Waiting
  <2> QED BY <2>1 DEF Promise!Next
<1>7. ASSUME \/ \E s \in Stream : StreamEnds(s)
             \/ PhoneBreak \/ BridgeReceive
             \/ \E r \in Request : Fetched(r) \/ Drained(r)
             \/ Break \/ RelayNotices \/ BridgeClosed \/ BridgeStarts \/ BridgeConnects
             \/ UNCHANGED vars
      PROVE  UNCHANGED pageVars
  BY <1>7 DEF pageVars, vars, phoneVars, viewVars, bridgeVars, streamVars, StreamEnds, PhoneBreak,
              BridgeReceive, Fetched, Drained, Break, RelayNotices, BridgeClosed, BridgeStarts,
              BridgeConnects
<1> QED BY <1>1, <1>2, <1>3, <1>4, <1>5, <1>6, <1>7 DEF Next

LEMMA PageInvariance == Spec => []PageInv
<1>1. Init => PageInv
  <2>1. Init => Sharers
    BY DEF Init, Sharers
  <2> QED BY <2>1, InitAnswers, InitStreams DEF PageInv
<1>2. PageInv /\ [Next]_vars => PageInv'
  <2> SUFFICES ASSUME PageInv, [Next]_vars PROVE PageInv'
    OBVIOUS
  <2>1. AnswerInv' /\ StreamInv'
    BY NextAnswers, NextStreams DEF PageInv
  <2>2. Sharers'
    <3>1. CASE Next
      BY <3>1, NextShares DEF PageInv, AnswerInv, TypeInv
    <3>2. CASE UNCHANGED vars
      BY <3>2 DEF vars, phoneVars, PageInv, Sharers, SameKey
    <3> QED BY <3>1, <3>2
  <2> QED BY <2>1, <2>2 DEF PageInv
<1> QED BY <1>1, <1>2, PTL DEF Spec

\* What lies below a page's tunnel (retries, shared requests, replies in parts,
\* late replies, tunnels that break) does not show: each call has one outcome
\* and an answer to what it asked, and streams come in order and whole.
THEOREM PageIsPromised == Spec => PagePromise
<1>1. Init => Promise!Init
  BY DEF Init, Promise!Init
<1>2. PageInv /\ [Next]_vars => [Promise!Next]_<<up, Promise!calls, Promise!streams>>
  BY NextPromised
<1> QED BY <1>1, <1>2, PageInvariance, PTL DEF Spec, PagePromise, Promise!Spec

\* What a page has been told stands: a settled call is not settled again, a
\* stream that was left, or told of its end, shows nothing more, and on a tunnel
\* that was cut nobody begins to wait and a stream that is asked for only hangs.
Settled ==
    /\ \A c \in Call : call[c] \in {"answered", "failed"} =>
          call'[c] = call[c] /\ answer'[c] = answer[c]
    /\ \A s \in Stream : view[s] \in {"told", "left"} => shown'[s] = shown[s]
    /\ ~up => /\ \A c \in Call : call'[c] # "waiting"
              /\ \A s \in Stream : view'[s] = "open" => view[s] = "open"
              /\ shown' = shown

PageSettled == [][Settled]_vars

\* Late replies, retries of a shared request, second ends of a stream and a client that
\* drops in the middle of it change nothing that a page was told already
\* (relay_client.dart:145, 286).
THEOREM OutcomesStand == Spec => PageSettled
<1>1. PageInv /\ [Next]_vars => [Settled]_vars
  <2> SUFFICES ASSUME PageInv, [Next]_vars PROVE Settled
    OBVIOUS
  <2>1. /\ call \in [Call -> {"no", "waiting", "answered", "failed"}]
        /\ DOMAIN answer = Call
        /\ DOMAIN view = Stream /\ DOMAIN shown = Stream
    BY DEF PageInv, AnswerInv, StreamInv, TypeInv, CallInv, CallTypes, PieceTypes, ViewTypes
  <2>2. ~up => \A c \in Call : call[c] # "waiting"
    BY DEF PageInv, AnswerInv, TypeInv, CallInv, CallsAwaited
  <2>3. CASE Promise!CallStep /\ UNCHANGED <<up, Promise!streams>>
    <3>1. CASE \E c \in Call : Promise!Ask(c)
      BY <2>1, <2>2, <2>3, <3>1 DEF Promise!Ask, Promise!streams, Settled
    <3>2. CASE \E S \in SUBSET Promise!Waiting : Promise!Fails(S) \/ Promise!Answers(S)
      BY <2>1, <2>2, <2>3, <3>2 DEF Promise!Fails, Promise!Answers, Promise!Outcome,
                                 Promise!Waiting, Promise!streams, Settled
    <3> QED BY <2>3, <3>1, <3>2 DEF Promise!CallStep
  <2>4. CASE Promise!StreamStep /\ UNCHANGED <<up, Promise!calls>>
    BY <2>1, <2>2, <2>4 DEF Promise!StreamStep, Promise!Open, Promise!Publish, Promise!Show,
                         Promise!Tell, Promise!Leave, Promise!calls, Settled
  <2>5. CASE Promise!Cut
    BY <2>1, <2>2, <2>5 DEF Promise!Cut, Promise!Fails, Promise!Outcome, Promise!Waiting,
                         Promise!streams, Settled
  <2>6. CASE UNCHANGED <<up, Promise!calls, Promise!streams>>
    BY <2>2, <2>6 DEF Promise!calls, Promise!streams, Settled
  <2> QED BY <2>3, <2>4, <2>5, <2>6, NextPromised DEF Promise!Next
<1> QED BY <1>1, PageInvariance, PTL DEF Spec, PageSettled
=============================================================================
