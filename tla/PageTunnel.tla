---------------------------- MODULE PageTunnel ----------------------------
(***************************************************************************)
(* What a page, and the app, are promised of a tunnel, whatever is lost,   *)
(* retried or shared below it.  A call has one outcome, and an answer is   *)
(* the whole of one reply, to a request that stood for it.  A stream is    *)
(* shown in order, with no gap, and its end is told when all of it was     *)
(* shown.  Once the tunnel is cut no call waits and nothing comes; but the *)
(* page is not told that its streams are over, nor that a new one hangs.   *)
(***************************************************************************)
EXTENDS Naturals, Sequences

CONSTANTS Call, Stream,
          Nothing,         \* what a call has that has no answer
          IsReply(_, _)    \* of a call and an answer

VARIABLES connected, call, answer, view,
          sent,            \* how many frames of a stream there are by now
          shown            \* the frames that the page has seen

calls   == <<call, answer>>
streams == <<view, sent, shown>>

Init ==
    /\ connected = TRUE
    /\ call = [c \in Call |-> "no"] /\ answer = [c \in Call |-> Nothing]
    /\ view = [s \in Stream |-> "no"]
    /\ sent = [s \in Stream |-> 0] /\ shown = [s \in Stream |-> <<>>]

---------------------------------------------------------------------------
Waiting == {c \in Call : call[c] = "waiting"}

Outcome(S, what) == call' = [c \in Call |-> IF c \in S THEN what ELSE call[c]]

Ask(c) ==
    /\ call[c] = "no"
    /\ call' = [call EXCEPT ![c] = IF connected THEN "waiting" ELSE "failed"]
    /\ UNCHANGED answer

\* Calls that one request stood for share its reply.
Answers(S) ==
    /\ connected /\ Outcome(S, "answered")
    /\ \E reply \in {answer'[c] : c \in S} :
          /\ \A c \in S : IsReply(c, reply)
          /\ answer' = [c \in Call |-> IF c \in S THEN reply ELSE answer[c]]

Fails(S) == Outcome(S, "failed") /\ UNCHANGED answer

---------------------------------------------------------------------------
Open(s) ==
    /\ view[s] = "no"
    /\ view' = [view EXCEPT ![s] = IF connected THEN "open" ELSE "hung"]
    /\ UNCHANGED <<sent, shown>>

Publish(s) ==
    /\ view[s] \in {"open", "left"}
    /\ sent' = [sent EXCEPT ![s] = @ + 1]
    /\ UNCHANGED <<view, shown>>

Show(s) ==
    /\ connected /\ view[s] = "open" /\ Len(shown[s]) < sent[s]
    /\ shown' = [shown EXCEPT ![s] = Append(@, Len(@) + 1)]
    /\ UNCHANGED <<view, sent>>

Tell(s) ==
    /\ connected /\ view[s] = "open" /\ Len(shown[s]) = sent[s]
    /\ view' = [view EXCEPT ![s] = "told"]
    /\ UNCHANGED <<sent, shown>>

Leave(s) ==
    /\ view[s] \in {"open", "hung", "told"}
    /\ view' = [view EXCEPT ![s] = "left"]
    /\ UNCHANGED <<sent, shown>>

---------------------------------------------------------------------------
Cut == connected /\ connected' = FALSE /\ Fails(Waiting) /\ UNCHANGED streams

CallStep ==
    \/ \E c \in Call : Ask(c)
    \/ \E S \in SUBSET Waiting : Fails(S) \/ Answers(S)

StreamStep == \E s \in Stream : Open(s) \/ Publish(s) \/ Show(s) \/ Tell(s) \/ Leave(s)

Next ==
    \/ CallStep /\ UNCHANGED <<connected, streams>>
    \/ StreamStep /\ UNCHANGED <<connected, calls>>
    \/ Cut

Spec == Init /\ [][Next]_<<connected, calls, streams>>
=============================================================================
