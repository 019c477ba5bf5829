----------------------------- MODULE RateLimiter -----------------------------
(***************************************************************************)
(* The per-IP limiter in front of POST /pair and of host registration      *)
(* (rateLimiter in mobile/relay/main.go).  One mutex guards each method,   *)
(* so each is one step.  `granted` is a history variable: how many         *)
(* requests of an IP were let through by each instant; at those to come,   *)
(* as many as now.                                                           *)
(***************************************************************************)
EXTENDS Integers

CONSTANTS IP, Limit, Window,
          LastTick,      \* bound of the clock
          Unseen

ASSUME LimiterAssumption ==
    /\ Limit \in Nat \ {0}
    /\ Window \in Nat \ {0}
    /\ LastTick \in Nat
    /\ Unseen \notin [start : Nat, count : Nat]

VARIABLES clock, seen, granted
limiterVars == <<clock, seen, granted>>

Time == 0..LastTick

LimiterInit ==
    /\ clock = 0
    /\ seen = [ip \in IP |-> Unseen]
    /\ granted = [ip \in IP |-> [t \in Time |-> 0]]

TimePasses ==
    /\ clock < LastTick
    /\ clock' = clock + 1
    /\ UNCHANGED <<seen, granted>>

Grant(ip) ==
    granted' = [granted EXCEPT ![ip] = [t \in Time |-> IF t < clock THEN @[t] ELSE @[t] + 1]]

WindowOver(ip) == seen[ip] # Unseen => clock - seen[ip].start >= Window

\* allow: the first request of a window opens it; later ones count.
Open(ip) ==
    /\ WindowOver(ip)
    /\ seen' = [seen EXCEPT ![ip] = [start |-> clock, count |-> 1]]
    /\ Grant(ip)
    /\ UNCHANGED clock

\* The counter saturates one above the limit: larger values are all refused.
Count(ip) ==
    /\ ~WindowOver(ip)
    /\ seen' = [seen EXCEPT ![ip].count = IF @ > Limit THEN @ ELSE @ + 1]
    /\ IF seen[ip].count + 1 <= Limit THEN Grant(ip) ELSE UNCHANGED granted
    /\ UNCHANGED clock

\* Faulty form of Old: the sweep takes windows that are still open.
OldAny(ip) == seen[ip] # Unseen /\ seen[ip].start < clock
Old(ip) == seen[ip] # Unseen /\ seen[ip].start + Window < clock

\* sweep, on the timer of the garbage collection.
Sweep ==
    /\ seen' = [ip \in IP |-> IF Old(ip) THEN Unseen ELSE seen[ip]]
    /\ UNCHANGED <<clock, granted>>

LimiterNext == TimePasses \/ Sweep \/ \E ip \in IP : Open(ip) \/ Count(ip)

LimiterSpec == LimiterInit /\ [][LimiterNext]_limiterVars

-----------------------------------------------------------------------------
GrantedBy(ip, t) == IF t < 0 THEN 0 ELSE granted[ip][t]

\* Requests of ip let through in the Window instants that end at t.
GrantedWithin(ip, t) == GrantedBy(ip, t) - GrantedBy(ip, t - Window)

\* A fixed window lets through up to the limit just before it ends and again
\* just after: never more than twice the limit less one in any interval of
\* that length, whatever the sweep drops in between.
AtMostTwice == \A ip \in IP, t \in Time : GrantedWithin(ip, t) <= 2 * Limit - 1
=============================================================================
