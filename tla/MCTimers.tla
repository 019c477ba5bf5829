------------------------------ MODULE MCTimers ------------------------------
(* Instances for TLC of the three components that count time.  They share no  *)
(* state, so a behaviour runs one of them and leaves the others at their      *)
(* start.  A tick of the link is 7.5 s.                                       *)
EXTENDS RelayStore, BridgeLink, RateLimiter, TLC

VARIABLE part  \* the component this behaviour runs

Symmetry == UNION {Permutations(S) : S \in {Device, Token, HostToken}}

TimersInit ==
    /\ StoreInit /\ Init /\ LimiterInit
    /\ part \in {"store", "link", "limiter"}

TimersNext ==
    \/ part = "store" /\ StoreNext /\ UNCHANGED <<part, vars, limiterVars>>
    \/ part = "link" /\ Next /\ UNCHANGED <<part, storeVars, limiterVars>>
    \/ part = "limiter" /\ LimiterNext /\ UNCHANGED <<part, storeVars, vars>>

TimersSpec == TimersInit /\ [][TimersNext]_<<part, storeVars, vars, limiterVars>>
=============================================================================
