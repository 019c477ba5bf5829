----------------------------- MODULE Credentials -----------------------------
(***************************************************************************)
(* What the relay promises about session tokens, without PINs, clocks or   *)
(* hosts: a token belongs to at most one device, a device has at most one  *)
(* token, a token changes hands only by rotation, and once it is gone it   *)
(* comes back only as a new token.                                         *)
(***************************************************************************)
CONSTANTS Device, Token, None

VARIABLE holder   \* holder[t]: the device that t authenticates, or None

TokenLess(d) == \A t \in Token : holder[t] # d
Unused(t) == holder[t] = None

Init == holder = [t \in Token |-> None]

Issue(d, t) ==
    /\ TokenLess(d)
    /\ Unused(t)
    /\ holder' = [holder EXCEPT ![t] = d]

Rotate(old, new) ==
    /\ ~Unused(old)
    /\ Unused(new)
    /\ holder' = [holder EXCEPT ![old] = None, ![new] = holder[old]]

Withdraw(T) == holder' = [t \in Token |-> IF t \in T THEN None ELSE holder[t]]

Next ==
    \/ \E d \in Device, t \in Token : Issue(d, t)
    \/ \E old, new \in Token : Rotate(old, new)
    \/ \E T \in SUBSET Token : Withdraw(T)

Spec == Init /\ [][Next]_holder
=============================================================================
