----------------------------- MODULE MCRelayHub -----------------------------
(* Instances of the hub for TLC: which host each device is paired with. *)
EXTENDS RelayHub, TLC

CONSTANTS h1, h2, h3, d1, c1, k1, k2

NoDevice == [d \in {} |-> h1]
OneHost  == [d \in {d1} |-> h1]

\* One channel name for each host.  That of h2 is such that the two share a key.
OwnKeys == [h \in {h1} |-> [ch \in {c1} |-> k1]]
SlashedKeys == [h \in {h1, h2, h3} |-> [ch \in {c1} |-> IF h = h3 THEN k2 ELSE k1]]
Slots == Permutations(DeviceConn)   \* device tunnel slots are interchangeable
=============================================================================
