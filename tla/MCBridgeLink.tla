---------------------------- MODULE MCBridgeLink ----------------------------
(* An instance of the link for TLC: a tick is seven and a half seconds. *)
EXTENDS BridgeLink
=============================================================================
