----------------------------- MODULE MCStreams -----------------------------
(* An instance of the streams for TLC: a GET and a HEAD for one URL. *)
EXTENDS Streams

CONSTANTS g1, h1, q1, c1, w1, f1, p1

OneURL == [g \in Safe |-> p1]
=============================================================================
