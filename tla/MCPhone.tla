------------------------------ MODULE MCPhone ------------------------------
(* An instance of the phone for TLC: the clients are numbers. *)
EXTENDS Phone
=============================================================================
