---------------------------- MODULE MCWindowsShell ----------------------------
(* An instance of the Windows shell for TLC: four sessions, one with a         *)
(* restart and a dsh of another launch on the port, two with an update and a    *)
(* start to which Windows may refuse the job (one beside such a dsh, one beside *)
(* a program that serves no web pages), one with Remote Connect switched twice. *)
(* The sessions are explored side by side, not multiplied.                      *)
EXTENDS WindowsShell

Session(r, u, t, l, f, p) ==
    [restart |-> r, update |-> u, toggle |-> t, line |-> l, refusal |-> f, port |-> p]
Sessions == {Session(1, 0, 0, 0, 0, "web"), Session(0, 1, 0, 0, 1, "other"),
             Session(0, 1, 0, 0, 1, "web"), Session(0, 0, 2, 2, 0, "none")}
=============================================================================
