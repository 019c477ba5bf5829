----------------------------- MODULE MCLinuxShell -----------------------------
(* An instance of the Linux shell for TLC.                                     *)
EXTENDS LinuxShell

\* The remote connection is explored beside one server, its first poll timer and
\* a port that no other program uses, and not beside all that the server's own
\* part goes through: Mixed steps are left out.
Mixed == attempt' > 0 /\ (spawned' > 1 \/ polls' > 1 \/ orphans' > 0 \/ foreign' # "none")
Apart == ~Mixed
=============================================================================
