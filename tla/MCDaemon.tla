------------------------------ MODULE MCDaemon ------------------------------
(* A finite instance of Daemon.  Processes, calls, applications and file     *)
(* contents are interchangeable.                                             *)
EXTENDS Daemon, TLC

Symmetry == Permutations(Daemons) \cup Permutations(Requests)
            \cup Permutations(Versions) \cup Permutations(Apps)
=============================================================================
