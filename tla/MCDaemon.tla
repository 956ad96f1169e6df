------------------------------ MODULE MCDaemon ------------------------------
(* Three processes on one file, one peer to know. *)
EXTENDS Daemon, TLC

Alike == Permutations(Procs)
=============================================================================
