------------------------------ MODULE MCDaemon ------------------------------
(* Daemon for TLC: connections are interchangeable model values. *)
EXTENDS Daemon, TLC

ConnectionSymmetry == Permutations(Connections)
=============================================================================
