------------------------------ MODULE MCDaemon ------------------------------
(* Instances of Daemon for TLC.                                            *)
EXTENDS Daemon, TLC

(* Connections and processes are interchangeable.                          *)
Symmetry == Permutations(Conns) \cup Permutations(Pids)
=============================================================================
