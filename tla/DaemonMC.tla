------------------------------ MODULE DaemonMC ------------------------------
(***************************************************************************)
(* An instance of Daemon for TLC: the launchers are interchangeable.       *)
(***************************************************************************)
EXTENDS Daemon, TLC

Symmetry == Permutations(Launchers)
=============================================================================
