---------------------------- MODULE MCXimServer ----------------------------
(* Small instances of XimServer for TLC.                                   *)
EXTENDS XimServer, TLC

(* Connections are interchangeable (used only with safety properties).     *)
Symmetry == Permutations(Clients)
=============================================================================
