---------------------------- MODULE MCImeBridge ----------------------------
(* Small instances of ImeBridge for TLC.                                   *)
EXTENDS ImeBridge, TLC

(* Windows are interchangeable (used only with safety properties).         *)
Symmetry == Permutations(Windows)
=============================================================================
