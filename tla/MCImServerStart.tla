--------------------------- MODULE MCImServerStart ---------------------------
(* Small instances of ImServerStart for TLC.                               *)
EXTENDS ImServerStart, TLC

(* Threads and clients are interchangeable (used only for safety).         *)
Symmetry == Permutations(Threads) \cup Permutations(Clients)
=============================================================================
