---------------------------- MODULE MCXimFrames ----------------------------
(* Names and values of every length modulo four.                           *)
EXTENDS XimFrames

MCLengths == 0..3
MCJunk    == {0, 3}
=============================================================================
