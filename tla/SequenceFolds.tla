---------------------------- MODULE SequenceFolds ----------------------------
(***************************************************************************)
(* Selecting from a sequence and folding over it, with a set for the test   *)
(* and a function for the step where SelectSeq and FoldLeft take operators, *)
(* so that SequenceInduction can state what holds of them all.             *)
(***************************************************************************)
EXTENDS Naturals, Sequences

(* The elements of s that are in T, in their order.                        *)
Select(s, T) ==
  LET chosen[n \in 0 .. Len(s)] ==
        IF n = 0 THEN <<>>
        ELSE IF s[n] \in T THEN Append(chosen[n - 1], s[n])
        ELSE chosen[n - 1]
  IN  chosen[Len(s)]

(* step applied to base and the elements of s, one after the other.        *)
FoldOver(step, base, s) ==
  LET value[n \in 0 .. Len(s)] ==
        IF n = 0 THEN base ELSE step[<<value[n - 1], s[n]>>]
  IN  value[Len(s)]

=============================================================================
