---------------------------- MODULE MCIcAttributes ----------------------------
(* Small instances of IcAttributes for TLC: constants are given values in   *)
(* the configuration, except the lengths of font names.  Liveness is        *)
(* checked, hence no symmetry.                                             *)
EXTENDS IcAttributes

CONSTANTS v1, v2

(* The two bytes too many of the first name fit into the padding, those of  *)
(* the second do not.                                                      *)
MCNameLength == v1 :> 4 @@ v2 :> 5
=============================================================================
