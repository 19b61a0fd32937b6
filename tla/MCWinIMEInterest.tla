-------------------------- MODULE MCWinIMEInterest --------------------------
(* Small instances of WinIMEInterest for TLC.                              *)
EXTENDS WinIMEInterest, TLC

(* Clients and addresses are interchangeable among themselves.             *)
Symmetry == Permutations(Clients) \cup Permutations(Addresses)
=============================================================================
