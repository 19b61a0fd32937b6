---------------------------- MODULE MCXimTransport ----------------------------
(* Small instances of XimTransport for TLC: all constants are given values  *)
(* in the configuration; connections are numbers, 0 being none.            *)
EXTENDS XimTransport
=============================================================================
