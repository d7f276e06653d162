---------------------------- MODULE MCKalahaBoard ----------------------------
(* KalahaBoard for TLC: the constants are given in the configurations.     *)
EXTENDS KalahaBoard
=============================================================================
