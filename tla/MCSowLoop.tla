------------------------------ MODULE MCSowLoop ------------------------------
(* SowLoop for TLC: the constants are given in the configuration.          *)
EXTENDS SowLoop
=============================================================================
