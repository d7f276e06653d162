----------------------------- MODULE MCWebClient -----------------------------
(* WebClient for TLC: the constants are given in the configurations.       *)
EXTENDS WebClient
=============================================================================
