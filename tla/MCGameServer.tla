---------------------------- MODULE MCGameServer ----------------------------
(***************************************************************************)
(* GameServer for TLC.  Games are model values and interchangeable; a      *)
(* board of few pits and stones is enough here, the rules are checked with *)
(* KalahaBoard.                                                            *)
(***************************************************************************)
EXTENDS GameServer, TLC

GamesSymmetry == Permutations(Games)
=============================================================================
