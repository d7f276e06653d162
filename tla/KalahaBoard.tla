----------------------------- MODULE KalahaBoard -----------------------------
(***************************************************************************)
(* One game on one board: net.kalaha.game.logic.KalahaBoard, from the      *)
(* first position to the end of the game.  MoveStones is the whole of      *)
(* moveStones: the sowing, the stealing, the next player and the end of    *)
(* the game with its sweep.  A call the code answers with                  *)
(* IllegalMoveException (the game is ended, not the player's turn, an      *)
(* empty pit) changes nothing.                                             *)
(***************************************************************************)
EXTENDS KalahaRules

CONSTANT InitStones    \* the stones in each pit at the start: 6 in the code

ASSUME StonesAssumption == InitStones \in Nat \ {0}

VARIABLES houses, playerToAct, gameEnded

vars == <<houses, playerToAct, gameEnded>>

-----------------------------------------------------------------------------
Init ==
  /\ houses = InitHouses(InitStones)
  /\ playerToAct \in Players
  /\ gameEnded = FALSE

MoveStones(pit, player) ==
  /\ ~ gameEnded
  /\ playerToAct = player
  /\ houses[Pit(player, pit)] # 0
  /\ houses' = AfterMove(houses, player, pit)
  /\ playerToAct' = NextPlayer(houses, player, pit)
  /\ gameEnded' = EndsGame(houses, player, pit)

Next == \E pit \in LocalPits, player \in Players : MoveStones(pit, player)

Spec == Init /\ [][Next]_vars

(* The players go on playing.                                              *)
FairSpec == Spec /\ WF_vars(Next)
-----------------------------------------------------------------------------
(* Properties. *)

TypeOK ==
  /\ houses \in [Houses -> Nat]
  /\ playerToAct \in Players
  /\ gameEnded \in BOOLEAN

(* No stone is lost or made by sowing, stealing, lapping the board or the  *)
(* final sweep: the board holds the stones it began with.                  *)
Conservation == StonesOnBoard(houses) = 2 * NUMBER_OF_PITS * InitStones

(* A game that is not ended never waits for a player who has nothing to    *)
(* move: checkGameEnd, called with the player who acted, also covers the   *)
(* player whose turn comes, whatever the last stone did.                   *)
NotStuck == ~ gameEnded => CanPlayerMove(houses, playerToAct)

(* When the game ends by DefaultRules every stone is in a kalaha, so that  *)
(* isDraw and getWinningPlayerId, which only look at the kalahas, count    *)
(* all of them.                                                            *)
EndCountsAllStones ==
  gameEnded /\ EndGameSweepsBoard =>
    houses[Kalaha(SOUTH)] + houses[Kalaha(NORTH)]
      = 2 * NUMBER_OF_PITS * InitStones

(* A move never takes a stone out of a kalaha and only feeds the other     *)
(* player's kalaha by the sweep that ends the game: laps skip it.          *)
Gain ==
  \A player \in Players :
    /\ houses'[Kalaha(player)] >= houses[Kalaha(player)]
    /\ houses'[Kalaha(player)] > houses[Kalaha(player)] =>
         playerToAct = player \/ gameEnded'

KalahasOnlyGain == [][Gain]_vars

(* The player who has more than half of the stones cannot be overtaken:    *)
(* whatever is still played, stolen or swept, the player stays ahead and   *)
(* getWinningPlayerId names this player at the end.                        *)
Majority(player, board) ==
  board[Kalaha(player)] > NUMBER_OF_PITS * InitStones

MajorityWins ==
  [][\A player \in Players : Majority(player, houses) =>
       Majority(player, houses') /\ WinningPlayer(houses') = player]_vars

(* Every move brings a stone to a kalaha or moves stones on along the      *)
(* pits of a player, and back none: why no series of moves goes round for  *)
(* ever, extra turns and stealing included.                                *)
InKalahas(board) == board[Kalaha(SOUTH)] + board[Kalaha(NORTH)]

Place(h) == IF h <= NUMBER_OF_PITS THEN h ELSE h - NUMBER_OF_PITS - 1
Advance(board) == StonesOnBoard([h \in Houses |-> Place(h) * board[h]])

MovesGoForward ==
  [][\/ InKalahas(houses') > InKalahas(houses)
     \/ /\ InKalahas(houses') = InKalahas(houses)
        /\ Advance(houses') > Advance(houses)]_vars

(* The game comes to its end when the players keep playing: no series of   *)
(* moves goes round for ever, extra turns and stealing included.           *)
Termination == <>gameEnded
=============================================================================
