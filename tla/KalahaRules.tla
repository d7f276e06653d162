----------------------------- MODULE KalahaRules -----------------------------
(***************************************************************************)
(* The rules of the game as pure operators on a row of houses: what        *)
(* net.kalaha.game.logic.KalahaBoard, KalahaPlayer and SpecialRules        *)
(* compute.  A board is a function houses \in [Houses -> Nat]; the modules *)
(* that keep a board in their state (KalahaBoard, SowLoop, the table and   *)
(* its stored game) share these operators.                                 *)
(*                                                                         *)
(* The houses of the code are state.getHouses()[0..13]: South's pits 0..5, *)
(* South's kalaha 6, North's pits 7..12, North's kalaha 13.                *)
(* NUMBER_OF_PITS is 6 in the code; it is a parameter here.                *)
(***************************************************************************)
EXTENDS Integers, FiniteSets

CONSTANTS
  NUMBER_OF_PITS,                          \* pits of one player
  AllowStealingFromEmptyPit,               \* SpecialRules, one flag for
  EndGameWhenEitherPlayerRunsOutOfStones,  \*   each of its
  EndGameSweepsBoard                       \*   three methods

ASSUME PitsAssumption == NUMBER_OF_PITS \in Nat \ {0}

ASSUME RulesAssumption ==
  /\ AllowStealingFromEmptyPit \in BOOLEAN
  /\ EndGameWhenEitherPlayerRunsOutOfStones \in BOOLEAN
  /\ EndGameSweepsBoard \in BOOLEAN

-----------------------------------------------------------------------------
(* The layout of the board. *)

SOUTH == "SOUTH"
NORTH == "NORTH"
Players == {SOUTH, NORTH}
Opponent(player) == IF player = SOUTH THEN NORTH ELSE SOUTH

LocalPits == 0 .. NUMBER_OF_PITS - 1
NumberOfHouses == 2 * NUMBER_OF_PITS + 2
Houses == 0 .. NumberOfHouses - 1

FirstPit(player) == IF player = SOUTH THEN 0 ELSE NUMBER_OF_PITS + 1
Kalaha(player) == FirstPit(player) + NUMBER_OF_PITS
Pit(player, local) == FirstPit(player) + local
MyPits(player) == FirstPit(player) .. Kalaha(player) - 1

(* Mutant of Opposite: the - 1 is forgotten.                               *)
OppositeOffByOne(player, house) ==
  Pit(Opponent(player), NUMBER_OF_PITS - (house - FirstPit(player)))

(* The pit across the board: getOpponentPit in the opponent's numbering.   *)
Opposite(player, house) ==
  Pit(Opponent(player), NUMBER_OF_PITS - (house - FirstPit(player)) - 1)

-----------------------------------------------------------------------------
(* Counting stones. *)

(* The stones in the houses before each house, in the order of the board.  *)
StonesBefore(houses) ==
  LET before[h \in 0 .. NumberOfHouses] ==
        IF h = 0 THEN 0 ELSE before[h - 1] + houses[h - 1]
  IN  before

StonesInPits(houses, player) ==
  StonesBefore(houses)[Kalaha(player)] - StonesBefore(houses)[FirstPit(player)]

StonesOnBoard(houses) == StonesBefore(houses)[NumberOfHouses]

CanPlayerMove(houses, player) == \E h \in MyPits(player) : houses[h] # 0

InitHouses(stones) ==
  [h \in Houses |-> IF h \in {Kalaha(p) : p \in Players} THEN 0 ELSE stones]

-----------------------------------------------------------------------------
(* Sowing.  The loop of moveStones runs over all houses but the opponent's *)
(* kalaha, a round of Lap houses, one stone in each; SowLoop has the loop  *)
(* itself, with its counters i and skippedKalahas, and implements this.    *)

Lap == 2 * NUMBER_OF_PITS + 1

(* The house the k-th stone from the pit comes to.                         *)
SowHouse(player, pit, k) ==
  (FirstPit(player) + ((pit + k) % Lap)) % NumberOfHouses

(* The houses after the pit is emptied and k of its stones are sown.       *)
Sown(houses, player, pit, k) ==
  [h \in Houses |->
     (IF h = Pit(player, pit) THEN 0 ELSE houses[h])
       + Cardinality({j \in 1 .. k : SowHouse(player, pit, j) = h})]

(* The last stone steals: it comes to an empty pit of the player and the   *)
(* pit across the board has stones.                                        *)
Steals(houses, player, last) ==
  /\ AllowStealingFromEmptyPit
  /\ last \in MyPits(player)
  /\ houses[last] = 0
  /\ houses[Opposite(player, last)] > 0

(* Mutant of DropLast: the stolen stones stay where they were as well.     *)
DropLastKeepingStolen(houses, player, last) ==
  IF Steals(houses, player, last)
  THEN [houses EXCEPT
          ![Kalaha(player)] = @ + 1 + houses[Opposite(player, last)]]
  ELSE [houses EXCEPT ![last] = @ + 1]

(* The last stone: with the stolen ones to the kalaha, or to its house.    *)
DropLast(houses, player, last) ==
  IF Steals(houses, player, last)
  THEN [houses EXCEPT
          ![Kalaha(player)] = @ + 1 + houses[Opposite(player, last)],
          ![Opposite(player, last)] = 0]
  ELSE [houses EXCEPT ![last] = @ + 1]

(* The houses after the sowing, before checkGameEnd.                       *)
AfterSowing(houses, player, pit) ==
  LET n == houses[Pit(player, pit)]
  IN  DropLast(Sown(houses, player, pit, n - 1), player,
               SowHouse(player, pit, n))

(* Mutant of NextPlayer: the turn only passes to a player who can move.    *)
NextPlayerWhoCanMove(houses, player, pit) ==
  IF SowHouse(player, pit, houses[Pit(player, pit)]) = Kalaha(player)
  THEN player
  ELSE IF CanPlayerMove(AfterSowing(houses, player, pit), Opponent(player))
  THEN Opponent(player)
  ELSE "nobody"

(* updatePlayerToAct: a last stone in the own kalaha gives another turn.   *)
NextPlayer(houses, player, pit) ==
  IF SowHouse(player, pit, houses[Pit(player, pit)]) = Kalaha(player)
  THEN player
  ELSE Opponent(player)

-----------------------------------------------------------------------------
(* The end of the game. *)

(* Mutant of IsEnd: only the player who acted is looked at.                *)
IsEndForActor(houses, player, toAct) ==
  /\ ~ CanPlayerMove(houses, player)
  /\ toAct = player \/ EndGameWhenEitherPlayerRunsOutOfStones

(* checkGameEnd(player), called after the player's move: is this the end,  *)
(* and who keeps the stones that are left.                                 *)
IsEnd(houses, player, toAct) ==
  \/ /\ ~ CanPlayerMove(houses, player)
     /\ toAct = player \/ EndGameWhenEitherPlayerRunsOutOfStones
  \/ /\ CanPlayerMove(houses, player)
     /\ ~ CanPlayerMove(houses, Opponent(player))

(* Mutant of LastOwner: always the opponent of the player who acted.       *)
LastOwnerOpponent(houses, player) == Opponent(player)

LastOwner(houses, player) ==
  IF CanPlayerMove(houses, player) THEN player ELSE Opponent(player)

(* endTransfer: the player's remaining stones go to the player's kalaha.   *)
EndTransfer(houses, player) ==
  IF EndGameSweepsBoard
  THEN [h \in Houses |->
          IF h \in MyPits(player) THEN 0
          ELSE houses[h]
                 + IF h = Kalaha(player) THEN StonesInPits(houses, player)
                   ELSE 0]
  ELSE houses

(* moveStones as a whole: does the move end the game, and the houses then. *)
EndsGame(houses, player, pit) ==
  IsEnd(AfterSowing(houses, player, pit), player,
        NextPlayer(houses, player, pit))

AfterMove(houses, player, pit) ==
  LET sown == AfterSowing(houses, player, pit)
  IN  IF EndsGame(houses, player, pit)
      THEN EndTransfer(sown, LastOwner(sown, player))
      ELSE sown

IsDraw(houses) == houses[Kalaha(SOUTH)] = houses[Kalaha(NORTH)]

(* getWinningPlayerId; NoPlayer is its -1.                                 *)
NoPlayer == "none"
WinningPlayer(houses) ==
  IF houses[Kalaha(SOUTH)] > houses[Kalaha(NORTH)] THEN SOUTH
  ELSE IF houses[Kalaha(SOUTH)] < houses[Kalaha(NORTH)] THEN NORTH
  ELSE NoPlayer
=============================================================================
