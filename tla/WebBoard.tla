------------------------------- MODULE WebBoard -------------------------------
(***************************************************************************)
(* The board of the web client as pure operators: pit.js, pits.js and      *)
(* moveFinished of game.js.  The client sows and steals by a program of    *)
(* its own, not by the rules of the server (KalahaRules).                  *)
(*                                                                         *)
(* Its pits have the ids 1..14: side 1, the opponent's, has the home pit 1 *)
(* and the pits 2..7, side 2, the user's own, the pits 8..13 and the home  *)
(* pit 14.  Stones go 7, 6, .. 1 and on to 8, and 8, 9, .. 14 and on to 7. *)
(***************************************************************************)
EXTENDS KalahaRules

Ids == 1 .. NumberOfHouses
Sides == {1, 2}

OwnFirst == NUMBER_OF_PITS + 2     \* the literal 8 of the code

HomePit(side) == IF side = 1 THEN 1 ELSE NumberOfHouses
BoardSide(id) == IF id < OwnFirst THEN 1 ELSE 2
SidePits(side) ==
  IF side = 1 THEN 2 .. OwnFirst - 1 ELSE OwnFirst .. NumberOfHouses - 1

(* remoteSow(7 - sow.house) and sendMove(pit - 8): the pit of the opponent *)
(* for a local pit, and the local pit for one of the own.                  *)
RemotePit(local) == OwnFirst - 1 - local
LocalOf(id) == id - OwnFirst

(* setGameState: the player's pits of the board with the given houses.     *)
(* The two branches of the code are this for NORTH and for SOUTH.          *)
GameState(player, houses) ==
  [id \in Ids |->
     houses[IF id \in {HomePit(s) : s \in Sides}
            THEN Kalaha(IF id = HomePit(2) THEN player ELSE Opponent(player))
            ELSE IF id \in SidePits(2) THEN Pit(player, LocalOf(id))
            ELSE Pit(Opponent(player), OwnFirst - 1 - id)]]

-----------------------------------------------------------------------------
(* Sowing: _visitNextPits. *)

NextPitId(id) ==
  IF id = 1 THEN OwnFirst
  ELSE IF id < OwnFirst THEN id - 1
  ELSE IF id < NumberOfHouses THEN id + 1
  ELSE OwnFirst - 1

(* Mutant of NonActiveHomePitId: the home pit of side 1 is never sown to.  *)
NeverHomePitOne(acting) == 1

NonActiveHomePitId(acting) == HomePit(IF acting = 1 THEN 2 ELSE 1)

(* The pits at the distances of one lap from a pit, without the other      *)
(* side's home pit.                                                        *)
PitsFrom(acting, id) ==
  LET skipId == NonActiveHomePitId(acting)
      next == [i \in Ids |-> IF NextPitId(i) = skipId THEN NextPitId(skipId)
                             ELSE NextPitId(i)]
      pitAt[d \in 0 .. Lap - 1] == IF d = 0 THEN id ELSE next[pitAt[d - 1]]
  IN  pitAt

(* The same for each side and pit, as a value.                             *)
PitIdForDistance == [acting \in Sides |-> [id \in Ids |-> PitsFrom(acting, id)]]

(* How many stones are laid from a pit with n: a stone laid in the pit     *)
(* itself, once a lap, adds to the bound of the loop that is running.      *)
StonesLaid(n) ==
  CHOOSE m \in n .. 2 * n :
    /\ n + (m \div Lap) <= m
    /\ \A k \in n .. m - 1 : k < n + (k \div Lap)

(* The pits after the sowing, and the pit of the last stone.               *)
SownPits(pits, acting, id) ==
  LET laid == StonesLaid(pits[id])
      pitAt(d) == PitIdForDistance[acting][id][d % Lap]
  IN  [pits |-> [i \in Ids |->
                   IF i = id THEN 0
                   ELSE pits[i] + Cardinality({d \in 1 .. laid : pitAt(d) = i})],
       last |-> pitAt(laid)]

-----------------------------------------------------------------------------
(* moveFinished: the steal, and whose turn it is. *)

HasSideStones(pits, side) == \E id \in SidePits(side) : pits[id] > 0

OppositePitId(id) ==
  IF id < OwnFirst THEN NUMBER_OF_PITS + id ELSE id - NUMBER_OF_PITS

(* checkPerformSteal.  The home pit is on its side too and not excluded.   *)
PerformSteal(pits, acting, last) ==
  LET opposite == OppositePitId(last)
  IN  IF BoardSide(last) = acting /\ pits[last] = 1 /\ pits[opposite] > 0
      THEN [pits EXCEPT ![HomePit(acting)] = @ + 1 + pits[opposite],
                        ![opposite] = 0, ![last] = 0]
      ELSE pits

(* Mutant of NextSide: the turn always changes.                            *)
NextSideAlways(pits, acting, last) == 3 - acting

(* The side stays after a last stone at home and when it has no stones     *)
(* left, which is looked at before the steal.                              *)
NextSide(pits, acting, last) ==
  IF HasSideStones(pits, acting) /\ last # HomePit(acting) THEN 3 - acting
  ELSE acting
=============================================================================
