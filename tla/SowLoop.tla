------------------------------- MODULE SowLoop -------------------------------
(***************************************************************************)
(* KalahaBoard.moveStones as it is written: a loop that moves one stone a  *)
(* time round the array of houses, with the counters i and skippedKalahas. *)
(* The module adds the array and the call to KalahaBoard, whose MoveStones *)
(* sows in one step by a formula for where the k-th stone falls: the       *)
(* specification this loop implements. The field houses of the code is     *)
(* array here, and houses is what it held when the call began.             *)
(***************************************************************************)
EXTENDS KalahaBoard

VARIABLES
  array,      \* the field houses: what the loop works on
  call        \* the call being executed: its arguments and the locals of the
              \*   method, or Idle

loopVars == <<vars, array, call>>
fields == <<playerToAct, gameEnded>>

Idle == [pc |-> "idle"]

-----------------------------------------------------------------------------
LoopInit ==
  /\ Init
  /\ array = houses
  /\ call = Idle

(* The guards of moveStones.                                               *)
Legal(pit, player) ==
  /\ ~ gameEnded
  /\ playerToAct = player
  /\ array[Pit(player, pit)] # 0

(* moveStones is entered: the pit is emptied and the loop set up.          *)
Enter(pit, player) ==
  /\ call = Idle
  /\ Legal(pit, player)
  /\ array' = [array EXCEPT ![Pit(player, pit)] = 0]
  /\ call' = [pc |-> "loop", player |-> player, pit |-> pit,
              stonesToMove |-> array[Pit(player, pit)],
              i |-> pit + 1, skippedKalahas |-> 0, endedInKalaha |-> FALSE]
  /\ houses' = array
  /\ UNCHANGED fields

Offset(player) == IF player = NORTH THEN NUMBER_OF_PITS + 1 ELSE 0

PitAt(i, skipped, player) == (i + skipped + Offset(player)) % NumberOfHouses

SkipsKalaha(c) ==
  PitAt(c.i, c.skippedKalahas, c.player) = Kalaha(Opponent(c.player))

(* Mutant of Skipped: what was skipped on earlier turns is forgotten.      *)
SkippedNow(c) == IF SkipsKalaha(c) THEN 1 ELSE 0

(* skippedKalahas with this turn's skip of the opponent's kalaha.          *)
Skipped(c) == c.skippedKalahas + IF SkipsKalaha(c) THEN 1 ELSE 0

(* One turn of the loop; the last stone may steal or end in the kalaha.    *)
SowStone ==
  /\ call.pc = "loop"
  /\ call.i < call.pit + call.stonesToMove + 1
  /\ LET player == call.player
         currentPit == PitAt(call.i, Skipped(call), player)
         lastStone == call.i = call.pit + call.stonesToMove
     IN  /\ array' = IF lastStone
                      THEN DropLast(array, player, currentPit)
                      ELSE [array EXCEPT ![currentPit] = @ + 1]
         /\ call' = [call EXCEPT
                       !.i = @ + 1,
                       !.skippedKalahas = Skipped(call),
                       !.endedInKalaha =
                          @ \/ (lastStone /\ currentPit = Kalaha(player))]
  /\ UNCHANGED <<fields, houses>>

(* updatePlayerToAct. *)
ToActNext(c) == IF c.endedInKalaha THEN c.player ELSE Opponent(c.player)

(* After the loop: updatePlayerToAct, then checkGameEnd.                   *)
Leave ==
  /\ call.pc = "loop"
  /\ call.i = call.pit + call.stonesToMove + 1
  /\ LET player == call.player
         next == ToActNext(call)
     IN  /\ playerToAct' = next
         /\ gameEnded' = IsEnd(array, player, next)
         /\ array' = IF IsEnd(array, player, next)
                      THEN EndTransfer(array, LastOwner(array, player))
                      ELSE array
         /\ call' = Idle
         /\ houses' = array'

LoopNext ==
  \/ \E pit \in LocalPits, player \in Players : Enter(pit, player)
  \/ SowStone
  \/ Leave

LoopSpec == LoopInit /\ [][LoopNext]_loopVars

(* A call that is entered runs to its end, and the players keep playing.   *)
LoopFairSpec == LoopSpec /\ WF_loopVars(LoopNext)

-----------------------------------------------------------------------------
(* Properties. *)

InCall ==
  [pc : {"loop"}, player : Players, pit : LocalPits, stonesToMove : Nat \ {0},
   i : Nat, skippedKalahas : Nat, endedInKalaha : BOOLEAN]

LoopTypeOK ==
  /\ TypeOK
  /\ array \in [Houses -> Nat]
  /\ call \in {Idle} \union InCall

StonesInHand ==
  IF call = Idle THEN 0 ELSE call.stonesToMove + call.pit + 1 - call.i

(* The loop's counters keep up with the laps: before the last stone the    *)
(* board is what the formula says for the stones sown so far.              *)
SowsByTheFormula ==
  call # Idle /\ StonesInHand > 0 =>
    array = Sown(houses, call.player, call.pit, call.i - call.pit - 1)

(* The loop implements the one-step moveStones: the board of KalahaBoard   *)
(* is the array outside of a call and, inside one, what the array held     *)
(* when it began. The fairness of LoopFairSpec gives the one asked there.  *)
ImplementsMoveStones == FairSpec
=============================================================================
