-------------------------- MODULE KalahaBoardProofs --------------------------
(***************************************************************************)
(* The theorems about a game on one board, for every number of pits, every *)
(* number of stones and the rules named in each theorem; then those about  *)
(* the loop of moveStones, which sows as the formula of KalahaRules says   *)
(* and makes the move of KalahaBoard, for sowings of any number of laps.   *)
(***************************************************************************)
EXTENDS SowLoop, KalahaRulesProofs

(* The houses keep natural numbers of stones, one player is to act.        *)
THEOREM TypeCorrect == Spec => []TypeOK
<1>1. Init => TypeOK
  BY StonesAssumption, InitHousesStones DEF Init, TypeOK
<1>2. TypeOK /\ [Next]_vars => TypeOK'
  <2> SUFFICES ASSUME TypeOK, [Next]_vars
               PROVE  TypeOK'
    OBVIOUS
  <2>1. CASE UNCHANGED vars
    BY <2>1 DEF TypeOK, vars
  <2>2. ASSUME NEW pit \in LocalPits, NEW player \in Players,
               MoveStones(pit, player)
        PROVE  TypeOK'
    <3>1. houses \in [Houses -> Nat] /\ houses[Pit(player, pit)] # 0
      BY <2>2 DEF TypeOK, MoveStones
    <3> QED BY <2>2, <3>1, AfterMoveType DEF MoveStones, TypeOK
  <2> QED BY <2>1, <2>2 DEF Next
<1> QED BY <1>1, <1>2, PTL DEF Spec

(* No stone is lost or made in a game.                                     *)
THEOREM StonesConserved == Spec => []Conservation
<1>1. Init => Conservation
  BY StonesAssumption, InitHousesStones DEF Init, Conservation
<1>2. TypeOK /\ Conservation /\ [Next]_vars => Conservation'
  <2> SUFFICES ASSUME TypeOK, Conservation, [Next]_vars
               PROVE  Conservation'
    OBVIOUS
  <2>1. CASE UNCHANGED vars
    BY <2>1 DEF Conservation, vars
  <2>2. ASSUME NEW pit \in LocalPits, NEW player \in Players,
               MoveStones(pit, player)
        PROVE  Conservation'
    <3> DEFINE sown == AfterSowing(houses, player, pit)
               keeper == LastOwner(sown, player)
    <3>1. houses \in [Houses -> Nat] /\ houses[Pit(player, pit)] # 0
      BY <2>2 DEF TypeOK, MoveStones
    <3>2. /\ sown \in [Houses -> Nat]
          /\ StonesOnBoard(sown) = StonesOnBoard(houses)
      BY <3>1, AfterSowingConserves
    <3>3. keeper \in Players
      BY Layout DEF LastOwner
    <3>4. houses' = EndTransfer(sown, keeper) \/ houses' = sown
      BY <2>2 DEF MoveStones, AfterMove, EndsGame
    <3> HIDE DEF sown, keeper
    <3>5. StonesOnBoard(EndTransfer(sown, keeper)) = StonesOnBoard(sown)
      BY <3>2, <3>3, EndTransferConserves
    <3>6. StonesOnBoard(houses') = StonesOnBoard(houses)
      BY <3>2, <3>4, <3>5
    <3> QED BY <3>6 DEF Conservation
  <2> QED BY <2>1, <2>2 DEF Next
<1> QED BY <1>1, <1>2, TypeCorrect, PTL DEF Spec

(* A game that goes on has a move for the player whose turn it is, by any  *)
(* rules but those that let the last stones be stolen and the game go on.  *)
THEOREM NeverStuck == StealingEndsTheGame => (Spec => []NotStuck)
<1> SUFFICES ASSUME StealingEndsTheGame
             PROVE  Spec => []NotStuck
  OBVIOUS
<1>1. Init => NotStuck
  BY StonesAssumption, InitCanMove DEF Init, NotStuck
<1>2. TypeOK /\ NotStuck /\ [Next]_vars => NotStuck'
  <2> SUFFICES ASSUME TypeOK, NotStuck, [Next]_vars
               PROVE  NotStuck'
    OBVIOUS
  <2>1. CASE UNCHANGED vars
    BY <2>1 DEF NotStuck, CanPlayerMove, vars
  <2>2. ASSUME NEW pit \in LocalPits, NEW player \in Players,
               MoveStones(pit, player)
        PROVE  NotStuck'
    <3>1. houses \in [Houses -> Nat] /\ houses[Pit(player, pit)] # 0
      BY <2>2 DEF TypeOK, MoveStones
    <3>2. ~ gameEnded' => CanPlayerMove(houses', playerToAct')
      BY <2>2, <3>1, NextCanMove DEF MoveStones
    <3> QED BY <3>2 DEF NotStuck, CanPlayerMove
  <2> QED BY <2>1, <2>2 DEF Next
<1> QED BY <1>1, <1>2, TypeCorrect, PTL DEF Spec

(* A move takes no stone out of a kalaha, and only the sweep at the end    *)
(* feeds the kalaha of a player who does not move.                         *)
LEMMA MoveGains == TypeOK /\ [Next]_vars => [Gain]_vars
<1> SUFFICES ASSUME TypeOK,
                    NEW pit \in LocalPits, NEW mover \in Players,
                    MoveStones(pit, mover)
             PROVE  Gain
  BY DEF Next
<1> DEFINE sown == AfterSowing(houses, mover, pit)
           next == NextPlayer(houses, mover, pit)
           keeper == LastOwner(sown, mover)
<1>1. /\ houses \in [Houses -> Nat]
      /\ houses[Pit(mover, pit)] # 0
      /\ playerToAct = mover
  BY DEF TypeOK, MoveStones
<1>2. sown \in [Houses -> Nat]
  BY <1>1, AfterSowingConserves
<1>3. /\ sown[Kalaha(mover)] >= houses[Kalaha(mover)]
      /\ sown[Kalaha(Opponent(mover))] = houses[Kalaha(Opponent(mover))]
  BY <1>1, AfterSowingKalahas
<1>4. keeper \in Players
  BY Layout DEF LastOwner
<1>5. \/ houses' = sown
      \/ (houses' = EndTransfer(sown, keeper) /\ gameEnded')
  BY DEF MoveStones, AfterMove, EndsGame
<1> HIDE DEF sown, next, keeper
<1>6. ASSUME NEW player \in Players
      PROVE  /\ houses'[Kalaha(player)] >= houses[Kalaha(player)]
             /\ houses'[Kalaha(player)] > houses[Kalaha(player)] =>
                  playerToAct = player \/ gameEnded'
  <2>1. player = mover \/ player = Opponent(mover)
    BY DEF Players, Opponent, SOUTH, NORTH
  <2>2. /\ houses[Kalaha(player)] \in Nat
        /\ sown[Kalaha(player)] \in Nat
    BY <1>1, <1>2, Layout
  <2>3. /\ sown[Kalaha(player)] >= houses[Kalaha(player)]
        /\ sown[Kalaha(player)] > houses[Kalaha(player)] => player = mover
    BY <1>3, <2>1, <2>2
  <2>4. EndTransfer(sown, keeper)[Kalaha(player)] >= sown[Kalaha(player)]
    BY <1>2, <1>4, EndTransferKalahas
  <2>5. EndTransfer(sown, keeper)[Kalaha(player)] \in Nat
    BY <1>2, <1>4, EndTransferConserves, Layout
  <2> QED BY <1>1, <1>5, <2>2, <2>3, <2>4, <2>5
<1> QED BY <1>6 DEF Gain

(* KalahasOnlyGain, for every game. *)
THEOREM KalahasGain == Spec => KalahasOnlyGain
BY MoveGains, TypeCorrect, PTL DEF Spec, KalahasOnlyGain

(* Who has more than half of the stones of the game is ahead.              *)
LEMMA MajorityIsAhead ==
  ASSUME NEW board \in [Houses -> Nat],
         StonesOnBoard(board) = 2 * NUMBER_OF_PITS * InitStones,
         NEW player \in Players, Majority(player, board)
  PROVE  WinningPlayer(board) = player
<1> DEFINE half == NUMBER_OF_PITS * InitStones
           s == board[Kalaha(SOUTH)]
           n == board[Kalaha(NORTH)]
<1>1. half \in Nat
  BY PitsAssumption, StonesAssumption
<1>2. 2 * NUMBER_OF_PITS * InitStones = half + half
  BY PitsAssumption, StonesAssumption
<1>3. s \in Nat /\ n \in Nat
  BY Layout DEF Players
<1>4. s + n <= half + half
  BY <1>2, KalahasWithinBoard
<1>5. (player = SOUTH /\ s > half) \/ (player = NORTH /\ n > half)
  BY DEF Players, Majority
<1>6. (player = SOUTH /\ s > n) \/ (player = NORTH /\ s < n)
  <2> HIDE DEF half, s, n
  <2> QED BY <1>1, <1>3, <1>4, <1>5
<1> QED BY <1>3, <1>6 DEF WinningPlayer

(* MajorityWins: the lead of more than half of the stones is kept, since   *)
(* no kalaha loses stones, and it is a lead, since no stones are made.     *)
THEOREM MajorityIsFinal == Spec => MajorityWins
<1>1. /\ TypeOK /\ TypeOK' /\ Conservation'
      /\ [Next]_vars
      => [\A player \in Players : Majority(player, houses) =>
            Majority(player, houses') /\ WinningPlayer(houses') = player]_vars
  <2> SUFFICES ASSUME TypeOK, TypeOK', Conservation', Gain,
                      NEW player \in Players, Majority(player, houses)
               PROVE  Majority(player, houses') /\ WinningPlayer(houses') = player
    BY MoveGains
  <2>1. Majority(player, houses')
    <3>1. /\ houses[Kalaha(player)] \in Nat
          /\ houses'[Kalaha(player)] \in Nat
      BY Layout DEF TypeOK
    <3>2. houses'[Kalaha(player)] >= houses[Kalaha(player)]
      BY DEF Gain
    <3>3. NUMBER_OF_PITS * InitStones \in Nat
      BY PitsAssumption, StonesAssumption
    <3> QED BY <3>1, <3>2, <3>3 DEF Majority
  <2>2. WinningPlayer(houses') = player
    BY <2>1, MajorityIsAhead DEF TypeOK, Conservation
  <2> QED BY <2>1, <2>2
<1>2. QED BY <1>1, TypeCorrect, StonesConserved, PTL DEF Spec, MajorityWins

(* At the end by rules that sweep the board the kalahas hold every stone.  *)
PitsSwept ==
  gameEnded /\ EndGameSweepsBoard =>
    \A player \in Players : ~ CanPlayerMove(houses, player)

THEOREM KalahasHoldAll == Spec => []EndCountsAllStones
<1>1. Init => PitsSwept
  BY DEF Init, PitsSwept
<1>2. TypeOK /\ PitsSwept /\ [Next]_vars => PitsSwept'
  <2> SUFFICES ASSUME TypeOK, PitsSwept, [Next]_vars
               PROVE  PitsSwept'
    OBVIOUS
  <2>1. CASE UNCHANGED vars
    BY <2>1 DEF PitsSwept, CanPlayerMove, vars
  <2>2. ASSUME NEW pit \in LocalPits, NEW mover \in Players,
               MoveStones(pit, mover)
        PROVE  PitsSwept'
    <3>1. houses \in [Houses -> Nat]
      BY DEF TypeOK
    <3>2. /\ gameEnded' => EndsGame(houses, mover, pit)
          /\ houses' = AfterMove(houses, mover, pit)
      BY <2>2 DEF MoveStones
    <3> QED BY <3>1, <3>2, SweptAtTheEnd DEF PitsSwept, CanPlayerMove
  <2> QED BY <2>1, <2>2 DEF Next
<1>3. TypeOK /\ Conservation /\ PitsSwept => EndCountsAllStones
  BY KalahasWithinBoard
     DEF TypeOK, Conservation, PitsSwept, EndCountsAllStones, Players
<1>4. QED BY <1>1, <1>2, <1>3, TypeCorrect, StonesConserved, PTL DEF Spec

-----------------------------------------------------------------------------
(* MovesGoForward.  A move that brings nothing to a kalaha ends before it, *)
(* so that each of its stones has come to a later pit of the player.       *)

Weighed(board) == [h \in Houses |-> Place(h) * board[h]]

LEMMA WeighedType ==
  ASSUME NEW board \in [Houses -> Nat]
  PROVE  /\ \A h \in Houses : Place(h) \in 0 .. NUMBER_OF_PITS
         /\ Weighed(board) \in [Houses -> Nat]
         /\ Advance(board) = StonesOnBoard(Weighed(board))
         /\ Advance(board) \in Nat
<1>1. \A h \in Houses : Place(h) \in 0 .. NUMBER_OF_PITS /\ Place(h) \in Nat
  BY PitsAssumption DEF Place, Houses, NumberOfHouses
<1>2. \A h \in Houses : Place(h) * board[h] \in Nat
  BY <1>1
<1>3. Weighed(board) \in [Houses -> Nat]
  BY <1>2 DEF Weighed
<1>4. StonesOnBoard(Weighed(board)) \in Nat
  <2>1. NumberOfHouses \in 0 .. NumberOfHouses
    BY PitsAssumption DEF NumberOfHouses
  <2> QED BY <1>3, <2>1, StonesBeforeDef DEF StonesOnBoard
<1> QED BY <1>1, <1>3, <1>4 DEF Advance, Weighed

LEMMA AdvanceOfOneHouse ==
  ASSUME NEW board \in [Houses -> Nat], NEW new \in [Houses -> Nat],
         NEW c \in Houses,
         \A h \in Houses : h # c => new[h] = board[h]
  PROVE  Advance(new) = Advance(board) - Place(c) * board[c] + Place(c) * new[c]
<1>1. /\ Weighed(board) \in [Houses -> Nat] /\ Weighed(new) \in [Houses -> Nat]
      /\ Advance(board) = StonesOnBoard(Weighed(board))
      /\ Advance(new) = StonesOnBoard(Weighed(new))
  BY WeighedType
<1>2. \A h \in Houses : h # c => Weighed(new)[h] = Weighed(board)[h]
  BY DEF Weighed
<1>3. /\ Weighed(board)[c] = Place(c) * board[c]
      /\ Weighed(new)[c] = Place(c) * new[c]
  BY DEF Weighed
<1> QED BY <1>1, <1>2, <1>3, OneHouseChanges

(* Sowing one stone more.                                                  *)
LEMMA SownAdvance ==
  ASSUME NEW board \in [Houses -> Nat], NEW player \in Players,
         NEW pit \in LocalPits, NEW k \in Nat
  PROVE  Advance(Sown(board, player, pit, k + 1))
           = Advance(Sown(board, player, pit, k))
               + Place(SowHouse(player, pit, k + 1))
<1> DEFINE old == Sown(board, player, pit, k)
           new == Sown(board, player, pit, k + 1)
           c == SowHouse(player, pit, k + 1)
<1>1. old \in [Houses -> Nat] /\ new \in [Houses -> Nat] /\ c \in Houses
  <2>1. k + 1 \in Nat
    OBVIOUS
  <2> QED BY <2>1, SownType, SowHouseType
<1>2. new = [old EXCEPT ![c] = @ + 1]
  BY SownOneMore
<1> HIDE DEF old, new, c
<1>3. Advance(new) = Advance(old) - Place(c) * old[c] + Place(c) * new[c]
  BY <1>1, <1>2, AdvanceOfOneHouse
<1>4. Place(c) \in Nat /\ old[c] \in Nat /\ new[c] = old[c] + 1
      /\ Advance(old) \in Nat
  BY <1>1, <1>2, WeighedType, PitsAssumption
<1>5. Place(c) * new[c] = Place(c) * old[c] + Place(c)
  BY <1>4
<1>6. Place(c) * old[c] \in Nat
  BY <1>4
<1>7. Advance(new) = Advance(old) + Place(c)
  BY <1>3, <1>4, <1>5, <1>6
<1> QED BY <1>7 DEF old, new, c

(* A sowing that reaches the kalaha leaves a stone there, and the last     *)
(* stone brings what it steals.                                            *)
LEMMA NothingForTheKalaha ==
  ASSUME NEW board \in [Houses -> Nat], NEW player \in Players,
         NEW pit \in LocalPits, board[Pit(player, pit)] # 0,
         AfterSowing(board, player, pit)[Kalaha(player)] = board[Kalaha(player)]
  PROVE  LET n == board[Pit(player, pit)]
         IN  /\ pit + n < NUMBER_OF_PITS
             /\ AfterSowing(board, player, pit) = Sown(board, player, pit, n)
<1> DEFINE n == board[Pit(player, pit)]
           sown == Sown(board, player, pit, n - 1)
           last == SowHouse(player, pit, n)
           kalaha == Kalaha(player)
           T == {j \in 1 .. n - 1 : SowHouse(player, pit, j) = kalaha}
<1>1. /\ n \in Nat \ {0} /\ n - 1 \in Nat /\ (n - 1) + 1 = n
      /\ kalaha \in Houses /\ kalaha # Pit(player, pit)
      /\ board[kalaha] \in Nat
  BY PitType, Layout
<1>2. sown \in [Houses -> Nat] /\ last \in Houses
  BY <1>1, SownType, SowHouseType
<1>3. sown[kalaha] = board[kalaha] + Cardinality(T)
  BY <1>1 DEF Sown
<1>4. AfterSowing(board, player, pit) = DropLast(sown, player, last)
  BY DEF AfterSowing
<1>5. IsFiniteSet(T) /\ Cardinality(T) \in Nat
  <2>1. IsFiniteSet(1 .. n - 1)
    BY <1>1, FS_Interval
  <2>2. IsFiniteSet(T)
    BY <2>1, FS_Subset
  <2> QED BY <2>2, FS_CardinalityType
<1>6. DropLast(sown, player, last)[kalaha] = board[kalaha]
  BY <1>4
<1> HIDE DEF T, sown, last, n, kalaha
<1>7. ~ Steals(sown, player, last)
  <2> SUFFICES ASSUME Steals(sown, player, last) PROVE FALSE
    OBVIOUS
  <2>1. /\ Opposite(player, last) \in Houses
        /\ Opposite(player, last) # kalaha
        /\ sown[Opposite(player, last)] \in Nat
    BY <1>2, OppositeType DEF Steals, kalaha
  <2>2. DropLast(sown, player, last)[kalaha]
          = sown[kalaha] + 1 + sown[Opposite(player, last)]
    BY <1>1, <1>2, <2>1 DEF DropLast, kalaha
  <2> QED BY <1>1, <1>3, <1>5, <1>6, <2>1, <2>2
<1>8. DropLast(sown, player, last) = [sown EXCEPT ![last] = @ + 1]
  BY <1>7 DEF DropLast
<1>9. last # kalaha
  BY <1>1, <1>2, <1>3, <1>5, <1>6, <1>8
<1>10. T = {}
  <2>1. Cardinality(T) = 0
    BY <1>1, <1>2, <1>3, <1>5, <1>6, <1>8, <1>9
  <2> QED BY <1>5, <2>1, FS_EmptySet
<1>11. pit + n < NUMBER_OF_PITS
  <2> SUFFICES ASSUME pit + n >= NUMBER_OF_PITS PROVE FALSE
    BY <1>1, PitsAssumption DEF LocalPits
  <2> DEFINE j == NUMBER_OF_PITS - pit
  <2>1. j \in 1 .. n /\ pit + j = NUMBER_OF_PITS
    BY <1>1, PitsAssumption DEF LocalPits
  <2>2. SowHouse(player, pit, j) = kalaha
    <3>1. Lap \in Nat \ {0} /\ NUMBER_OF_PITS \in 0 .. 2 * Lap - 1
          /\ NUMBER_OF_PITS < Lap
      BY PitsAssumption DEF Lap
    <3>2. NUMBER_OF_PITS % Lap = NUMBER_OF_PITS
      BY <3>1, ModOnce
    <3> HIDE DEF j
    <3>3. SowHouse(player, pit, j) = kalaha % NumberOfHouses
      BY <2>1, <3>2 DEF SowHouse, Kalaha, kalaha
    <3>4. NumberOfHouses \in Nat \ {0} /\ kalaha \in 0 .. 2 * NumberOfHouses - 1
          /\ kalaha < NumberOfHouses
      BY <1>1, PitsAssumption DEF Houses, NumberOfHouses
    <3> QED BY <3>3, <3>4, ModOnce
  <2>3. j # n
    BY <1>9, <2>2 DEF last
  <2>4. j \in T
    <3> HIDE DEF j
    <3> QED BY <1>1, <2>1, <2>2, <2>3 DEF T
  <2> QED BY <1>10, <2>4
<1>12. AfterSowing(board, player, pit) = Sown(board, player, pit, n)
  <2>1. Sown(board, player, pit, (n - 1) + 1)
          = [sown EXCEPT ![SowHouse(player, pit, (n - 1) + 1)] = @ + 1]
    <3> DEFINE k == n - 1
    <3>1. k \in Nat
      BY <1>1
    <3> HIDE DEF k
    <3>2. Sown(board, player, pit, k + 1)
            = [Sown(board, player, pit, k)
                 EXCEPT ![SowHouse(player, pit, k + 1)] = @ + 1]
      BY <3>1, SownOneMore
    <3> QED BY <3>2 DEF k, sown
  <2> QED BY <1>1, <1>4, <1>8, <2>1 DEF last
<1> QED BY <1>11, <1>12 DEF n

(* The stones of a sowing that ends before the kalaha move on.             *)
LEMMA ShortSowingAdvances ==
  ASSUME NEW board \in [Houses -> Nat], NEW player \in Players,
         NEW pit \in LocalPits, board[Pit(player, pit)] # 0,
         pit + board[Pit(player, pit)] < NUMBER_OF_PITS
  PROVE  Advance(Sown(board, player, pit, board[Pit(player, pit)]))
           > Advance(board)
<1> DEFINE from == Pit(player, pit)
           n == board[from]
           sown(k) == Sown(board, player, pit, k)
           start == Advance(board) - pit * n
           T == {k \in 0 .. n : Advance(sown(k)) >= start + k * (pit + 1)}
<1>1. /\ from \in Houses /\ n \in Nat \ {0} /\ pit \in Nat
      /\ pit + n < NUMBER_OF_PITS /\ Advance(board) \in Nat
      /\ pit * n \in Nat /\ start \in Int
  <2>1. from \in Houses /\ n \in Nat \ {0} /\ pit \in Nat
        /\ pit + n < NUMBER_OF_PITS /\ Advance(board) \in Nat
    BY PitType, WeighedType, PitsAssumption DEF LocalPits
  <2>2. pit * n \in Nat
    BY <2>1
  <2> QED BY <2>1, <2>2
<1>2. /\ FirstPit(player) \in {0, NUMBER_OF_PITS + 1}
      /\ NUMBER_OF_PITS \in Nat \ {0}
      /\ NumberOfHouses = 2 * NUMBER_OF_PITS + 2 /\ Lap = 2 * NUMBER_OF_PITS + 1
  BY Layout DEF Lap
<1>3. \A i \in 0 .. NUMBER_OF_PITS : Place(FirstPit(player) + i) = i
  BY <1>2 DEF Place
<1>4. Advance(sown(0)) = start
  <2> DEFINE emptied == [board EXCEPT ![from] = 0]
  <2>1. sown(0) = emptied /\ emptied \in [Houses -> Nat]
        /\ emptied[from] = 0
        /\ \A h \in Houses : h # from => emptied[h] = board[h]
    BY <1>1, SownNone
  <2> HIDE DEF emptied
  <2>2. Advance(emptied)
          = Advance(board) - Place(from) * board[from] + Place(from) * emptied[from]
    BY <1>1, <2>1, AdvanceOfOneHouse
  <2>3. Place(from) = pit
    BY <1>1, <1>2, <1>3 DEF Pit
  <2>4. Place(from) * emptied[from] = 0 /\ Place(from) * board[from] = pit * n
    BY <1>1, <2>1, <2>3
  <2> QED BY <1>1, <2>1, <2>2, <2>4
<1>5. 0 \in T
  <2>1. 0 * (pit + 1) = 0
    BY <1>1
  <2> HIDE DEF start
  <2> QED BY <1>1, <1>4, <2>1
<1>6. ASSUME NEW k \in 0 .. n - 1, k \in T
      PROVE  k + 1 \in T
  <2>1. k \in Nat /\ k + 1 \in 0 .. n /\ pit + (k + 1) \in 0 .. NUMBER_OF_PITS - 1
    <3> HIDE DEF n
    <3> QED BY <1>1, <1>2
  <2>2. SowHouse(player, pit, k + 1) = FirstPit(player) + (pit + (k + 1))
    <3> DEFINE x == pit + (k + 1)
               y == FirstPit(player) + x
    <3>1. /\ x \in 0 .. NUMBER_OF_PITS - 1
          /\ x \in 0 .. 2 * Lap - 1 /\ x < Lap /\ Lap \in Nat \ {0}
          /\ y \in 0 .. 2 * NumberOfHouses - 1 /\ y < NumberOfHouses
          /\ NumberOfHouses \in Nat \ {0}
      BY <1>2, <2>1
    <3>2. SowHouse(player, pit, k + 1)
            = (FirstPit(player) + (x % Lap)) % NumberOfHouses
      BY DEF SowHouse
    <3> HIDE DEF x
    <3>3. x % Lap = x
      BY <3>1, ModOnce
    <3>4. SowHouse(player, pit, k + 1) = y % NumberOfHouses
      BY <3>2, <3>3
    <3> HIDE DEF y
    <3>5. y % NumberOfHouses = y
      BY <3>1, ModOnce
    <3> QED BY <3>4, <3>5 DEF x, y
  <2>3. Place(SowHouse(player, pit, k + 1)) = pit + (k + 1)
    <3>1. pit + (k + 1) \in 0 .. NUMBER_OF_PITS
      BY <1>2, <2>1
    <3> QED BY <1>3, <2>2, <3>1
  <2>4. Advance(sown(k + 1)) = Advance(sown(k)) + (pit + (k + 1))
    BY <2>1, <2>3, SownAdvance
  <2>5. (k + 1) * (pit + 1) = k * (pit + 1) + (pit + 1)
    BY <1>1, <2>1
  <2>6. k * (pit + 1) \in Nat
    BY <1>1, <2>1
  <2>7. Advance(sown(k)) >= start + k * (pit + 1)
    BY <1>6
  <2>8. Advance(sown(k)) \in Nat
    BY <2>1, SownType, WeighedType
  <2> HIDE DEF start, sown
  <2> QED BY <1>1, <2>1, <2>4, <2>5, <2>6, <2>7, <2>8
<1>7. n \in T
  <2>1. 0 .. n \subseteq T
    <3> HIDE DEF T
    <3> QED BY <1>1, <1>5, <1>6, SetInduction
  <2> QED BY <1>1, <2>1
<1>8. n * (pit + 1) = pit * n + n
  BY <1>1
<1>9. Advance(sown(n)) >= Advance(board) + n
  <2>1. Advance(sown(n)) >= start + n * (pit + 1)
    BY <1>7
  <2>2. Advance(sown(n)) \in Nat
    BY <1>1, SownType, WeighedType
  <2> HIDE DEF sown, n
  <2> QED BY <1>1, <1>8, <2>1, <2>2
<1>10. Advance(sown(n)) \in Nat
  BY <1>1, SownType, WeighedType
<1> HIDE DEF sown, n
<1>11. Advance(sown(n)) > Advance(board)
  BY <1>1, <1>9, <1>10
<1> QED BY <1>11 DEF sown, n

(* The running sum never falls.                                            *)
LEMMA StonesBeforeGrows ==
  ASSUME NEW board \in [Houses -> Nat], NEW m \in 0 .. NumberOfHouses,
         NEW k \in 0 .. NumberOfHouses - m
  PROVE  StonesBefore(board)[m + k] >= StonesBefore(board)[m]
<1> DEFINE sb == StonesBefore(board)
           N == NumberOfHouses - m
           T == {i \in 0 .. N : sb[m + i] >= sb[m]}
<1>1. /\ sb \in [0 .. NumberOfHouses -> Nat]
      /\ \A h \in Houses : sb[h + 1] = sb[h] + board[h]
      /\ NumberOfHouses \in Nat /\ m \in Nat /\ N \in Nat
      /\ Houses = 0 .. NumberOfHouses - 1
  <2>1. NumberOfHouses \in Nat /\ Houses = 0 .. NumberOfHouses - 1
    BY PitsAssumption DEF NumberOfHouses, Houses
  <2>2. m \in Nat /\ N \in Nat
    BY <2>1
  <2> QED BY <2>1, <2>2, StonesBeforeDef
<1> HIDE DEF sb
<1>2. 0 \in T
  BY <1>1
<1>3. ASSUME NEW i \in 0 .. N - 1, i \in T
      PROVE  i + 1 \in T
  <2>1. /\ m + i \in Houses /\ (m + i) + 1 = m + (i + 1) /\ i + 1 \in 0 .. N
        /\ m + i \in 0 .. NumberOfHouses
    BY <1>1
  <2>2. sb[m + (i + 1)] = sb[m + i] + board[m + i]
    BY <1>1, <2>1
  <2>3. sb[m + i] \in Nat /\ board[m + i] \in Nat /\ sb[m] \in Nat
    BY <1>1, <2>1
  <2>4. sb[m + i] >= sb[m]
    BY <1>3
  <2> QED BY <2>1, <2>2, <2>3, <2>4
<1>4. 0 .. N \subseteq T
  <2> HIDE DEF T, N
  <2> QED BY <1>1, <1>2, <1>3, SetInduction
<1> QED BY <1>4 DEF sb

(* No pit holds more than all pits of its player.                          *)
LEMMA PitWithinPits ==
  ASSUME NEW board \in [Houses -> Nat], NEW player \in Players,
         NEW h \in MyPits(player)
  PROVE  board[h] <= StonesInPits(board, player)
<1> DEFINE sb == StonesBefore(board)
           first == FirstPit(player)
           kalaha == Kalaha(player)
           a == h - first
           b == kalaha - (h + 1)
<1>1. /\ first \in Nat /\ kalaha \in Houses /\ h \in Houses
      /\ first \in 0 .. NumberOfHouses /\ kalaha \in 0 .. NumberOfHouses
      /\ NumberOfHouses \in Nat /\ Houses = 0 .. NumberOfHouses - 1
      /\ h \in first .. kalaha - 1
  BY PitsAssumption, Layout
     DEF MyPits, Houses, NumberOfHouses, FirstPit, Kalaha
<1>2. /\ sb \in [0 .. NumberOfHouses -> Nat]
      /\ sb[h + 1] = sb[h] + board[h]
  BY <1>1, StonesBeforeDef
<1> HIDE DEF first, kalaha
<1>3. /\ a \in 0 .. NumberOfHouses - first /\ first + a = h
      /\ b \in 0 .. NumberOfHouses - (h + 1) /\ (h + 1) + b = kalaha
      /\ h + 1 \in 0 .. NumberOfHouses
  BY <1>1
<1> HIDE DEF a, b
<1>4. sb[first + a] >= sb[first]
  BY <1>1, <1>3, StonesBeforeGrows
<1>5. sb[(h + 1) + b] >= sb[h + 1]
  BY <1>3, StonesBeforeGrows
<1>6. /\ sb[first] \in Nat /\ sb[h] \in Nat /\ sb[h + 1] \in Nat
      /\ sb[kalaha] \in Nat /\ board[h] \in Nat
  BY <1>1, <1>2, <1>3
<1>7. StonesInPits(board, player) = sb[kalaha] - sb[first]
  BY DEF StonesInPits, kalaha, first
<1> HIDE DEF sb
<1> QED BY <1>2, <1>3, <1>4, <1>5, <1>6, <1>7

(* A sweep that brings nothing to the kalaha sweeps nothing.               *)
LEMMA NothingToSweep ==
  ASSUME NEW board \in [Houses -> Nat], NEW keeper \in Players,
         EndTransfer(board, keeper)[Kalaha(keeper)] = board[Kalaha(keeper)]
  PROVE  EndTransfer(board, keeper) = board
<1>1. CASE ~ EndGameSweepsBoard
  BY <1>1 DEF EndTransfer
<1>2. CASE EndGameSweepsBoard
  <2> DEFINE left == StonesInPits(board, keeper)
             kalaha == Kalaha(keeper)
             pits == MyPits(keeper)
  <2>1. kalaha \in Houses /\ kalaha \notin pits /\ left \in Nat
        /\ board[kalaha] \in Nat
    BY Layout, StonesInPitsType DEF MyPits
  <2>2. \A h \in pits : board[h] <= left
    BY PitWithinPits
  <2>3. pits \subseteq Houses
    BY Layout, PitsAssumption DEF MyPits, Houses, NumberOfHouses, FirstPit, Kalaha
  <2>4. EndTransfer(board, keeper)
          = [h \in Houses |->
               IF h \in pits THEN 0
               ELSE board[h] + IF h = kalaha THEN left ELSE 0]
    BY <1>2 DEF EndTransfer
  <2> HIDE DEF left, kalaha, pits
  <2>5. left = 0
    BY <2>1, <2>4 DEF kalaha
  <2>6. \A h \in pits : board[h] = 0
    BY <2>2, <2>3, <2>5
  <2>7. \A h \in Houses : board[h] \in Nat
    OBVIOUS
  <2>8. \A h \in Houses :
          (IF h \in pits THEN 0 ELSE board[h] + IF h = kalaha THEN left ELSE 0)
            = board[h]
    BY <2>5, <2>6, <2>7
  <2>9. board = [h \in Houses |-> board[h]]
    OBVIOUS
  <2> QED BY <2>4, <2>8, <2>9
<1> QED BY <1>1, <1>2, RulesAssumption

LEMMA MoveGoesForward ==
  ASSUME TypeOK, NEW pit \in LocalPits, NEW mover \in Players,
         MoveStones(pit, mover)
  PROVE  \/ InKalahas(houses') > InKalahas(houses)
         \/ /\ InKalahas(houses') = InKalahas(houses)
            /\ Advance(houses') > Advance(houses)
<1> DEFINE sown == AfterSowing(houses, mover, pit)
           keeper == LastOwner(sown, mover)
           n == houses[Pit(mover, pit)]
<1>1. /\ houses \in [Houses -> Nat] /\ n # 0 /\ keeper \in Players
      /\ sown \in [Houses -> Nat]
  BY AfterSowingConserves, Layout DEF TypeOK, MoveStones, LastOwner
<1>2. /\ sown[Kalaha(mover)] >= houses[Kalaha(mover)]
      /\ sown[Kalaha(Opponent(mover))] = houses[Kalaha(Opponent(mover))]
  BY <1>1, AfterSowingKalahas
<1>3. houses' = sown \/ houses' = EndTransfer(sown, keeper)
  BY DEF MoveStones, AfterMove, EndsGame
<1>4. /\ \/ mover = SOUTH /\ Opponent(mover) = NORTH
         \/ mover = NORTH /\ Opponent(mover) = SOUTH
      /\ keeper \in {SOUTH, NORTH}
  BY <1>1 DEF Players, Opponent, SOUTH, NORTH
<1> HIDE DEF sown, keeper, n
<1>5. \A p \in Players : /\ houses[Kalaha(p)] \in Nat
                         /\ sown[Kalaha(p)] \in Nat
  BY <1>1, Layout
<1>6. /\ houses' \in [Houses -> Nat]
      /\ \A p \in Players : houses'[Kalaha(p)] \in Nat
      /\ \A p \in Players : houses'[Kalaha(p)] >= sown[Kalaha(p)]
  <2>1. EndTransfer(sown, keeper) \in [Houses -> Nat]
    BY <1>1, EndTransferConserves
  <2>2. \A p \in Players :
          EndTransfer(sown, keeper)[Kalaha(p)] >= sown[Kalaha(p)]
    BY <1>1, EndTransferKalahas
  <2>3. houses' \in [Houses -> Nat]
    BY <1>1, <1>3, <2>1
  <2> QED BY <1>3, <1>5, <2>2, <2>3, Layout
<1>7. \A p \in Players : sown[Kalaha(p)] >= houses[Kalaha(p)]
  BY <1>2, <1>4, <1>5 DEF Players
<1>8. CASE \E p \in Players : houses'[Kalaha(p)] # houses[Kalaha(p)]
  <2>1. \A p \in Players : houses'[Kalaha(p)] >= houses[Kalaha(p)]
    BY <1>5, <1>6, <1>7
  <2>2. InKalahas(houses') > InKalahas(houses)
    BY <1>5, <1>6, <1>8, <2>1 DEF InKalahas, Players
  <2> QED BY <2>2
<1>9. CASE \A p \in Players : houses'[Kalaha(p)] = houses[Kalaha(p)]
  <2>1. \A p \in Players : /\ sown[Kalaha(p)] = houses[Kalaha(p)]
                           /\ houses'[Kalaha(p)] = sown[Kalaha(p)]
    BY <1>5, <1>6, <1>7, <1>9
  <2>2. houses' = sown
    BY <1>1, <1>3, <2>1, NothingToSweep
  <2>3. pit + n < NUMBER_OF_PITS /\ sown = Sown(houses, mover, pit, n)
    BY <1>1, <2>1, NothingForTheKalaha DEF sown, n
  <2>4. Advance(sown) > Advance(houses)
    BY <1>1, <2>3, ShortSowingAdvances DEF n
  <2>5. InKalahas(houses') = InKalahas(houses)
    BY <1>9 DEF InKalahas, Players
  <2> QED BY <2>2, <2>4, <2>5
<1> QED BY <1>8, <1>9

(* MovesGoForward, for every game: by any rules each move takes the game   *)
(* on, be it by an extra turn or a steal.                                  *)
THEOREM EveryMoveGoesForward == Spec => MovesGoForward
<1>1. TypeOK /\ [Next]_vars
      => [\/ InKalahas(houses') > InKalahas(houses)
          \/ /\ InKalahas(houses') = InKalahas(houses)
             /\ Advance(houses') > Advance(houses)]_vars
  BY MoveGoesForward DEF Next
<1> QED BY <1>1, TypeCorrect, PTL DEF Spec, MovesGoForward

(* No stone is more than a side's pits away from the first one.            *)
LEMMA AdvanceWithin ==
  ASSUME NEW board \in [Houses -> Nat]
  PROVE  Advance(board) <= NUMBER_OF_PITS * StonesOnBoard(board)
<1> DEFINE P == NUMBER_OF_PITS
           N == NumberOfHouses
           sb == StonesBefore(board)
           sw == StonesBefore(Weighed(board))
           T == {h \in 0 .. N : sw[h] <= P * sb[h]}
<1>1. /\ Weighed(board) \in [Houses -> Nat]
      /\ Advance(board) = sw[N]
      /\ \A h \in Houses : Place(h) \in 0 .. P
      /\ \A h \in Houses : Weighed(board)[h] = Place(h) * board[h]
  BY WeighedType DEF Weighed, StonesOnBoard
<1>2. /\ sb \in [0 .. N -> Nat] /\ sb[0] = 0
      /\ \A h \in Houses : sb[h + 1] = sb[h] + board[h]
      /\ sw \in [0 .. N -> Nat] /\ sw[0] = 0
      /\ \A h \in Houses : sw[h + 1] = sw[h] + Weighed(board)[h]
      /\ StonesOnBoard(board) = sb[N]
  BY <1>1, StonesBeforeDef DEF StonesOnBoard
<1>3. N \in Nat /\ P \in Nat /\ Houses = 0 .. N - 1
  BY PitsAssumption DEF NumberOfHouses, Houses
<1> HIDE DEF P, N, sb, sw
<1>4. 0 \in T
  BY <1>2, <1>3
<1>5. ASSUME NEW h \in 0 .. N - 1, h \in T
      PROVE  h + 1 \in T
  <2>1. h \in Houses /\ h \in 0 .. N /\ h + 1 \in 0 .. N
    BY <1>3
  <2>2. /\ sw[h + 1] = sw[h] + Place(h) * board[h]
        /\ sb[h + 1] = sb[h] + board[h]
        /\ Place(h) \in 0 .. P /\ board[h] \in Nat
        /\ sw[h] \in Nat /\ sb[h] \in Nat
        /\ sw[h] <= P * sb[h]
    BY <1>1, <1>2, <1>5, <2>1
  <2>3. Place(h) * board[h] <= P * board[h]
    <3> DEFINE a == Place(h)
               b == board[h]
               d == P - a
    <3>1. a \in Nat /\ b \in Nat /\ d \in Nat /\ P = a + d
      BY <1>3, <2>2
    <3> HIDE DEF a, b, d
    <3>2. (a + d) * b = a * b + d * b /\ d * b \in Nat /\ a * b \in Nat
      BY <3>1
    <3> QED BY <3>1, <3>2 DEF a, b
  <2>4. P * (sb[h] + board[h]) = P * sb[h] + P * board[h]
    BY <1>3, <2>2
  <2>5. /\ Place(h) * board[h] \in Int /\ P * board[h] \in Int
        /\ P * sb[h] \in Int
    BY <1>3, <2>2
  <2> QED BY <2>1, <2>2, <2>3, <2>4, <2>5
<1>6. 0 .. N \subseteq T
  <2> HIDE DEF T
  <2> QED BY <1>3, <1>4, <1>5, SetInduction
<1>7. N \in 0 .. N
  BY <1>3
<1>8. sw[N] <= P * sb[N]
  BY <1>6, <1>7
<1> QED BY <1>1, <1>2, <1>8 DEF P

(* There is an end to going forward: the stones in the kalahas are at most *)
(* all stones, and no stone goes further than past its side's pits.  With  *)
(* EveryMoveGoesForward a game of S stones has less than (S + 1) * (P * S  *)
(* + 1) moves, by any rules.                                               *)
THEOREM ForwardHasAnEnd ==
  Spec => [](LET stones == 2 * NUMBER_OF_PITS * InitStones
             IN  /\ InKalahas(houses) \in 0 .. stones
                 /\ Advance(houses) \in 0 .. NUMBER_OF_PITS * stones)
<1> DEFINE stones == 2 * NUMBER_OF_PITS * InitStones
           Within == /\ InKalahas(houses) \in 0 .. stones
                     /\ Advance(houses) \in 0 .. NUMBER_OF_PITS * stones
<1>1. TypeOK /\ Conservation => Within
  <2> SUFFICES ASSUME TypeOK, Conservation PROVE Within
    OBVIOUS
  <2>1. /\ houses \in [Houses -> Nat] /\ StonesOnBoard(houses) = stones
        /\ stones \in Nat /\ NUMBER_OF_PITS * stones \in Nat
    BY PitsAssumption, StonesAssumption DEF TypeOK, Conservation
  <2> HIDE DEF stones
  <2>2. InKalahas(houses) <= stones
    BY <2>1, KalahasWithinBoard DEF InKalahas
  <2>3. InKalahas(houses) \in Nat
    BY <2>1, Layout DEF InKalahas, Players
  <2>4. Advance(houses) \in Nat /\ Advance(houses) <= NUMBER_OF_PITS * stones
    BY <2>1, WeighedType, AdvanceWithin
  <2> QED BY <2>1, <2>2, <2>3, <2>4
<1> QED BY <1>1, TypeCorrect, StonesConserved, PTL


-----------------------------------------------------------------------------
(* Quotients and remainders. *)

LEMMA ProductGrows ==
  ASSUME NEW n \in Nat, NEW q \in Int, NEW d \in Int, q >= d + 1
  PROVE  q * n >= d * n + n
OBVIOUS

LEMMA DivMod ==
  ASSUME NEW n \in Nat \ {0}, NEW a \in Nat
  PROVE  /\ a \div n \in Nat
         /\ a % n \in 0 .. n - 1
         /\ a = n * (a \div n) + (a % n)
OBVIOUS

LEMMA DivUnique ==
  ASSUME NEW n \in Nat \ {0}, NEW q \in Nat, NEW r \in 0 .. n - 1
  PROVE  (q * n + r) \div n = q /\ (q * n + r) % n = r
<1> DEFINE a == q * n + r
           d == a \div n
           m == a % n
<1>1. a \in Nat
  OBVIOUS
<1>2. d \in Nat /\ m \in 0 .. n - 1 /\ q * n + r = n * d + m
  BY <1>1, DivMod
<1> HIDE DEF d, m
<1>3. n * d = d * n /\ q * n \in Int /\ d * n \in Int
  BY <1>2
<1>4. ~ q >= d + 1
  <2>1. q >= d + 1 => q * n >= d * n + n
    BY <1>2, ProductGrows
  <2> QED BY <1>2, <1>3, <2>1
<1>5. ~ d >= q + 1
  <2>1. d >= q + 1 => d * n >= q * n + n
    BY <1>2, ProductGrows
  <2> QED BY <1>2, <1>3, <2>1
<1>6. d = q
  BY <1>2, <1>4, <1>5
<1>7. m = r
  BY <1>2, <1>6
<1> QED BY <1>6, <1>7 DEF a, d, m

-----------------------------------------------------------------------------
(* The counters of the loop.  The player's round has Lap houses and the   *)
(* array one more, the opponent's kalaha: one skip for every lap begun     *)
(* brings i to the house that the formula has.                             *)

Laps(i) == i \div Lap

LEMMA CountersFollow ==
  ASSUME NEW player \in Players, NEW i \in Nat
  PROVE  LET skips == PitAt(i + 1, Laps(i), player) = Kalaha(Opponent(player))
         IN  /\ Laps(i) \in Nat
             /\ Laps(i + 1) = Laps(i) + IF skips THEN 1 ELSE 0
             /\ PitAt(i + 1, Laps(i + 1), player)
                  = (FirstPit(player) + ((i + 1) % Lap)) % NumberOfHouses
<1> DEFINE q == Laps(i)
           r == i % Lap
           first == FirstPit(player)
<1>1. /\ Lap \in Nat \ {0} /\ Lap = 2 * NUMBER_OF_PITS + 1
      /\ NumberOfHouses = Lap + 1 /\ NUMBER_OF_PITS \in Nat \ {0}
      /\ NumberOfHouses \in Nat \ {0}
  BY PitsAssumption DEF Lap, NumberOfHouses
<1>2. q \in Nat /\ r \in 0 .. Lap - 1 /\ i = Lap * q + r
  BY <1>1, DivMod DEF Laps
<1>3. /\ Offset(player) = first /\ first \in {0, NUMBER_OF_PITS + 1}
      /\ Kalaha(Opponent(player))
           = IF first = 0 THEN 2 * NUMBER_OF_PITS + 1 ELSE NUMBER_OF_PITS
  BY <1>1 DEF Offset, FirstPit, Kalaha, Opponent, Players, NORTH, SOUTH
<1> HIDE DEF q, r, first
(* Where a place i + n of the round is in the array.                       *)
<1>4. ASSUME NEW n \in Nat, NEW s \in 0 .. NumberOfHouses - 1,
             NEW m \in Nat, i + n = Lap * m + s
      PROVE  PitAt(i + n, m, player) = (first + s) % NumberOfHouses
  <2>1. i + n + m + first = m * NumberOfHouses + (s + first)
    BY <1>1, <1>3, <1>4
  <2>2. s + first \in 0 .. 2 * NumberOfHouses - 1
    BY <1>1, <1>3
  <2>3. CASE s + first < NumberOfHouses
    <3>1. s + first \in 0 .. NumberOfHouses - 1
      BY <1>1, <2>2, <2>3
    <3>2. (m * NumberOfHouses + (s + first)) % NumberOfHouses = s + first
      BY <1>1, <3>1, DivUnique
    <3>3. (s + first) % NumberOfHouses = s + first
      BY <1>1, <2>2, <2>3, ModOnce
    <3> QED BY <1>1, <1>3, <2>1, <3>2, <3>3 DEF PitAt
  <2>4. CASE s + first >= NumberOfHouses
    <3> DEFINE t == s + first - NumberOfHouses
    <3>1. t \in 0 .. NumberOfHouses - 1 /\ m + 1 \in Nat
      BY <1>1, <1>3, <2>2, <2>4
    <3>2. m * NumberOfHouses + (s + first) = (m + 1) * NumberOfHouses + t
      BY <1>1, <1>3
    <3>3. ((m + 1) * NumberOfHouses + t) % NumberOfHouses = t
      BY <1>1, <3>1, DivUnique
    <3>4. (s + first) % NumberOfHouses = t
      <4> DEFINE sum == s + first
      <4>1. sum \in 0 .. 2 * NumberOfHouses - 1 /\ ~ sum < NumberOfHouses
            /\ sum - NumberOfHouses = t
        BY <1>1, <1>3, <2>2, <2>4
      <4> HIDE DEF sum, t
      <4>2. sum % NumberOfHouses = t
        BY <1>1, <4>1, ModOnce
      <4> QED BY <4>2 DEF sum
    <3> QED BY <1>1, <1>3, <2>1, <3>2, <3>3, <3>4 DEF PitAt
  <2> QED BY <1>1, <1>3, <2>3, <2>4
<1>5. CASE r < Lap - 1
  <2>1. i + 1 = q * Lap + (r + 1) /\ r + 1 \in 0 .. Lap - 1
    BY <1>1, <1>2, <1>5
  <2>2. Laps(i + 1) = q /\ (i + 1) % Lap = r + 1
    <3>1. /\ (q * Lap + (r + 1)) \div Lap = q
          /\ (q * Lap + (r + 1)) % Lap = r + 1
      BY <1>1, <1>2, <2>1, DivUnique
    <3> QED BY <2>1, <3>1 DEF Laps
  <2>3. PitAt(i + 1, q, player) = (first + (r + 1)) % NumberOfHouses
    BY <1>1, <1>2, <1>4, <2>1
  <2>4. (first + (r + 1)) % NumberOfHouses # Kalaha(Opponent(player))
    <3> DEFINE sum == first + (r + 1)
    <3>1. sum \in 0 .. 2 * NumberOfHouses - 1
      BY <1>1, <1>3, <2>1
    <3>2. sum % NumberOfHouses
            = IF sum < NumberOfHouses THEN sum ELSE sum - NumberOfHouses
      BY <1>1, <3>1, ModOnce
    <3> QED BY <1>1, <1>3, <2>1, <3>2
  <2> QED BY <1>2, <2>2, <2>3, <2>4 DEF q, first
<1>6. CASE r = Lap - 1
  <2>1. i + 1 = (q + 1) * Lap + 0 /\ 0 \in 0 .. Lap - 1 /\ q + 1 \in Nat
    BY <1>1, <1>2, <1>6
  <2>2. Laps(i + 1) = q + 1 /\ (i + 1) % Lap = 0
    BY <1>1, <2>1, DivUnique DEF Laps
  <2>3. PitAt(i + 1, q, player) = (first + Lap) % NumberOfHouses
    <3>1. i + 1 = Lap * q + Lap /\ Lap \in 0 .. NumberOfHouses - 1
      BY <1>1, <1>2, <1>6
    <3> QED BY <1>1, <1>2, <1>4, <3>1
  <2>4. (first + Lap) % NumberOfHouses = Kalaha(Opponent(player))
    <3> DEFINE sum == first + Lap
    <3>1. sum \in 0 .. 2 * NumberOfHouses - 1
      BY <1>1, <1>3
    <3>2. sum % NumberOfHouses
            = IF sum < NumberOfHouses THEN sum ELSE sum - NumberOfHouses
      BY <1>1, <3>1, ModOnce
    <3> QED BY <1>1, <1>3, <3>2
  <2>5. PitAt(i + 1, q + 1, player) = (first + 0) % NumberOfHouses
    <3>1. i + 1 = Lap * (q + 1) + 0 /\ 0 \in 0 .. NumberOfHouses - 1
      BY <1>1, <1>2, <1>6
    <3> QED BY <1>1, <1>2, <1>4, <2>1, <3>1
  <2> QED BY <1>2, <2>2, <2>3, <2>4, <2>5 DEF q, first
<1> QED BY <1>1, <1>2, <1>5, <1>6

-----------------------------------------------------------------------------
(* A call that is under way: what it has sown of the pit, how often it has *)
(* skipped the opponent's kalaha, and whether it has ended in its own.     *)

Sowing(c) ==
  LET n == houses[Pit(c.player, c.pit)]
      k == c.i - c.pit - 1
  IN  /\ ~ gameEnded /\ playerToAct = c.player
      /\ n # 0 /\ c.stonesToMove = n
      /\ k \in 0 .. n
      /\ c.skippedKalahas = Laps(c.i - 1)
      /\ array = IF k < n THEN Sown(houses, c.player, c.pit, k)
                  ELSE AfterSowing(houses, c.player, c.pit)
      /\ c.endedInKalaha
           <=> k = n /\ SowHouse(c.player, c.pit, n) = Kalaha(c.player)

LoopInv ==
  /\ LoopTypeOK
  /\ call = Idle => houses = array
  /\ call # Idle => Sowing(call)

LEMMA Calls ==
  /\ Idle.pc = "idle" /\ Idle \notin InCall
  /\ \A c \in InCall : c.pc = "loop"
BY DEF Idle, InCall

LEMMA InitIdle == LoopInit => LoopInv
<1> SUFFICES ASSUME LoopInit PROVE LoopInv
  OBVIOUS
<1>1. InitHouses(InitStones) \in [Houses -> Nat]
  BY StonesAssumption, InitHousesStones
<1>2. LoopTypeOK
  BY <1>1 DEF LoopInit, Init, LoopTypeOK, TypeOK
<1> QED BY <1>2 DEF LoopInit, LoopInv

(* The pit is emptied, nothing is sown.                                    *)
LEMMA EnterStep ==
  ASSUME LoopInv, NEW pit \in LocalPits, NEW player \in Players,
         Enter(pit, player)
  PROVE  LoopInv'
<1> DEFINE n == array[Pit(player, pit)]
<1>1. /\ array \in [Houses -> Nat] /\ houses' = array /\ call = Idle
      /\ playerToAct = player /\ ~ gameEnded /\ UNCHANGED fields
      /\ Pit(player, pit) \in Houses /\ n \in Nat \ {0} /\ pit \in Nat
      /\ pit < Lap /\ Lap \in Nat \ {0}
  BY PitType, PitsAssumption
     DEF LoopInv, LoopTypeOK, TypeOK, Enter, Legal, LocalPits, Lap
<1>2. /\ call' = [pc |-> "loop", player |-> player, pit |-> pit,
                  stonesToMove |-> n, i |-> pit + 1, skippedKalahas |-> 0,
                  endedInKalaha |-> FALSE]
      /\ array' = [array EXCEPT ![Pit(player, pit)] = 0]
  BY DEF Enter
<1>3. call' \in InCall /\ call' # Idle
  BY <1>1, <1>2, Calls DEF InCall
<1>4. LoopTypeOK'
  BY <1>1, <1>2, <1>3 DEF LoopInv, LoopTypeOK, TypeOK, fields
<1>5. Laps(pit) = 0
  <2>1. (0 * Lap + pit) \div Lap = 0
    BY <1>1, DivUnique
  <2> QED BY <1>1, <2>1 DEF Laps
<1>6. Sown(array, player, pit, 0) = array'
  BY <1>1, <1>2, SownNone
<1> HIDE DEF n
<1>7. Sowing(call)'
  <2>1. /\ call'.player = player /\ call'.pit = pit /\ call'.stonesToMove = n
        /\ call'.i = pit + 1 /\ call'.skippedKalahas = 0
        /\ call'.endedInKalaha = FALSE
    BY <1>2
  <2>2. call'.i - call'.pit - 1 = 0 /\ call'.i - 1 = pit
    BY <1>1, <2>1
  <2>3. houses'[Pit(call'.player, call'.pit)] = n
    BY <1>1, <2>1 DEF n
  <2> QED BY <1>1, <1>5, <1>6, <2>1, <2>2, <2>3 DEF Sowing, fields
<1> QED BY <1>3, <1>4, <1>7 DEF LoopInv

(* One stone more.                                                         *)
LEMMA SowStoneStep ==
  ASSUME LoopInv, SowStone
  PROVE  LoopInv'
<1> DEFINE p == call.player
           pit == call.pit
           n == houses[Pit(p, pit)]
           k == call.i - pit - 1
           current == PitAt(call.i, Skipped(call), p)
<1>1. /\ call \in InCall /\ call # Idle /\ Sowing(call)
      /\ houses \in [Houses -> Nat] /\ array \in [Houses -> Nat]
  BY Calls DEF LoopInv, LoopTypeOK, TypeOK, SowStone
<1>2. /\ p \in Players /\ pit \in LocalPits /\ pit \in Nat
      /\ call.i \in Nat /\ call.skippedKalahas \in Nat
      /\ call.endedInKalaha \in BOOLEAN /\ call.stonesToMove \in Nat \ {0}
  BY <1>1, PitsAssumption DEF InCall, LocalPits
<1>3. /\ n \in Nat \ {0} /\ call.stonesToMove = n /\ k \in 0 .. n - 1
      /\ call.i = pit + (k + 1) /\ call.i - 1 \in Nat
  <2>1. Pit(p, pit) \in Houses
    BY <1>2, PitType
  <2>2. /\ n # 0 /\ call.stonesToMove = n /\ k \in 0 .. n
        /\ call.i < pit + call.stonesToMove + 1
    BY <1>1 DEF Sowing, SowStone
  <2>3. n \in Nat
    BY <1>1, <2>1
  <2> HIDE DEF n, p, pit
  <2> QED BY <1>2, <2>2, <2>3
<1>4. /\ Skipped(call) = Laps(call.i)
      /\ Laps(call.i) \in Nat
      /\ current = SowHouse(p, pit, k + 1)
  <2> DEFINE j == call.i - 1
  <2>1. j \in Nat /\ j + 1 = call.i /\ call.skippedKalahas = Laps(j)
    BY <1>1, <1>2, <1>3 DEF Sowing
  <2>2. /\ Laps(j + 1)
             = Laps(j) + IF PitAt(j + 1, Laps(j), p) = Kalaha(Opponent(p))
                         THEN 1 ELSE 0
        /\ PitAt(j + 1, Laps(j + 1), p)
             = (FirstPit(p) + ((j + 1) % Lap)) % NumberOfHouses
    BY <1>2, <2>1, CountersFollow
  <2>3. Laps(j + 1) \in Nat
    BY <1>2, <2>1, CountersFollow
  <2> HIDE DEF j
  <2>4. Skipped(call) = Laps(call.i)
    BY <2>1, <2>2 DEF Skipped, SkipsKalaha
  <2> HIDE DEF k
  <2>5. current = (FirstPit(p) + ((pit + (k + 1)) % Lap)) % NumberOfHouses
    BY <1>3, <2>1, <2>2, <2>4
  <2> QED BY <2>1, <2>3, <2>4, <2>5 DEF SowHouse
<1>5. /\ call' = [call EXCEPT
                    !.i = @ + 1, !.skippedKalahas = Skipped(call),
                    !.endedInKalaha =
                       @ \/ (k + 1 = n /\ current = Kalaha(p))]
      /\ array' = IF k + 1 = n THEN DropLast(array, p, current)
                   ELSE [array EXCEPT ![current] = @ + 1]
      /\ UNCHANGED <<fields, houses>>
  <2>1. call.i = pit + call.stonesToMove <=> k + 1 = n
    <3> HIDE DEF n, k, pit
    <3> QED BY <1>2, <1>3
  <2> QED BY <2>1 DEF SowStone
<1>6. current \in Houses
  BY <1>2, <1>3, <1>4, SowHouseType
<1>7. array = Sown(houses, p, pit, k)
  <2>1. k < n
    <3> HIDE DEF n, k
    <3> QED BY <1>3
  <2> QED BY <1>1, <2>1 DEF Sowing
<1>8. ~ call.endedInKalaha
  <2>1. k # n
    <3> HIDE DEF n, k
    <3> QED BY <1>3
  <2> QED BY <1>1, <2>1 DEF Sowing
<1>9. call' \in InCall
  <2>1. Skipped(call) \in Nat
    BY <1>4
  <2> DEFINE ended == call.endedInKalaha \/ (k + 1 = n /\ current = Kalaha(p))
             next == call.i + 1
  <2>2. ended \in BOOLEAN /\ next \in Nat
    BY <1>2
  <2>3. call' = [call EXCEPT !.i = next, !.skippedKalahas = Skipped(call),
                             !.endedInKalaha = ended]
    BY <1>5
  <2> HIDE DEF ended, next
  <2> QED BY <1>1, <2>1, <2>2, <2>3 DEF InCall
<1> HIDE DEF k, n, p, pit, current
<1>10. /\ call'.player = p /\ call'.pit = pit
       /\ call'.stonesToMove = n /\ call'.i = call.i + 1
       /\ call'.skippedKalahas = Laps(call.i)
       /\ (call'.endedInKalaha <=> k + 1 = n /\ current = Kalaha(p))
  BY <1>1, <1>3, <1>4, <1>5, <1>8 DEF InCall, p, pit
<1>11. array' = IF k + 1 < n THEN Sown(houses, p, pit, k + 1)
                 ELSE AfterSowing(houses, p, pit)
  <2>1. CASE k + 1 < n
    <3>1. Sown(houses, p, pit, k + 1)
            = [Sown(houses, p, pit, k)
                 EXCEPT ![SowHouse(p, pit, k + 1)] = @ + 1]
      BY <1>1, <1>2, <1>3, SownOneMore
    <3> QED BY <1>3, <1>4, <1>5, <1>7, <2>1, <3>1
  <2>2. CASE k + 1 = n
    <3>1. n - 1 = k
      BY <1>3, <2>2
    <3> QED BY <1>3, <1>4, <1>5, <1>7, <2>2, <3>1 DEF AfterSowing, n
  <2> QED BY <1>3, <2>1, <2>2
<1>12. array' \in [Houses -> Nat]
  <2>1. DropLast(array, p, current) \in [Houses -> Nat]
    BY <1>1, <1>2, <1>6, DropLastConserves
  <2>2. [array EXCEPT ![current] = @ + 1] \in [Houses -> Nat]
    BY <1>1, <1>6
  <2> QED BY <1>5, <2>1, <2>2
<1>13. LoopTypeOK'
  BY <1>5, <1>9, <1>12 DEF LoopInv, LoopTypeOK, TypeOK, fields
<1>14. Sowing(call)'
  <2>1. /\ call'.i - call'.pit - 1 = k + 1 /\ call'.i - 1 = call.i
        /\ k + 1 \in 0 .. n
    BY <1>2, <1>3, <1>10
  <2>2. houses' = houses /\ n = houses'[Pit(call'.player, call'.pit)]
    BY <1>5, <1>10 DEF n
  <2>3. ~ gameEnded' /\ playerToAct' = p
    BY <1>1, <1>5 DEF Sowing, fields, p
  <2>4. k + 1 = n => current = SowHouse(p, pit, n)
    BY <1>4
  <2> QED BY <1>3, <1>10, <1>11, <2>1, <2>2, <2>3, <2>4 DEF Sowing
<1> QED BY <1>9, <1>13, <1>14, Calls DEF LoopInv

(* The loop is over: what is left of moveStones makes it the move.         *)
LEMMA LeaveMoves ==
  ASSUME LoopInv, Leave
  PROVE  LET p == call.player
             pit == call.pit
         IN  /\ p \in Players /\ pit \in LocalPits
             /\ ~ gameEnded /\ playerToAct = p /\ houses[Pit(p, pit)] # 0
             /\ houses \in [Houses -> Nat]
             /\ array' = AfterMove(houses, p, pit)
             /\ houses' = array'
             /\ playerToAct' = NextPlayer(houses, p, pit)
             /\ gameEnded' = EndsGame(houses, p, pit)
             /\ call' = Idle
<1> DEFINE p == call.player
           pit == call.pit
           n == houses[Pit(p, pit)]
<1>1. call \in InCall /\ Sowing(call) /\ houses \in [Houses -> Nat]
  BY Calls DEF LoopInv, LoopTypeOK, TypeOK, Leave
<1>2. p \in Players /\ pit \in LocalPits /\ pit \in Nat /\ call.i \in Nat
  BY <1>1, PitsAssumption DEF InCall, LocalPits
<1>3. call.i - call.pit - 1 = n
  <2>1. /\ call.i = pit + call.stonesToMove + 1 /\ call.stonesToMove = n
        /\ call.stonesToMove \in Nat
    BY <1>1 DEF Leave, Sowing, InCall
  <2> HIDE DEF n
  <2> QED BY <1>2, <2>1
<1>4. /\ array = AfterSowing(houses, p, pit)
      /\ call.endedInKalaha <=> SowHouse(p, pit, n) = Kalaha(p)
      /\ ~ gameEnded /\ playerToAct = p /\ n # 0
  <2>1. ~ n < n
    <3>1. n \in Nat
      BY <1>1, <1>2, PitType
    <3> QED BY <3>1
  <2> QED BY <1>1, <1>3, <2>1 DEF Sowing
<1>5. ToActNext(call) = NextPlayer(houses, p, pit)
  BY <1>4 DEF ToActNext, NextPlayer
<1>6. /\ playerToAct' = NextPlayer(houses, p, pit)
      /\ gameEnded' = EndsGame(houses, p, pit)
      /\ array' = AfterMove(houses, p, pit)
      /\ call' = Idle /\ houses' = array'
  BY <1>4, <1>5 DEF Leave, EndsGame, AfterMove
<1> QED BY <1>1, <1>2, <1>4, <1>6

LEMMA LeaveStep ==
  ASSUME LoopInv, Leave
  PROVE  LoopInv'
<1> DEFINE p == call.player
           pit == call.pit
<1>1. /\ p \in Players /\ pit \in LocalPits /\ houses[Pit(p, pit)] # 0
      /\ houses \in [Houses -> Nat]
      /\ array' = AfterMove(houses, p, pit) /\ houses' = array'
      /\ playerToAct' = NextPlayer(houses, p, pit)
      /\ gameEnded' = EndsGame(houses, p, pit) /\ call' = Idle
  BY LeaveMoves
<1> HIDE DEF p, pit
<1>2. /\ AfterMove(houses, p, pit) \in [Houses -> Nat]
      /\ NextPlayer(houses, p, pit) \in Players
      /\ EndsGame(houses, p, pit) \in BOOLEAN
  BY <1>1, AfterMoveType
<1> QED BY <1>1, <1>2 DEF LoopInv, LoopTypeOK, TypeOK

LEMMA IInvStep == LoopInv /\ [LoopNext]_loopVars => LoopInv'
<1> SUFFICES ASSUME LoopInv, [LoopNext]_loopVars PROVE LoopInv'
  OBVIOUS
<1>1. ASSUME NEW pit \in LocalPits, NEW player \in Players,
             Enter(pit, player)
      PROVE  LoopInv'
  BY <1>1, EnterStep
<1>2. CASE SowStone
  BY <1>2, SowStoneStep
<1>3. CASE Leave
  BY <1>3, LeaveStep
<1>4. CASE UNCHANGED loopVars
  BY <1>4 DEF loopVars, vars, LoopInv, LoopTypeOK, TypeOK, Sowing
<1> QED BY <1>1, <1>2, <1>3, <1>4 DEF LoopNext

LEMMA IInvHolds == LoopSpec => []LoopInv
BY InitIdle, IInvStep, PTL DEF LoopSpec

(* The locals of moveStones and the board keep their types.                *)
THEOREM LoopTypeCorrect == LoopSpec => []LoopTypeOK
<1>1. LoopInv => LoopTypeOK
  BY DEF LoopInv
<1> QED BY <1>1, IInvHolds, PTL

(* The turns of the loop lay the stones where the formula says.            *)
THEOREM LoopFollowsTheFormula == LoopSpec => []SowsByTheFormula
<1>1. LoopInv => SowsByTheFormula
  <2> SUFFICES ASSUME LoopInv, call # Idle, StonesInHand > 0
               PROVE  array = Sown(houses, call.player, call.pit,
                                    call.i - call.pit - 1)
    BY DEF SowsByTheFormula
  <2> DEFINE n == houses[Pit(call.player, call.pit)]
             k == call.i - call.pit - 1
  <2>1. call \in InCall /\ Sowing(call)
    BY DEF LoopInv, LoopTypeOK, TypeOK
  <2>2. /\ call.pit \in Nat /\ call.i \in Nat /\ call.stonesToMove \in Nat
        /\ call.stonesToMove = n
        /\ call.stonesToMove + call.pit + 1 - call.i > 0
    BY <2>1, PitsAssumption DEF InCall, LocalPits, Sowing, StonesInHand
  <2>3. k < n
    <3> HIDE DEF n
    <3> QED BY <2>2
  <2> QED BY <2>1, <2>3 DEF Sowing
<1> QED BY <1>1, IInvHolds, PTL

-----------------------------------------------------------------------------
LEMMA StepMoves ==
  ASSUME LoopInv, [LoopNext]_loopVars
  PROVE  [Next]_vars
<1>1. ASSUME NEW pit \in LocalPits, NEW player \in Players,
             Enter(pit, player)
      PROVE  UNCHANGED vars
  BY <1>1 DEF Enter, LoopInv, fields, vars
<1>2. CASE SowStone
  BY <1>2 DEF SowStone, fields, vars
<1>3. CASE Leave
  <2> DEFINE p == call.player
             pit == call.pit
  <2>1. /\ p \in Players /\ pit \in LocalPits
        /\ ~ gameEnded /\ playerToAct = p /\ houses[Pit(p, pit)] # 0
        /\ houses' = AfterMove(houses, p, pit)
        /\ playerToAct' = NextPlayer(houses, p, pit)
        /\ gameEnded' = EndsGame(houses, p, pit)
    BY <1>3, LeaveMoves
  <2> HIDE DEF p, pit
  <2>2. MoveStones(pit, p)
    BY <2>1 DEF MoveStones
  <2> QED BY <2>1, <2>2 DEF Next
<1>4. CASE UNCHANGED loopVars
  BY <1>4 DEF loopVars
<1> QED BY <1>1, <1>2, <1>3, <1>4 DEF LoopNext

(* A call of moveStones that is over has made the move of KalahaBoard, and *)
(* no board in between is ever another board of the game: what             *)
(* ImplementsMoveStones says, but for its fairness.                        *)
THEOREM LoopMovesStones == LoopSpec => Spec
<1>1. LoopInit => Init
  BY DEF LoopInit
<1>2. LoopInv /\ [LoopNext]_loopVars => [Next]_vars
  BY StepMoves
<1> QED BY <1>1, <1>2, IInvHolds, PTL DEF LoopSpec, Spec

=============================================================================
