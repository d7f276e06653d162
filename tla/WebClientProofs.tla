---------------------------- MODULE WebClientProofs ----------------------------
(***************************************************************************)
(* Proofs about WebClient, for boards of any size, any number of pages and *)
(* by the rules the page plays by (ThePagesRules).  In order:              *)
(*                                                                         *)
(*   the pits of the page as houses of the table: a sowing of the page of  *)
(*   less than a lap lays its stones where one of the table does;          *)
(*   PageMoves: with the steal and the turn, a move of the page that does  *)
(*   not end the game is the table's;                                      *)
(*   Boards: the boards of a game, among them why the steal of the page,   *)
(*   which takes the home pit for one of its own, does not show;           *)
(*   Leads: the boards that a sequence of messages leads to;               *)
(*   TypeCorrect, with what each action does;                              *)
(*   InPlay: the moves on their way lead from the board of the page to     *)
(*   that of the table, or from that of the table to that of the page;     *)
(*   EndWaits: what is left to be told when the game has ended;            *)
(*   IInv, the inductive invariant of both, and the theorems.              *)
(***************************************************************************)
EXTENDS WebClient, KalahaRulesProofs, SequenceTheorems

-----------------------------------------------------------------------------
(* The pits of the page.                                                   *)

(* The house that the page of p shows as a pit, and the side on which it   *)
(* shows the pits of m.                                                    *)
HouseOf(p, id) ==
  IF id <= NUMBER_OF_PITS + 1
  THEN FirstPit(Opponent(p)) + NUMBER_OF_PITS + 1 - id
  ELSE FirstPit(p) + id - OwnFirst

SideOf(p, m) == IF m = p THEN 2 ELSE 1

(* The L-th pit of the way round from the first pit of a side.             *)
PitOnWay(side, L) ==
  IF side = 2
  THEN IF L <= NUMBER_OF_PITS THEN OwnFirst + L ELSE NumberOfHouses - L
  ELSE IF L <= NUMBER_OF_PITS THEN OwnFirst - 1 - L ELSE L + 1

LEMMA FirstPits ==
  ASSUME NEW p \in Players
  PROVE  /\ NUMBER_OF_PITS \in Nat \ {0}
         /\ Opponent(p) \in Players /\ Opponent(p) # p
         /\ \A m \in Players : m = p \/ m = Opponent(p)
         /\ \/ FirstPit(p) = 0 /\ FirstPit(Opponent(p)) = NUMBER_OF_PITS + 1
            \/ FirstPit(p) = NUMBER_OF_PITS + 1 /\ FirstPit(Opponent(p)) = 0
BY PitsAssumption DEF FirstPit, Opponent, Players, SOUTH, NORTH

LEMMA ShownHouses ==
  ASSUME NEW p \in Players, NEW houses0
  PROVE  /\ GameState(p, houses0) = [id \in Ids |-> houses0[HouseOf(p, id)]]
         /\ \A id \in Ids : HouseOf(p, id) \in Houses
         /\ \A i, id \in Ids : HouseOf(p, i) = HouseOf(p, id) => i = id
<1>1. /\ NUMBER_OF_PITS \in Nat \ {0} /\ NumberOfHouses = 2 * NUMBER_OF_PITS + 2
      /\ OwnFirst = NUMBER_OF_PITS + 2
      /\ Ids = 1 .. NumberOfHouses /\ Houses = 0 .. NumberOfHouses - 1
      /\ HomePit(1) = 1 /\ HomePit(2) = NumberOfHouses
      /\ SidePits(2) = OwnFirst .. NumberOfHouses - 1
      /\ {HomePit(s) : s \in Sides} = {1, NumberOfHouses}
  BY PitsAssumption
     DEF NumberOfHouses, OwnFirst, Ids, Houses, HomePit, SidePits, Sides
<1>2. \/ FirstPit(p) = 0 /\ FirstPit(Opponent(p)) = NUMBER_OF_PITS + 1
      \/ FirstPit(p) = NUMBER_OF_PITS + 1 /\ FirstPit(Opponent(p)) = 0
  BY FirstPits
<1>3. \A q : Kalaha(q) = FirstPit(q) + NUMBER_OF_PITS
  BY DEF Kalaha
<1>4. \A q, k : Pit(q, k) = FirstPit(q) + k
  BY DEF Pit
<1> DEFINE homes == {HomePit(s) : s \in Sides}
           shown(id) == IF id \in homes
                        THEN Kalaha(IF id = HomePit(2) THEN p ELSE Opponent(p))
                        ELSE IF id \in SidePits(2) THEN Pit(p, LocalOf(id))
                        ELSE Pit(Opponent(p), OwnFirst - 1 - id)
<1>5. ASSUME NEW id \in Ids
      PROVE  shown(id) = HouseOf(p, id)
  <2>1. id \in homes <=> id = 1 \/ id = NumberOfHouses
    BY <1>1
  <2> HIDE DEF homes
  <2>2. CASE id = 1
    <3>1. shown(id) = FirstPit(Opponent(p)) + NUMBER_OF_PITS
      BY <2>1, <2>2, <1>1, <1>3
    <3> QED BY <3>1, <2>2, <1>1, <1>2 DEF HouseOf
  <2>3. CASE id = NumberOfHouses
    <3>1. shown(id) = FirstPit(p) + NUMBER_OF_PITS
      BY <2>1, <2>3, <1>1, <1>3
    <3> QED BY <3>1, <2>3, <1>1, <1>2 DEF HouseOf
  <2>4. CASE id \in 2 .. OwnFirst - 1
    <3>1. id \notin homes /\ id \notin SidePits(2)
      BY <2>1, <2>4, <1>1
    <3>2. shown(id) = FirstPit(Opponent(p)) + (OwnFirst - 1 - id)
      BY <3>1, <1>4
    <3> QED BY <3>2, <2>4, <1>1, <1>2 DEF HouseOf
  <2>5. CASE id \in OwnFirst .. NumberOfHouses - 1
    <3>1. id \notin homes /\ id \in SidePits(2)
      BY <2>1, <2>5, <1>1
    <3>2. shown(id) = FirstPit(p) + (id - OwnFirst)
      BY <3>1, <1>4 DEF LocalOf
    <3> QED BY <3>2, <2>5, <1>1, <1>2 DEF HouseOf
  <2> QED BY <2>2, <2>3, <2>4, <2>5, <1>1
<1>6. \A id \in Ids : HouseOf(p, id) \in Houses
  BY <1>1, <1>2 DEF HouseOf
<1>7. ASSUME NEW i \in Ids, NEW id \in Ids, HouseOf(p, i) = HouseOf(p, id)
      PROVE  i = id
  <2> DEFINE P == NUMBER_OF_PITS
             own == FirstPit(p)
             other == FirstPit(Opponent(p))
  <2>1. /\ P \in Nat /\ own \in Int /\ other \in Int
        /\ i \in 1 .. 2 * P + 2 /\ id \in 1 .. 2 * P + 2
        /\ (own = 0 /\ other = P + 1) \/ (own = P + 1 /\ other = 0)
    BY <1>1, <1>2
  <2>2. (IF i <= P + 1 THEN other + P + 1 - i ELSE own + i - (P + 2))
          = (IF id <= P + 1 THEN other + P + 1 - id ELSE own + id - (P + 2))
    BY <1>1, <1>7 DEF HouseOf
  <2> HIDE DEF P, own, other
  <2> QED BY ONLY <2>1, <2>2
<1> QED BY <1>5, <1>6, <1>7 DEF GameState

(* The k-th place from a place of the lap.                                  *)
OnLap(L, k) == (L + k) % Lap

LEMMA LapPlaces ==
  ASSUME NEW L \in 0 .. Lap - 1, NEW k \in 0 .. Lap - 1
  PROVE  OnLap(L, k) = IF L + k < Lap THEN L + k ELSE L + k - Lap
<1>1. Lap \in Nat \ {0}
  BY PitsAssumption DEF Lap
<1> DEFINE sum == L + k
<1>2. sum \in 0 .. 2 * Lap - 1
  BY <1>1
<1> HIDE DEF sum
<1>3. sum % Lap = IF sum < Lap THEN sum ELSE sum - Lap
  BY <1>1, <1>2, ModOnce
<1> QED BY <1>1, <1>3 DEF sum, OnLap

LEMMA LapRemainders ==
  /\ \A k \in Nat : k % Lap \in 0 .. Lap - 1
  /\ \A d \in 0 .. Lap - 1 : d % Lap = d
<1>1. Lap \in Nat \ {0}
  BY PitsAssumption DEF Lap
<1>2. \A k \in Nat : k % Lap \in 0 .. Lap - 1
  BY <1>1, ModRange
<1>3. \A d \in 0 .. Lap - 1 : d \in 0 .. 2 * Lap - 1 /\ d < Lap
  BY <1>1
<1>4. \A d \in 0 .. Lap - 1 : d % Lap = d
  BY <1>1, <1>3, ModOnce
<1> QED BY <1>2, <1>4

(* The way of the page goes on as the page goes on from pit to pit.        *)
LEMMA NextOnWay ==
  ASSUME NEW side \in Sides, NEW L \in 0 .. Lap - 1
  PROVE  /\ PitOnWay(side, L) \in Ids
         /\ PitOnWay(side, L) # NonActiveHomePitId(side)
         /\ LET next == NextPitId(PitOnWay(side, L))
                skipId == NonActiveHomePitId(side)
            IN  (IF next = skipId THEN NextPitId(skipId) ELSE next)
                  = PitOnWay(side, IF L = Lap - 1 THEN 0 ELSE L + 1)
<1>1. /\ NUMBER_OF_PITS \in Nat \ {0} /\ NumberOfHouses = 2 * NUMBER_OF_PITS + 2
      /\ OwnFirst = NUMBER_OF_PITS + 2 /\ Lap = 2 * NUMBER_OF_PITS + 1
      /\ Ids = 1 .. NumberOfHouses
      /\ HomePit(1) = 1 /\ HomePit(2) = NumberOfHouses
  BY PitsAssumption DEF NumberOfHouses, OwnFirst, Ids, HomePit, Lap
<1>2. CASE side = 2
  <2>1. NonActiveHomePitId(2) = 1
    BY <1>1 DEF NonActiveHomePitId
  <2>2. PitOnWay(2, L) \in Ids /\ PitOnWay(2, L) # 1
    BY <1>1 DEF PitOnWay
  <2>3. LET next == NextPitId(PitOnWay(2, L))
        IN  (IF next = 1 THEN NextPitId(1) ELSE next)
              = PitOnWay(2, IF L = Lap - 1 THEN 0 ELSE L + 1)
    BY <1>1 DEF NextPitId, PitOnWay
  <2> QED BY <1>2, <2>1, <2>2, <2>3
<1>3. CASE side = 1
  <2>1. NonActiveHomePitId(1) = NumberOfHouses
    BY <1>1 DEF NonActiveHomePitId
  <2>2. PitOnWay(1, L) \in Ids /\ PitOnWay(1, L) # NumberOfHouses
    BY <1>1 DEF PitOnWay
  <2>3. LET next == NextPitId(PitOnWay(1, L))
        IN  (IF next = NumberOfHouses THEN NextPitId(NumberOfHouses) ELSE next)
              = PitOnWay(1, IF L = Lap - 1 THEN 0 ELSE L + 1)
    BY <1>1 DEF NextPitId, PitOnWay
  <2> QED BY <1>3, <2>1, <2>2, <2>3
<1> QED BY <1>2, <1>3 DEF Sides

(* Where the way of m is on the board.                                     *)
LEMMA HouseOnWay ==
  ASSUME NEW p \in Players, NEW m \in Players, NEW L \in 0 .. Lap - 1
  PROVE  HouseOf(p, PitOnWay(SideOf(p, m), L)) = (FirstPit(m) + L) % NumberOfHouses
<1>1. /\ NUMBER_OF_PITS \in Nat \ {0} /\ NumberOfHouses = 2 * NUMBER_OF_PITS + 2
      /\ OwnFirst = NUMBER_OF_PITS + 2 /\ Lap = 2 * NUMBER_OF_PITS + 1
  BY PitsAssumption DEF NumberOfHouses, OwnFirst, Lap
<1>2. /\ \/ FirstPit(p) = 0 /\ FirstPit(Opponent(p)) = NUMBER_OF_PITS + 1
         \/ FirstPit(p) = NUMBER_OF_PITS + 1 /\ FirstPit(Opponent(p)) = 0
      /\ m = p \/ m = Opponent(p)
  BY FirstPits
<1>3. (FirstPit(m) + L) % NumberOfHouses
        = IF FirstPit(m) + L < NumberOfHouses THEN FirstPit(m) + L
          ELSE FirstPit(m) + L - NumberOfHouses
  <2> DEFINE sum == FirstPit(m) + L
  <2>1. sum \in 0 .. 2 * NumberOfHouses - 1 /\ NumberOfHouses \in Nat \ {0}
    BY <1>1, <1>2
  <2> HIDE DEF sum
  <2>2. sum % NumberOfHouses
          = IF sum < NumberOfHouses THEN sum ELSE sum - NumberOfHouses
    BY <2>1, ModOnce
  <2>3. FirstPit(m) \in Nat /\ L \in Nat
    BY <1>1, <1>2
  <2> QED BY <1>1, <2>2, <2>3 DEF sum
<1>4. CASE m = p
  <2>1. SideOf(p, m) = 2
    BY <1>4 DEF SideOf
  <2>2. PitOnWay(2, L) = IF L <= NUMBER_OF_PITS THEN OwnFirst + L
                         ELSE NumberOfHouses - L
    BY DEF PitOnWay
  <2> QED BY <1>1, <1>2, <1>3, <1>4, <2>1, <2>2 DEF HouseOf
<1>5. CASE m # p
  <2>1. SideOf(p, m) = 1
    BY <1>5 DEF SideOf
  <2>2. PitOnWay(1, L) = IF L <= NUMBER_OF_PITS THEN OwnFirst - 1 - L ELSE L + 1
    BY DEF PitOnWay
  <2>3. m = Opponent(p)
    BY <1>2, <1>5
  <2>4. \/ FirstPit(p) = 0 /\ FirstPit(m) = NUMBER_OF_PITS + 1
        \/ FirstPit(p) = NUMBER_OF_PITS + 1 /\ FirstPit(m) = 0
    BY <1>2, <2>3
  <2>5. HouseOf(p, PitOnWay(1, L))
          = IF L <= NUMBER_OF_PITS THEN FirstPit(m) + L
            ELSE FirstPit(p) + L - NUMBER_OF_PITS - 1
    BY <1>1, <2>2, <2>3, <2>4 DEF HouseOf
  <2> QED BY <1>1, <1>3, <2>1, <2>4, <2>5
<1> QED BY <1>4, <1>5

(* Going on from pit to pit the page follows the way.                      *)
LEMMA PitsOfTheWay ==
  ASSUME NEW side \in Sides, NEW L \in 0 .. Lap - 1
  PROVE  \A d \in 0 .. Lap - 1 :
           PitIdForDistance[side][PitOnWay(side, L)][d] = PitOnWay(side, OnLap(L, d))
<1> DEFINE id == PitOnWay(side, L)
           skipId == NonActiveHomePitId(side)
           next == [i \in Ids |-> IF NextPitId(i) = skipId THEN NextPitId(skipId)
                                  ELSE NextPitId(i)]
           N == Lap - 1
           way == [d \in 0 .. N |-> PitOnWay(side, OnLap(L, d))]
           F(f) == [d \in 0 .. N |-> IF d = 0 THEN id ELSE next[f[d - 1]]]
           pitAt == PitsFrom(side, id)
<1>1. N \in Nat /\ N = Lap - 1 /\ Lap \in Nat
  BY PitsAssumption DEF Lap
<1>2. way[0] = id
  <2>1. OnLap(L, 0) = L
    BY <1>1, LapPlaces
  <2> QED BY <2>1, <1>1
<1>3. ASSUME NEW d \in 1 .. N
      PROVE  way[d] = next[way[d - 1]]
  <2> DEFINE K == OnLap(L, d - 1)
  <2>1. d - 1 \in 0 .. Lap - 1 /\ d \in 0 .. Lap - 1
    BY <1>1
  <2>2. /\ K \in 0 .. Lap - 1
        /\ OnLap(L, d) = IF K = Lap - 1 THEN 0 ELSE K + 1
    BY <1>1, <2>1, LapPlaces
  <2>3. way[d] = PitOnWay(side, OnLap(L, d)) /\ way[d - 1] = PitOnWay(side, K)
    BY <1>1, <2>1
  <2> HIDE DEF K, way
  <2>4. next[PitOnWay(side, K)] = PitOnWay(side, IF K = Lap - 1 THEN 0 ELSE K + 1)
    BY <2>2, NextOnWay
  <2> QED BY <2>2, <2>3, <2>4
<1> HIDE DEF next
<1>4. way = F(way)
  BY <1>1, <1>2, <1>3
<1>5. pitAt = CHOOSE f : f = F(f)
  BY DEF PitsFrom, next, N
<1>6. pitAt = F(pitAt)
  BY <1>4, <1>5
<1> HIDE DEF pitAt, way, N, id
<1>7. pitAt[0] = id /\ \A d \in 1 .. N : pitAt[d] = next[pitAt[d - 1]]
  BY <1>1, <1>6
<1> DEFINE T == {d \in 0 .. N : pitAt[d] = way[d]}
<1>8. 0 \in T
  BY <1>1, <1>2, <1>7
<1>9. ASSUME NEW d \in 0 .. N - 1, d \in T
      PROVE  d + 1 \in T
  <2>1. d + 1 \in 1 .. N /\ (d + 1) - 1 = d
    BY <1>1
  <2> QED BY <1>1, <1>3, <1>7, <1>9, <2>1
<1>10. 0 .. N \subseteq T
  <2> HIDE DEF T
  <2> QED BY <1>1, <1>8, <1>9, SetInduction
<1>11. id \in Ids
  BY NextOnWay DEF id
<1>12. PitIdForDistance[side][id] = pitAt
  BY <1>11 DEF PitIdForDistance, pitAt
<1> QED BY <1>10, <1>12 DEF id, way, N

-----------------------------------------------------------------------------
(* The sowing of the page.                                                 *)

LEMMA StonesLaidType ==
  ASSUME NEW n \in Nat
  PROVE  /\ StonesLaid(n) \in Nat
         /\ n < Lap => StonesLaid(n) = n
<1> DEFINE Enough(m) == n + (m \div Lap) <= m
           T == {m \in n .. 2 * n : Enough(m)}
           Laid(m) == Enough(m) /\ \A k \in n .. m - 1 : k < n + (k \div Lap)
<1>1. Lap \in Nat \ {0} /\ Lap >= 2
  BY PitsAssumption DEF Lap
<1>2. \A m \in Nat : m \div Lap \in Nat
  BY <1>1
<1>3. 2 * n \in T
  <2> DEFINE q == (2 * n) \div Lap
  <2>1. q \in Nat /\ Lap * q <= 2 * n
    BY <1>1
  <2> HIDE DEF q
  <2>2. 2 * q <= Lap * q
    BY <1>1, <2>1
  <2>3. Lap * q \in Nat
    BY <1>1, <2>1
  <2>4. n + q <= 2 * n
    <3> DEFINE z == Lap * q
    <3>1. z \in Nat /\ 2 * q <= z /\ z <= 2 * n
      BY <2>1, <2>2, <2>3
    <3> HIDE DEF z
    <3> QED BY <2>1, <3>1
  <2> QED BY <2>4 DEF q
<1>4. PICK x \in T : \A y \in T : x <= y
  <2>1. T \in SUBSET Nat
    OBVIOUS
  <2> QED BY <1>3, <2>1, LeastNat
<1>5. Laid(x)
  <2>1. ASSUME NEW k \in n .. x - 1
        PROVE  k < n + (k \div Lap)
    <3>1. k \in Nat /\ k \in n .. 2 * n /\ k < x
      OBVIOUS
    <3>2. k \notin T
      BY <3>1, <1>4
    <3>3. ~ Enough(k)
      BY <3>1, <3>2
    <3>4. k \div Lap \in Nat
      BY <1>2, <3>1
    <3> QED BY <3>1, <3>3, <3>4
  <2> QED BY <2>1
<1>6. StonesLaid(n) = CHOOSE m \in n .. 2 * n : Laid(m)
  BY DEF StonesLaid
<1>7. StonesLaid(n) \in n .. 2 * n /\ Laid(StonesLaid(n))
  <2> HIDE DEF Laid
  <2> QED BY <1>5, <1>6
<1>8. ASSUME n < Lap
      PROVE  StonesLaid(n) = n
  <2>1. n \div Lap = 0
    BY <1>1, <1>8
  <2> DEFINE m == StonesLaid(n)
  <2>2. m \in n .. 2 * n /\ \A k \in n .. m - 1 : k < n + (k \div Lap)
    BY <1>7
  <2> HIDE DEF m
  <2>3. ~ (m > n)
    <3>1. SUFFICES ASSUME m > n PROVE FALSE
      OBVIOUS
    <3>2. n \in n .. m - 1
      BY <2>2, <3>1
    <3>3. n < n + (n \div Lap)
      BY <2>2, <3>2
    <3> QED BY <2>1, <3>3
  <2> QED BY <2>2, <2>3 DEF m
<1> QED BY <1>7, <1>8

(* A sowing of the page puts stones into pits, whatever it lays.           *)
LEMMA SownPitsType ==
  ASSUME NEW pits \in [Ids -> Nat], NEW side \in Sides, NEW L \in 0 .. Lap - 1
  PROVE  LET sown == SownPits(pits, side, PitOnWay(side, L))
         IN  /\ sown.pits \in [Ids -> Nat]
             /\ sown.last \in Ids
             /\ sown.last # NonActiveHomePitId(side)
<1> DEFINE id == PitOnWay(side, L)
           laid == StonesLaid(pits[id])
           pitAt(d) == PitIdForDistance[side][id][d % Lap]
           T(i) == {d \in 1 .. laid : pitAt(d) = i}
           new == [i \in Ids |-> IF i = id THEN 0 ELSE pits[i] + Cardinality(T(i))]
<1>1. id \in Ids
  BY NextOnWay
<1>2. laid \in Nat
  BY <1>1, StonesLaidType
<1>3. pitAt(laid) \in Ids /\ pitAt(laid) # NonActiveHomePitId(side)
  <2> DEFINE d == laid % Lap
  <2>1. d \in 0 .. Lap - 1
    BY <1>2, LapRemainders
  <2> HIDE DEF d
  <2>2. OnLap(L, d) \in 0 .. Lap - 1
    BY <2>1, LapPlaces, PitsAssumption DEF Lap
  <2>3. PitIdForDistance[side][id][d] = PitOnWay(side, OnLap(L, d))
    BY <2>1, PitsOfTheWay
  <2> HIDE DEF id
  <2> QED BY <2>2, <2>3, NextOnWay DEF d
<1>4. ASSUME NEW i \in Ids
      PROVE  Cardinality(T(i)) \in Nat
  <2>1. IsFiniteSet(1 .. laid)
    BY <1>2, FS_Interval
  <2>2. T(i) \subseteq 1 .. laid
    OBVIOUS
  <2> HIDE DEF T
  <2>3. IsFiniteSet(T(i))
    BY <2>1, <2>2, FS_Subset
  <2> QED BY <2>3, FS_CardinalityType
<1>5. SownPits(pits, side, id) = [pits |-> new, last |-> pitAt(laid)]
  BY DEF SownPits
<1>6. new \in [Ids -> Nat]
  <2> HIDE DEF T, id
  <2> QED BY <1>4
<1> HIDE DEF new, pitAt, laid
<1> QED BY <1>3, <1>5, <1>6

(* A sowing of less than a lap does on the page what it does on the board. *)
LEMMA PageSows ==
  ASSUME NEW p \in Players, NEW m \in Players, NEW houses0 \in [Houses -> Nat],
         NEW pit \in LocalPits,
         houses0[Pit(m, pit)] \in 1 .. Lap - 1
  PROVE  LET n == houses0[Pit(m, pit)]
             sown == SownPits(GameState(p, houses0), SideOf(p, m),
                              PitOnWay(SideOf(p, m), pit))
         IN  /\ sown.pits = GameState(p, Sown(houses0, m, pit, n))
             /\ sown.last \in Ids
             /\ HouseOf(p, sown.last) = SowHouse(m, pit, n)
<1> DEFINE n == houses0[Pit(m, pit)]
           side == SideOf(p, m)
           id == PitOnWay(side, pit)
           pits == GameState(p, houses0)
           pitAt(d) == PitIdForDistance[side][id][d % Lap]
           new == [i \in Ids |-> IF i = id THEN 0
                     ELSE pits[i] + Cardinality({d \in 1 .. n : pitAt(d) = i})]
           T(h) == {d \in 1 .. n : SowHouse(m, pit, d) = h}
<1>1. /\ side \in Sides /\ pit \in 0 .. Lap - 1 /\ Lap \in Nat \ {0}
      /\ n \in 1 .. Lap - 1 /\ NUMBER_OF_PITS \in Nat \ {0}
  BY PitsAssumption DEF SideOf, Sides, LocalPits, Lap
<1>2. id \in Ids
  BY <1>1, NextOnWay
<1>3. HouseOf(p, id) = Pit(m, pit)
  <2> DEFINE sum == FirstPit(m) + pit
  <2>1. sum \in 0 .. NumberOfHouses - 1 /\ NumberOfHouses \in Nat \ {0}
    BY FirstPits DEF LocalPits, NumberOfHouses
  <2>2. HouseOf(p, id) = sum % NumberOfHouses
    BY <1>1, HouseOnWay
  <2>3. sum = Pit(m, pit)
    BY DEF Pit
  <2> HIDE DEF sum, id
  <2>4. sum % NumberOfHouses = sum
    BY <2>1, ModOnce
  <2> QED BY <2>2, <2>3, <2>4
<1>4. ASSUME NEW d \in 0 .. Lap - 1
      PROVE  /\ pitAt(d) \in Ids
             /\ HouseOf(p, pitAt(d)) = SowHouse(m, pit, d)
  <2> DEFINE K == OnLap(pit, d)
  <2>1. K \in 0 .. Lap - 1
    BY <1>1, LapPlaces
  <2>2. PitIdForDistance[side][id][d] = PitOnWay(side, K)
    BY <1>1, PitsOfTheWay
  <2>3. d % Lap = d
    BY LapRemainders
  <2>4. SowHouse(m, pit, d) = (FirstPit(m) + K) % NumberOfHouses
    BY DEF SowHouse, OnLap
  <2> HIDE DEF K, id
  <2>5. HouseOf(p, PitOnWay(side, K)) = (FirstPit(m) + K) % NumberOfHouses
    BY <2>1, HouseOnWay
  <2>6. PitOnWay(side, K) \in Ids
    BY <1>1, <2>1, NextOnWay
  <2>7. pitAt(d) = PitOnWay(side, K)
    BY <2>2, <2>3
  <2> QED BY <2>4, <2>5, <2>6, <2>7
<1>5. pits = [i \in Ids |-> houses0[HouseOf(p, i)]] /\ pits[id] = n
  BY <1>2, <1>3, ShownHouses
<1>6. StonesLaid(pits[id]) = n
  BY <1>1, <1>5, StonesLaidType
<1>7. SownPits(pits, side, id) = [pits |-> new, last |-> pitAt(n)]
  BY <1>6 DEF SownPits
<1>8. ASSUME NEW i \in Ids
      PROVE  new[i] = Sown(houses0, m, pit, n)[HouseOf(p, i)]
  <2>1. HouseOf(p, i) \in Houses
    BY ShownHouses
  <2>2. i = id <=> HouseOf(p, i) = Pit(m, pit)
    BY <1>2, <1>3, ShownHouses
  <2>3. ASSUME NEW d \in 1 .. n
        PROVE  pitAt(d) = i <=> SowHouse(m, pit, d) = HouseOf(p, i)
    <3>1. d \in 0 .. Lap - 1
      BY <1>1
    <3> HIDE DEF pitAt
    <3> QED BY <3>1, <1>4, ShownHouses
  <2>4. {d \in 1 .. n : pitAt(d) = i} = T(HouseOf(p, i))
    BY <2>3
  <2>5. Sown(houses0, m, pit, n)[HouseOf(p, i)]
          = (IF HouseOf(p, i) = Pit(m, pit) THEN 0 ELSE houses0[HouseOf(p, i)])
              + Cardinality(T(HouseOf(p, i)))
    BY <2>1 DEF Sown
  <2>6. pits[i] = houses0[HouseOf(p, i)]
    BY <1>5
  <2>7. CASE i = id
    <3>1. T(HouseOf(p, i)) = {}
      <4>1. SUFFICES ASSUME NEW d \in 1 .. n, SowHouse(m, pit, d) = Pit(m, pit)
                     PROVE  FALSE
        BY <2>2, <2>7
      <4>2. pitAt(d) = id
        BY <2>3, <2>7, <4>1, <1>3
      <4> DEFINE K == OnLap(pit, d)
      <4>3. d \in 0 .. Lap - 1
        BY <1>1
      <4>4. pitAt(d) = PitOnWay(side, K)
        <5>1. PitIdForDistance[side][id][d] = PitOnWay(side, K)
          BY <1>1, <4>3, PitsOfTheWay
        <5>2. d % Lap = d
          BY <4>3, LapRemainders
        <5> QED BY <5>1, <5>2
      <4>5. K # pit /\ K \in 0 .. Lap - 1
        BY <1>1, <4>3, LapPlaces
      <4> HIDE DEF K, pitAt
      <4>6. PitOnWay(side, K) # PitOnWay(side, pit)
        BY <1>1, <4>5 DEF PitOnWay, Sides, Lap, OwnFirst, NumberOfHouses
      <4> QED BY <4>2, <4>4, <4>6
    <3>2. Cardinality(T(HouseOf(p, i))) = 0
      BY <3>1, FS_EmptySet
    <3>3. new[i] = 0
      BY <2>7
    <3> HIDE DEF T, new
    <3> QED BY <2>2, <2>5, <2>7, <3>2, <3>3
  <2>8. CASE i # id
    <3>1. new[i] = pits[i] + Cardinality({d \in 1 .. n : pitAt(d) = i})
      BY <2>8
    <3> HIDE DEF T, new
    <3> QED BY <2>2, <2>4, <2>5, <2>6, <2>8, <3>1
  <2> QED BY <2>7, <2>8
<1>9. GameState(p, Sown(houses0, m, pit, n))
        = [i \in Ids |-> Sown(houses0, m, pit, n)[HouseOf(p, i)]]
  BY ShownHouses
<1>10. new = GameState(p, Sown(houses0, m, pit, n))
  BY <1>8, <1>9
<1>11. pitAt(n) \in Ids /\ HouseOf(p, pitAt(n)) = SowHouse(m, pit, n)
  BY <1>1, <1>4
<1> HIDE DEF new, pitAt
<1> QED BY <1>7, <1>10, <1>11

-----------------------------------------------------------------------------
(* The steal and the turn of the page.                                     *)

(* Sides, home pits and the pits across the board on the page.             *)
LEMMA PageSides ==
  ASSUME NEW p \in Players, NEW m \in Players, NEW id \in Ids
  PROVE  /\ BoardSide(id) = SideOf(p, m) <=>
              HouseOf(p, id) \in MyPits(m) \/ HouseOf(p, id) = Kalaha(m)
         /\ (id = HomePit(SideOf(p, m))) <=> (HouseOf(p, id) = Kalaha(m))
         /\ id \in SidePits(SideOf(p, m)) <=> HouseOf(p, id) \in MyPits(m)
         /\ HouseOf(p, id) \in MyPits(m) =>
              /\ OppositePitId(id) \in Ids
              /\ HouseOf(p, OppositePitId(id)) = Opposite(m, HouseOf(p, id))
         /\ HouseOf(p, id) = Kalaha(m) =>
              /\ OppositePitId(id) \in Ids
              /\ HouseOf(p, OppositePitId(id)) = Pit(m, 0)
         /\ HomePit(SideOf(p, m)) \in Ids
<1>1. /\ NUMBER_OF_PITS \in Nat \ {0} /\ NumberOfHouses = 2 * NUMBER_OF_PITS + 2
      /\ OwnFirst = NUMBER_OF_PITS + 2
      /\ \A i : i \in Ids <=> i \in Int /\ 1 <= i /\ i <= NumberOfHouses
      /\ HomePit(1) = 1 /\ HomePit(2) = NumberOfHouses
      /\ id \in SidePits(1) <=> 2 <= id /\ id < OwnFirst
      /\ id \in SidePits(2) <=> OwnFirst <= id /\ id < NumberOfHouses
  BY PitsAssumption DEF NumberOfHouses, OwnFirst, Ids, HomePit, SidePits
<1>2. CASE m = p
  <2> DEFINE f == FirstPit(m)
             g == FirstPit(Opponent(p))
             H == HouseOf(p, id)
             across == OppositePitId(id)
  <2>1. SideOf(p, m) = 2
    BY <1>2 DEF SideOf
  <2>2. /\ Opponent(m) = Opponent(p)
        /\ f \in Int /\ g \in Int
        /\ (f = 0 /\ g = NUMBER_OF_PITS + 1) \/ (f = NUMBER_OF_PITS + 1 /\ g = 0)
    BY <1>1, <1>2, FirstPits
       DEF FirstPit, Opponent, Players, SOUTH, NORTH
  <2>3. \A i \in Int : HouseOf(p, i)
            = IF i <= NUMBER_OF_PITS + 1 THEN g + NUMBER_OF_PITS + 1 - i
                ELSE f + i - OwnFirst
    BY <2>2, <1>2 DEF HouseOf
  <2>4. /\ Kalaha(m) = f + NUMBER_OF_PITS
        /\ \A h \in Int : h \in MyPits(m) <=> f <= h /\ h < f + NUMBER_OF_PITS
        /\ \A h \in Int : Opposite(m, h) = g + (NUMBER_OF_PITS - (h - f) - 1)
        /\ Pit(m, 0) = f + 0
    BY <1>1, <2>2 DEF Kalaha, MyPits, Pit, Opposite
  <2> HIDE DEF f, g
  <2>5. H \in Int /\ across \in Int
    BY <1>1, <2>2, <2>3 DEF OppositePitId
  <2>6. /\ H = IF id <= NUMBER_OF_PITS + 1 THEN g + NUMBER_OF_PITS + 1 - id
                ELSE f + id - OwnFirst
        /\ HouseOf(p, across)
            = IF across <= NUMBER_OF_PITS + 1 THEN g + NUMBER_OF_PITS + 1 - across
                ELSE f + across - OwnFirst
    BY <1>1, <2>3, <2>5
  <2>7. across = IF id < OwnFirst THEN NUMBER_OF_PITS + id ELSE id - NUMBER_OF_PITS
    BY DEF OppositePitId
  <2>8. /\ H \in MyPits(m) <=> f <= H /\ H < f + NUMBER_OF_PITS
        /\ Opposite(m, H) = g + (NUMBER_OF_PITS - (H - f) - 1)
    BY <2>4, <2>5
  <2>9. H \in MyPits(m) <=> id \in SidePits(2)
    BY <1>1, <2>2, <2>5, <2>6, <2>8
  <2>10. H = Kalaha(m) <=> id = HomePit(2)
    BY <1>1, <2>2, <2>4, <2>5, <2>6
  <2>11. BoardSide(id) = 2 <=> id \in SidePits(2) \/ id = HomePit(2)
    BY <1>1 DEF BoardSide
  <2>12. id \in SidePits(2) =>
           across \in Ids /\ HouseOf(p, across) = Opposite(m, H)
    <3>1. id \in SidePits(2) => across \in Ids
      BY <1>1, <2>7
    <3> HIDE DEF H, across
    <3> QED BY <1>1, <2>2, <2>5, <2>6, <2>7, <2>8, <3>1
  <2>13. id = HomePit(2) =>
           across \in Ids /\ HouseOf(p, across) = Pit(m, 0)
    <3>1. id = HomePit(2) => across \in Ids
      BY <1>1, <2>7
    <3> HIDE DEF H, across
    <3> QED BY <1>1, <2>2, <2>4, <2>5, <2>6, <2>7, <3>1
  <2>14. HomePit(2) \in Ids
    BY <1>1
  <2> QED BY <2>1, <2>9, <2>10, <2>11, <2>12, <2>13, <2>14
<1>3. CASE m # p
  <2> DEFINE f == FirstPit(m)
             g == FirstPit(p)
             H == HouseOf(p, id)
             across == OppositePitId(id)
  <2>1. SideOf(p, m) = 1
    BY <1>3 DEF SideOf
  <2>2. /\ Opponent(p) = m /\ Opponent(m) = p
        /\ f \in Int /\ g \in Int
        /\ (f = 0 /\ g = NUMBER_OF_PITS + 1) \/ (f = NUMBER_OF_PITS + 1 /\ g = 0)
    BY <1>1, <1>3, FirstPits
       DEF FirstPit, Opponent, Players, SOUTH, NORTH
  <2>3. \A i \in Int : HouseOf(p, i)
            = IF i <= NUMBER_OF_PITS + 1 THEN f + NUMBER_OF_PITS + 1 - i
                ELSE g + i - OwnFirst
    BY <2>2, <1>3 DEF HouseOf
  <2>4. /\ Kalaha(m) = f + NUMBER_OF_PITS
        /\ \A h \in Int : h \in MyPits(m) <=> f <= h /\ h < f + NUMBER_OF_PITS
        /\ \A h \in Int : Opposite(m, h) = g + (NUMBER_OF_PITS - (h - f) - 1)
        /\ Pit(m, 0) = f + 0
    BY <1>1, <2>2 DEF Kalaha, MyPits, Pit, Opposite
  <2> HIDE DEF f, g
  <2>5. H \in Int /\ across \in Int
    BY <1>1, <2>2, <2>3 DEF OppositePitId
  <2>6. /\ H = IF id <= NUMBER_OF_PITS + 1 THEN f + NUMBER_OF_PITS + 1 - id
                ELSE g + id - OwnFirst
        /\ HouseOf(p, across)
            = IF across <= NUMBER_OF_PITS + 1 THEN f + NUMBER_OF_PITS + 1 - across
                ELSE g + across - OwnFirst
    BY <1>1, <2>3, <2>5
  <2>7. across = IF id < OwnFirst THEN NUMBER_OF_PITS + id ELSE id - NUMBER_OF_PITS
    BY DEF OppositePitId
  <2>8. /\ H \in MyPits(m) <=> f <= H /\ H < f + NUMBER_OF_PITS
        /\ Opposite(m, H) = g + (NUMBER_OF_PITS - (H - f) - 1)
    BY <2>4, <2>5
  <2>9. H \in MyPits(m) <=> id \in SidePits(1)
    BY <1>1, <2>2, <2>5, <2>6, <2>8
  <2>10. H = Kalaha(m) <=> id = HomePit(1)
    BY <1>1, <2>2, <2>4, <2>5, <2>6
  <2>11. BoardSide(id) = 1 <=> id \in SidePits(1) \/ id = HomePit(1)
    BY <1>1 DEF BoardSide
  <2>12. id \in SidePits(1) =>
           across \in Ids /\ HouseOf(p, across) = Opposite(m, H)
    <3>1. id \in SidePits(1) => across \in Ids
      BY <1>1, <2>7
    <3> HIDE DEF H, across
    <3> QED BY <1>1, <2>2, <2>5, <2>6, <2>7, <2>8, <3>1
  <2>13. id = HomePit(1) =>
           across \in Ids /\ HouseOf(p, across) = Pit(m, 0)
    <3>1. id = HomePit(1) => across \in Ids
      BY <1>1, <2>7
    <3> HIDE DEF H, across
    <3> QED BY <1>1, <2>2, <2>4, <2>5, <2>6, <2>7, <3>1
  <2>14. HomePit(1) \in Ids
    BY <1>1
  <2> QED BY <2>1, <2>9, <2>10, <2>11, <2>12, <2>13, <2>14
<1> QED BY <1>2, <1>3

(* The page lays the last stone and then steals, the table looks first.    *)
(* The page also steals from its home pit, which has to be excluded.       *)
LEMMA PageSteals ==
  ASSUME AllowStealingFromEmptyPit,
         NEW p \in Players, NEW m \in Players, NEW sown \in [Houses -> Nat],
         NEW id \in Ids,
         HouseOf(p, id) = Kalaha(m) /\ sown[Kalaha(m)] = 0 =>
           sown[Pit(m, 0)] = 0
  PROVE  PerformSteal(GameState(p, [sown EXCEPT ![HouseOf(p, id)] = @ + 1]),
                      SideOf(p, m), id)
           = GameState(p, DropLast(sown, m, HouseOf(p, id)))
<1> DEFINE last == HouseOf(p, id)
           laid == [sown EXCEPT ![last] = @ + 1]
           pits == GameState(p, laid)
           across == OppositePitId(id)
           home == HomePit(SideOf(p, m))
           new == DropLast(sown, m, last)
<1>1. /\ last \in Houses
      /\ \A i \in Ids : HouseOf(p, i) \in Houses
      /\ \A i, j \in Ids : HouseOf(p, i) = HouseOf(p, j) => i = j
      /\ pits = [i \in Ids |-> laid[HouseOf(p, i)]]
      /\ GameState(p, new) = [i \in Ids |-> new[HouseOf(p, i)]]
  BY ShownHouses
<1>2. Kalaha(m) \in Houses /\ Kalaha(m) \notin MyPits(m)
  BY Layout
<1>3. home \in Ids /\ HouseOf(p, home) = Kalaha(m)
  BY PageSides
<1>4. laid \in [Houses -> Nat] /\ laid[last] = sown[last] + 1
      /\ \A h \in Houses : h # last => laid[h] = sown[h]
  BY <1>1
<1>5. CASE Steals(sown, m, last)
  <2>1. /\ last \in MyPits(m) /\ sown[last] = 0
        /\ sown[Opposite(m, last)] > 0
    BY <1>5 DEF Steals
  <2>2. /\ Opposite(m, last) \in Houses /\ Opposite(m, last) # last
        /\ Opposite(m, last) # Kalaha(m)
    BY <2>1, OppositeType
  <2>3. /\ BoardSide(id) = SideOf(p, m)
        /\ across \in Ids /\ HouseOf(p, across) = Opposite(m, last)
    BY <2>1, PageSides
  <2>4. /\ pits[id] = 1 /\ pits[across] = sown[Opposite(m, last)]
        /\ pits[home] = sown[Kalaha(m)] /\ home # id /\ across # id
        /\ across # home
    BY <1>1, <1>2, <1>3, <1>4, <2>1, <2>2, <2>3
  <2>5. PerformSteal(pits, SideOf(p, m), id)
          = [pits EXCEPT ![home] = @ + 1 + pits[across],
                         ![across] = 0, ![id] = 0]
    BY <2>1, <2>3, <2>4 DEF PerformSteal
  <2>6. new = [sown EXCEPT ![Kalaha(m)] = @ + 1 + sown[Opposite(m, last)],
                           ![Opposite(m, last)] = 0]
    BY <1>5 DEF DropLast
  <2> DEFINE taken == [pits EXCEPT ![home] = @ + 1 + pits[across],
                                   ![across] = 0, ![id] = 0]
  <2>7. ASSUME NEW i \in Ids
        PROVE  taken[i] = new[HouseOf(p, i)]
    <3> HIDE DEF last, pits, across, home, new
    <3>1. CASE i = home
      BY <1>1, <1>2, <1>3, <2>2, <2>4, <2>6, <3>1
    <3>2. CASE i = across
      BY <1>1, <1>3, <2>2, <2>3, <2>4, <2>6, <3>2
    <3>3. CASE i = id
      <4>1. new[last] = sown[last]
        BY <1>1, <1>2, <2>1, <2>2, <2>6
      <4> QED BY <1>1, <2>1, <2>4, <3>3, <4>1 DEF last
    <3>4. CASE i # home /\ i # across /\ i # id
      <4>1. /\ HouseOf(p, i) # Kalaha(m) /\ HouseOf(p, i) # Opposite(m, last)
            /\ HouseOf(p, i) # last
        BY <1>1, <1>3, <2>3, <3>4 DEF last
      <4>2. new[HouseOf(p, i)] = sown[HouseOf(p, i)]
        BY <1>1, <2>6, <4>1
      <4>3. pits[i] = sown[HouseOf(p, i)]
        BY <1>1, <1>4, <4>1
      <4> QED BY <1>1, <3>4, <4>2, <4>3
    <3> QED BY <3>1, <3>2, <3>3, <3>4
  <2>8. taken = [i \in Ids |-> taken[i]]
    BY <1>1
  <2> HIDE DEF taken, new, pits, last, across, home
  <2>9. taken = [i \in Ids |-> new[HouseOf(p, i)]]
    BY <2>7, <2>8
  <2> QED BY <1>1, <2>5, <2>9 DEF taken, new, pits, last, across, home, laid
<1>6. CASE ~ Steals(sown, m, last)
  <2>1. new = laid
    BY <1>6 DEF DropLast
  <2>2. ~ (BoardSide(id) = SideOf(p, m) /\ pits[id] = 1 /\ pits[across] > 0)
    <3>1. SUFFICES ASSUME BoardSide(id) = SideOf(p, m), pits[id] = 1,
                          pits[across] > 0
                   PROVE  FALSE
      OBVIOUS
    <3>2. sown[last] = 0
      BY <1>1, <1>4, <3>1
    <3>3. CASE last \in MyPits(m)
      <4>1. across \in Ids /\ HouseOf(p, across) = Opposite(m, last)
        BY <3>3, PageSides
      <4>2. Opposite(m, last) \in Houses /\ Opposite(m, last) # last
        BY <3>3, OppositeType
      <4>3. pits[across] = sown[Opposite(m, last)]
        BY <1>1, <1>4, <4>1, <4>2
      <4> QED BY <1>6, <3>1, <3>2, <3>3, <4>3 DEF Steals
    <3>4. CASE last = Kalaha(m)
      <4>1. across \in Ids /\ HouseOf(p, across) = Pit(m, 0)
        BY <3>4, PageSides
      <4>2. Pit(m, 0) \in Houses /\ Pit(m, 0) # last
        BY <1>2, <3>4, PitType, PitsAssumption DEF LocalPits
      <4>3. pits[across] = sown[Pit(m, 0)]
        BY <1>1, <1>4, <4>1, <4>2
      <4>4. sown[Pit(m, 0)] = 0
        BY <3>2, <3>4
      <4> QED BY <3>1, <4>3, <4>4
    <3> QED BY <3>1, <3>3, <3>4, PageSides
  <2>3. PerformSteal(pits, SideOf(p, m), id) = pits
    BY <2>2 DEF PerformSteal
  <2> QED BY <2>1, <2>3
<1> QED BY <1>5, <1>6

-----------------------------------------------------------------------------
(* Moves.  ThePagesRules are those the page plays by: DefaultRules, and as *)
(* many stones in a pit as a side has pits.  With fewer stones the first   *)
(* stone could come home with the first pit not empty, and the page would  *)
(* steal from that pit.                                                    *)

ThePagesRules ==
  /\ AllowStealingFromEmptyPit
  /\ EndGameWhenEitherPlayerRunsOutOfStones
  /\ EndGameSweepsBoard
  /\ InitStones >= NUMBER_OF_PITS

(* While a home is empty a sowing from any pit of its player goes past it: *)
(* all have the stones they started with or more, but those that have just *)
(* been stolen from.                                                       *)
HomeOpen(b, r) ==
  b.houses[Kalaha(r)] = 0 =>
    \/ \A h \in MyPits(r) : b.houses[h] >= NUMBER_OF_PITS
    \/ /\ b.playerToAct = r
       /\ \A h \in MyPits(r) : b.houses[h] = 0 \/ b.houses[h] >= NUMBER_OF_PITS

Fine(b) ==
  /\ b.gameEnded => \A r \in Players : ~ CanPlayerMove(b.houses, r)
  /\ ~ b.gameEnded => \A r \in Players : HomeOpen(b, r)

Boards ==
  {b \in [houses : [Houses -> Nat], playerToAct : Players, gameEnded : BOOLEAN] :
     Fine(b)}

Moved(b, m, pit) ==
  [houses |-> AfterMove(b.houses, m, pit),
   playerToAct |-> NextPlayer(b.houses, m, pit),
   gameEnded |-> EndsGame(b.houses, m, pit)]

(* What is left where after the last stone.                                *)
LEMMA AfterLastStone ==
  ASSUME NEW houses0 \in [Houses -> Nat], NEW m \in Players,
         NEW pit \in LocalPits, houses0[Pit(m, pit)] # 0
  PROVE  LET n == houses0[Pit(m, pit)]
             new == AfterSowing(houses0, m, pit)
         IN  /\ new[Kalaha(m)] >= Sown(houses0, m, pit, n)[Kalaha(m)]
             /\ \A h \in MyPits(Opponent(m)) :
                  \/ new[h] >= houses0[h]
                  \/ new[h] = 0 /\ NextPlayer(houses0, m, pit) = Opponent(m)
<1> DEFINE n == houses0[Pit(m, pit)]
           sown == Sown(houses0, m, pit, n - 1)
           laid == Sown(houses0, m, pit, n)
           last == SowHouse(m, pit, n)
           new == AfterSowing(houses0, m, pit)
           home == Kalaha(m)
           across == Opposite(m, last)
<1>1. n \in Nat /\ n - 1 \in Nat /\ (n - 1) + 1 = n
  BY PitType
<1>2. /\ sown \in [Houses -> Nat]
      /\ \A h \in Houses : h # Pit(m, pit) => sown[h] >= houses0[h]
  BY <1>1, SownType, SownOnlyGains
<1>3. last \in Houses
  BY <1>1, SowHouseType
<1>4. laid = [sown EXCEPT ![last] = @ + 1]
  BY <1>1, SownOneMore
<1>5. new = DropLast(sown, m, last)
  BY DEF AfterSowing
<1>6. /\ home \in Houses /\ home \notin MyPits(m)
      /\ MyPits(Opponent(m)) \subseteq Houses
      /\ home \notin MyPits(Opponent(m))
      /\ \A h \in MyPits(Opponent(m)) : h # Pit(m, pit)
  BY Layout, PitType, PitsAssumption
     DEF MyPits, Kalaha, FirstPit, Opponent, Players, SOUTH, NORTH
<1> HIDE DEF n, sown, laid, last, new, home
<1>7. CASE Steals(sown, m, last)
  <2>1. last \in MyPits(m) /\ last # home
    BY <1>6, <1>7 DEF Steals
  <2>2. across \in Houses /\ across # home
    BY <2>1, OppositeType DEF home
  <2>3. new = [sown EXCEPT ![home] = @ + 1 + sown[across], ![across] = 0]
    BY <1>5, <1>7 DEF DropLast, home
  <2>4. NextPlayer(houses0, m, pit) = Opponent(m)
    BY <2>1 DEF NextPlayer, last, n, home
  <2> HIDE DEF across
  <2>5. new[home] >= laid[home]
    <3>1. sown[home] \in Nat /\ sown[across] \in Nat
      BY <1>2, <1>6, <2>2
    <3>2. laid[home] = sown[home]
      BY <1>2, <1>4, <1>6, <2>1
    <3>3. new[home] = sown[home] + 1 + sown[across]
      BY <1>2, <1>6, <2>2, <2>3
    <3> QED BY <3>1, <3>2, <3>3
  <2>6. ASSUME NEW h \in MyPits(Opponent(m))
        PROVE  new[h] = 0 \/ new[h] >= houses0[h]
    BY <1>2, <1>6, <2>2, <2>3
  <2> QED BY <2>4, <2>5, <2>6 DEF new, laid, home, n
<1>8. CASE ~ Steals(sown, m, last)
  <2>1. new = laid
    BY <1>4, <1>5, <1>8 DEF DropLast
  <2>2. new[home] >= laid[home]
    BY <1>2, <1>3, <1>4, <1>6, <2>1
  <2>3. ASSUME NEW h \in MyPits(Opponent(m))
        PROVE  new[h] >= houses0[h]
    <3>1. h \in Houses /\ sown[h] \in Nat /\ houses0[h] \in Nat
      BY <1>2, <1>6
    <3>2. new[h] \in {sown[h], sown[h] + 1}
      BY <1>2, <1>3, <1>4, <2>1, <3>1
    <3>3. sown[h] >= houses0[h]
      BY <1>2, <1>6, <3>1
    <3> QED BY <3>1, <3>2, <3>3
  <2> QED BY <2>2, <2>3 DEF new, laid, home, n
<1> QED BY <1>7, <1>8

(* A sowing of a side's number of stones or more goes past its home.       *)
LEMMA ComesHome ==
  ASSUME NEW houses0 \in [Houses -> Nat], NEW m \in Players,
         NEW pit \in LocalPits, NEW n \in Nat, n >= NUMBER_OF_PITS
  PROVE  Sown(houses0, m, pit, n)[Kalaha(m)] > 0
<1> DEFINE home == Kalaha(m)
           T == {j \in 1 .. n : SowHouse(m, pit, j) = home}
           k == NUMBER_OF_PITS - pit
<1>1. /\ NUMBER_OF_PITS \in Nat \ {0} /\ pit \in 0 .. NUMBER_OF_PITS - 1
      /\ Lap = 2 * NUMBER_OF_PITS + 1 /\ NumberOfHouses = 2 * NUMBER_OF_PITS + 2
  BY PitsAssumption DEF LocalPits, Lap, NumberOfHouses
<1>2. k \in 1 .. n
  BY <1>1
<1>3. SowHouse(m, pit, k) = home
  <2>1. pit + k = NUMBER_OF_PITS
    BY <1>1
  <2>2. NUMBER_OF_PITS % Lap = NUMBER_OF_PITS
    <3>1. NUMBER_OF_PITS \in 0 .. Lap - 1
      BY <1>1
    <3> QED BY <3>1, LapRemainders
  <2> DEFINE sum == FirstPit(m) + NUMBER_OF_PITS
  <2>3. sum \in 0 .. NumberOfHouses - 1
    BY <1>1, FirstPits
  <2>4. SowHouse(m, pit, k) = sum % NumberOfHouses
    BY <2>1, <2>2 DEF SowHouse
  <2> HIDE DEF sum
  <2>5. sum % NumberOfHouses = sum
    BY <1>1, <2>3, ModOnce
  <2> QED BY <2>4, <2>5 DEF sum, Kalaha
<1> HIDE DEF k
<1>4. IsFiniteSet(T) /\ T # {}
  <2>1. IsFiniteSet(1 .. n)
    BY FS_Interval
  <2>2. T \subseteq 1 .. n
    OBVIOUS
  <2>3. k \in T
    BY <1>2, <1>3
  <2> HIDE DEF T
  <2> QED BY <2>1, <2>2, <2>3, FS_Subset
<1>5. home \in Houses /\ home # Pit(m, pit)
  BY Layout, PitType
<1>6. Sown(houses0, m, pit, n)[home] = houses0[home] + Cardinality(T)
  BY <1>5 DEF Sown
<1> HIDE DEF T, home
<1>7. Cardinality(T) \in Nat /\ Cardinality(T) # 0
  BY <1>4, FS_CardinalityType, FS_EmptySet
<1>8. houses0[home] \in Nat
  BY <1>5
<1> QED BY <1>6, <1>7, <1>8 DEF home

(* A move leads from a board of the game to another one.                   *)
LEMMA MovedBoard ==
  ASSUME ThePagesRules,
         NEW b \in Boards, ~ b.gameEnded, NEW m \in Players, b.playerToAct = m,
         NEW pit \in LocalPits, b.houses[Pit(m, pit)] # 0
  PROVE  Moved(b, m, pit) \in Boards
<1> DEFINE hs == b.houses
           n == hs[Pit(m, pit)]
           new == AfterSowing(hs, m, pit)
           e == Moved(b, m, pit)
           r == Opponent(m)
<1>1. hs \in [Houses -> Nat] /\ \A q \in Players : HomeOpen(b, q)
  BY DEF Boards, Fine
<1>2. e \in [houses : [Houses -> Nat], playerToAct : Players, gameEnded : BOOLEAN]
  BY <1>1, AfterMoveType DEF Moved
<1>3. CASE EndsGame(hs, m, pit)
  <2>1. \A q \in Players : ~ CanPlayerMove(AfterMove(hs, m, pit), q)
    BY <1>1, <1>3, SweptAtTheEnd DEF ThePagesRules
  <2> QED BY <1>2, <1>3, <2>1 DEF Boards, Fine, Moved
<1>4. CASE ~ EndsGame(hs, m, pit)
  <2>1. e.houses = new /\ e.playerToAct = NextPlayer(hs, m, pit) /\ ~ e.gameEnded
    BY <1>4 DEF Moved, AfterMove
  <2>2. n \in Nat /\ n # 0 /\ Pit(m, pit) \in MyPits(m)
    BY <1>1, PitType
  <2>3. /\ new \in [Houses -> Nat]
        /\ new[Kalaha(m)] >= hs[Kalaha(m)]
        /\ new[Kalaha(r)] = hs[Kalaha(r)]
    BY <1>1, AfterSowingConserves, AfterSowingKalahas
  <2>4. /\ new[Kalaha(m)] >= Sown(hs, m, pit, n)[Kalaha(m)]
        /\ \A h \in MyPits(r) :
             \/ new[h] >= hs[h]
             \/ new[h] = 0 /\ NextPlayer(hs, m, pit) = r
    BY <1>1, AfterLastStone
  <2>5. /\ Kalaha(m) \in Houses /\ Kalaha(r) \in Houses /\ r \in Players /\ r # m
        /\ \A q \in Players : q = m \/ q = r
        /\ MyPits(r) \subseteq Houses
    BY FirstPits, Layout
  <2>6. HomeOpen(e, m)
    <3>1. SUFFICES new[Kalaha(m)] # 0
      BY <2>1 DEF HomeOpen
    <3>2. CASE hs[Kalaha(m)] # 0
      BY <1>1, <2>3, <2>5, <3>2
    <3>3. CASE hs[Kalaha(m)] = 0
      <4>1. n >= NUMBER_OF_PITS
        BY <1>1, <2>2, <3>3 DEF HomeOpen
      <4>2. Sown(hs, m, pit, n)[Kalaha(m)] > 0
        BY <1>1, <2>2, <4>1, ComesHome
      <4>3. Sown(hs, m, pit, n)[Kalaha(m)] \in Nat /\ new[Kalaha(m)] \in Nat
        <5>1. Sown(hs, m, pit, n) \in [Houses -> Nat]
          BY <1>1, <2>2, SownType
        <5> QED BY <5>1, <2>3, <2>5
      <4> QED BY <2>4, <4>2, <4>3
    <3> QED BY <3>2, <3>3
  <2>7. HomeOpen(e, r)
    <3>1. SUFFICES ASSUME hs[Kalaha(r)] = 0
                   PROVE  \/ \A h \in MyPits(r) : new[h] >= NUMBER_OF_PITS
                          \/ /\ NextPlayer(hs, m, pit) = r
                             /\ \A h \in MyPits(r) :
                                  new[h] = 0 \/ new[h] >= NUMBER_OF_PITS
      BY <2>1, <2>3 DEF HomeOpen
    <3>2. \A h \in MyPits(r) : hs[h] >= NUMBER_OF_PITS
      BY <1>1, <2>5, <3>1 DEF HomeOpen
    <3>3. ASSUME NEW h \in MyPits(r), new[h] >= hs[h]
          PROVE  new[h] >= NUMBER_OF_PITS
      <4>1. new[h] \in Nat /\ hs[h] \in Nat /\ NUMBER_OF_PITS \in Nat
        BY <1>1, <2>3, <2>5, PitsAssumption
      <4>2. hs[h] >= NUMBER_OF_PITS
        BY <3>2
      <4> HIDE DEF new, hs, r
      <4> QED BY <3>3, <4>1, <4>2
    <3> HIDE DEF new, hs, r
    <3> QED BY <2>4, <3>3
  <2> QED BY <1>2, <2>1, <2>5, <2>6, <2>7 DEF Boards, Fine
<1> QED BY <1>3, <1>4

(* Where a stone of less than a lap comes to.                              *)
LEMMA SowPlaces ==
  ASSUME NEW m \in Players, NEW pit \in LocalPits, NEW k \in 0 .. Lap - 1
  PROVE  LET L == IF pit + k < Lap THEN pit + k ELSE pit + k - Lap
             h == FirstPit(m) + L
         IN  SowHouse(m, pit, k)
               = IF h < NumberOfHouses THEN h ELSE h - NumberOfHouses
<1> DEFINE L == OnLap(pit, k)
           h == FirstPit(m) + L
<1>1. /\ NUMBER_OF_PITS \in Nat \ {0} /\ pit \in 0 .. NUMBER_OF_PITS - 1
      /\ Lap = 2 * NUMBER_OF_PITS + 1 /\ NumberOfHouses = 2 * NUMBER_OF_PITS + 2
      /\ pit \in 0 .. Lap - 1
  BY PitsAssumption DEF LocalPits, Lap, NumberOfHouses
<1>2. L = IF pit + k < Lap THEN pit + k ELSE pit + k - Lap
  BY <1>1, LapPlaces
<1>3. L \in 0 .. Lap - 1
  BY <1>1, <1>2
<1>4. h \in 0 .. 2 * NumberOfHouses - 1 /\ NumberOfHouses \in Nat \ {0}
  <2> HIDE DEF L
  <2>1. FirstPit(m) \in {0, NUMBER_OF_PITS + 1}
    BY FirstPits
  <2> QED BY <1>1, <1>3, <2>1
<1>5. SowHouse(m, pit, k) = h % NumberOfHouses
  BY DEF SowHouse, OnLap
<1> HIDE DEF L, h
<1>6. h % NumberOfHouses = IF h < NumberOfHouses THEN h ELSE h - NumberOfHouses
  BY <1>4, ModOnce
<1>7. h = FirstPit(m) + (IF pit + k < Lap THEN pit + k ELSE pit + k - Lap)
  BY <1>2 DEF h
<1> QED BY <1>5, <1>6, <1>7

(* A last stone at an empty home came from the first pit, which is empty.  *)
LEMMA NoStealAtHome ==
  ASSUME NEW b \in Boards, ~ b.gameEnded, NEW m \in Players, b.playerToAct = m,
         NEW pit \in LocalPits, NEW n \in 1 .. Lap - 1, b.houses[Pit(m, pit)] = n,
         SowHouse(m, pit, n) = Kalaha(m),
         Sown(b.houses, m, pit, n - 1)[Kalaha(m)] = 0
  PROVE  Sown(b.houses, m, pit, n - 1)[Pit(m, 0)] = 0
<1> DEFINE hs == b.houses
           sown == Sown(hs, m, pit, n - 1)
           T == {j \in 1 .. n - 1 : SowHouse(m, pit, j) = Pit(m, 0)}
<1>1. /\ NUMBER_OF_PITS \in Nat \ {0} /\ pit \in 0 .. NUMBER_OF_PITS - 1
      /\ Lap = 2 * NUMBER_OF_PITS + 1 /\ NumberOfHouses = 2 * NUMBER_OF_PITS + 2
      /\ FirstPit(m) \in {0, NUMBER_OF_PITS + 1}
      /\ Kalaha(m) = FirstPit(m) + NUMBER_OF_PITS
  BY PitsAssumption, FirstPits DEF LocalPits, Lap, NumberOfHouses, Kalaha
<1>2. /\ hs \in [Houses -> Nat] /\ HomeOpen(b, m)
      /\ Kalaha(m) \in Houses /\ Kalaha(m) # Pit(m, pit)
      /\ Pit(m, pit) \in MyPits(m)
      /\ Pit(m, 0) = FirstPit(m) /\ Pit(m, 0) \in Houses
  BY <1>1, Layout, PitType DEF Boards, Fine, Pit
<1>3. n \in Nat /\ n - 1 \in Nat /\ n # 0
  BY <1>1
<1>4. hs[Kalaha(m)] = 0
  <2>1. sown \in [Houses -> Nat] /\ sown[Kalaha(m)] >= hs[Kalaha(m)]
    BY <1>2, <1>3, SownType, SownOnlyGains
  <2> HIDE DEF sown
  <2>2. hs[Kalaha(m)] \in Nat /\ sown[Kalaha(m)] = 0
    BY <1>2 DEF sown
  <2> QED BY <2>1, <2>2
<1>5. n >= NUMBER_OF_PITS
  BY <1>2, <1>3, <1>4 DEF HomeOpen
<1>6. ~ (n - 1 >= NUMBER_OF_PITS)
  <2>1. SUFFICES ASSUME n - 1 >= NUMBER_OF_PITS PROVE FALSE
    OBVIOUS
  <2>2. sown[Kalaha(m)] > 0
    BY <1>2, <1>3, <2>1, ComesHome
  <2> QED BY <2>2
<1>7. n = NUMBER_OF_PITS
  BY <1>1, <1>3, <1>5, <1>6
<1>8. pit = 0
  <2>1. n \in 0 .. Lap - 1
    BY <1>1
  <2> DEFINE L == IF pit + n < Lap THEN pit + n ELSE pit + n - Lap
             h == FirstPit(m) + L
  <2>2. SowHouse(m, pit, n) = IF h < NumberOfHouses THEN h ELSE h - NumberOfHouses
    BY <2>1, SowPlaces
  <2> QED BY <1>1, <1>7, <2>2
<1>9. T = {}
  <2>1. SUFFICES ASSUME NEW j \in 1 .. n - 1, SowHouse(m, pit, j) = FirstPit(m)
                 PROVE  FALSE
    BY <1>2
  <2>2. j \in 0 .. Lap - 1
    BY <1>1
  <2> DEFINE L == IF pit + j < Lap THEN pit + j ELSE pit + j - Lap
             h == FirstPit(m) + L
  <2>3. SowHouse(m, pit, j) = IF h < NumberOfHouses THEN h ELSE h - NumberOfHouses
    BY <2>2, SowPlaces
  <2> QED BY <1>1, <1>7, <1>8, <2>1, <2>3
<1>10. Cardinality(T) = 0
  BY <1>9, FS_EmptySet
<1> HIDE DEF T
<1>11. sown[Pit(m, 0)] = 0 + Cardinality(T)
  BY <1>2, <1>8 DEF Sown, T
<1> QED BY <1>10, <1>11

(* The player's pits of the page.                                          *)
LEMMA SideStones ==
  ASSUME NEW p \in Players, NEW m \in Players, NEW houses0 \in [Houses -> Nat]
  PROVE  HasSideStones(GameState(p, houses0), SideOf(p, m))
           <=> CanPlayerMove(houses0, m)
<1> DEFINE side == SideOf(p, m)
           pits == GameState(p, houses0)
<1>1. /\ pits = [id \in Ids |-> houses0[HouseOf(p, id)]]
      /\ \A id \in Ids : HouseOf(p, id) \in Houses
      /\ SidePits(side) \subseteq Ids
  <2>1. SidePits(side) \subseteq Ids
    BY PitsAssumption
       DEF SidePits, SideOf, Ids, OwnFirst, NumberOfHouses
  <2> QED BY <2>1, ShownHouses
<1>2. ASSUME NEW h \in MyPits(m)
      PROVE  \E id \in SidePits(side) : HouseOf(p, id) = h
  <2> DEFINE L == h - FirstPit(m)
             id == PitOnWay(side, L)
  <2>1. /\ NUMBER_OF_PITS \in Nat \ {0} /\ NumberOfHouses = 2 * NUMBER_OF_PITS + 2
        /\ Lap = 2 * NUMBER_OF_PITS + 1
        /\ FirstPit(m) \in {0, NUMBER_OF_PITS + 1}
        /\ h \in FirstPit(m) .. FirstPit(m) + NUMBER_OF_PITS - 1
    BY FirstPits DEF NumberOfHouses, Lap, MyPits, Kalaha
  <2>2. L \in 0 .. Lap - 1 /\ FirstPit(m) + L = h /\ side \in Sides
        /\ h \in 0 .. NumberOfHouses - 1
    BY <2>1 DEF SideOf, Sides
  <2> HIDE DEF L
  <2>3. HouseOf(p, id) = (FirstPit(m) + L) % NumberOfHouses
    BY <2>2, HouseOnWay
  <2>4. h % NumberOfHouses = h
    <3>1. /\ NumberOfHouses \in Nat \ {0} /\ h \in 0 .. 2 * NumberOfHouses - 1
          /\ h < NumberOfHouses
      BY <2>1, <2>2
    <3> QED BY <3>1, ModOnce
  <2>5. HouseOf(p, id) = h
    BY <2>2, <2>3, <2>4
  <2>6. id \in Ids
    BY <2>2, NextOnWay
  <2> HIDE DEF id
  <2>7. id \in SidePits(side)
    BY <2>5, <2>6, PageSides
  <2> QED BY <2>5, <2>7
<1>3. ASSUME HasSideStones(pits, side)
      PROVE  CanPlayerMove(houses0, m)
  <2>1. PICK id \in SidePits(side) : pits[id] > 0
    BY <1>3 DEF HasSideStones
  <2>2. id \in Ids /\ HouseOf(p, id) \in MyPits(m)
    BY <1>1, PageSides
  <2>3. houses0[HouseOf(p, id)] # 0
    BY <1>1, <2>1, <2>2
  <2> QED BY <2>2, <2>3 DEF CanPlayerMove
<1>4. ASSUME CanPlayerMove(houses0, m)
      PROVE  HasSideStones(pits, side)
  <2>1. PICK h \in MyPits(m) : houses0[h] # 0
    BY <1>4 DEF CanPlayerMove
  <2>2. PICK id \in SidePits(side) : HouseOf(p, id) = h
    BY <1>2
  <2>3. id \in Ids /\ h \in Houses
    BY <1>1, <2>2
  <2>4. pits[id] > 0
    BY <1>1, <2>1, <2>2, <2>3
  <2> QED BY <2>4 DEF HasSideStones
<1> QED BY <1>3, <1>4

(* The page's move is the table's.  Only one that ends the game may differ,*)
(* by the sweep and by whose turn the page takes it to be.                 *)
LEMMA PageMoves ==
  ASSUME ThePagesRules, NEW p \in Players,
         NEW b \in Boards, ~ b.gameEnded, NEW m \in Players, b.playerToAct = m,
         NEW pit \in LocalPits, b.houses[Pit(m, pit)] \in 1 .. Lap - 1,
         ~ Moved(b, m, pit).gameEnded
  PROVE  LET side == SideOf(p, m)
             sown == SownPits(GameState(p, b.houses), side, PitOnWay(side, pit))
             e == Moved(b, m, pit)
         IN  /\ PerformSteal(sown.pits, side, sown.last) = GameState(p, e.houses)
             /\ NextSide(sown.pits, side, sown.last) = SideOf(p, e.playerToAct)
<1> DEFINE side == SideOf(p, m)
           sown == SownPits(GameState(p, b.houses), side, PitOnWay(side, pit))
           n == b.houses[Pit(m, pit)]
           before == Sown(b.houses, m, pit, n - 1)
           laid == Sown(b.houses, m, pit, n)
           new == AfterSowing(b.houses, m, pit)
           id == sown.last
           last == SowHouse(m, pit, n)
<1>1. /\ b.houses \in [Houses -> Nat]
      /\ n \in 1 .. Lap - 1 /\ n \in Nat /\ n - 1 \in Nat /\ (n - 1) + 1 = n
  BY PitsAssumption DEF Boards, Lap
<1>2. /\ sown.pits = GameState(p, laid)
      /\ id \in Ids /\ HouseOf(p, id) = last
  BY <1>1, PageSows
<1>3. /\ laid = [before EXCEPT ![last] = @ + 1]
      /\ before \in [Houses -> Nat] /\ laid \in [Houses -> Nat]
      /\ last \in Houses
  <2> DEFINE hs == b.houses
             k == n - 1
  <2>1. hs \in [Houses -> Nat] /\ k \in Nat /\ k + 1 = n
    BY <1>1
  <2> HIDE DEF hs, n, k
  <2>2. Sown(hs, m, pit, k + 1)
          = [Sown(hs, m, pit, k) EXCEPT ![SowHouse(m, pit, k + 1)] = @ + 1]
    BY <2>1, SownOneMore
  <2>3. /\ Sown(hs, m, pit, k) \in [Houses -> Nat]
        /\ Sown(hs, m, pit, k + 1) \in [Houses -> Nat]
        /\ SowHouse(m, pit, k + 1) \in Houses
    <3>1. k + 1 \in Nat
      BY <2>1
    <3> QED BY <2>1, <3>1, SownType, SowHouseType
  <2> QED BY <2>1, <2>2, <2>3 DEF hs, n, k
<1>4. new = DropLast(before, m, last)
  BY DEF AfterSowing
<1>5. /\ Moved(b, m, pit).houses = new
      /\ Moved(b, m, pit).playerToAct = NextPlayer(b.houses, m, pit)
      /\ ~ EndsGame(b.houses, m, pit)
  BY DEF Moved, AfterMove
<1>6. PerformSteal(sown.pits, side, id) = GameState(p, new)
  <2>1. last = Kalaha(m) /\ before[Kalaha(m)] = 0 => before[Pit(m, 0)] = 0
    BY <1>1, NoStealAtHome
  <2> HIDE DEF before, laid, last, id
  <2>2. /\ AllowStealingFromEmptyPit
        /\ HouseOf(p, id) = Kalaha(m) /\ before[Kalaha(m)] = 0 =>
             before[Pit(m, 0)] = 0
        /\ before \in [Houses -> Nat] /\ id \in Ids
    BY <1>2, <1>3, <2>1 DEF ThePagesRules
  <2>3. PerformSteal(GameState(p, [before EXCEPT ![HouseOf(p, id)] = @ + 1]),
                     SideOf(p, m), id)
          = GameState(p, DropLast(before, m, HouseOf(p, id)))
    BY ONLY <2>2, m \in Players, p \in Players, PageSteals
  <2> QED BY <1>2, <1>3, <1>4, <2>3
<1>7. NextSide(sown.pits, side, id) = SideOf(p, NextPlayer(b.houses, m, pit))
  <2>1. id = HomePit(side) <=> last = Kalaha(m)
    BY <1>2, PageSides
  <2>2. HasSideStones(sown.pits, side) <=> CanPlayerMove(laid, m)
    BY <1>2, <1>3, SideStones
  <2>3. CASE last = Kalaha(m)
    BY <2>1, <2>3 DEF NextSide, NextPlayer
  <2>4. CASE last # Kalaha(m)
    <3>1. CanPlayerMove(laid, m)
      <4>1. SUFFICES ASSUME ~ CanPlayerMove(laid, m)
                     PROVE  FALSE
        OBVIOUS
      <4>2. laid[last] # 0
        <5> HIDE DEF laid, before, last
        <5> QED BY <1>3
      <4>3. last \notin MyPits(m)
        BY <4>1, <4>2 DEF CanPlayerMove
      <4>4. new = laid
        BY <1>3, <1>4, <4>3 DEF DropLast, Steals
      <4>5. EndsGame(b.houses, m, pit)
        BY <4>1, <4>4 DEF EndsGame, IsEnd, ThePagesRules
      <4> QED BY <1>5, <4>5
    <3>2. NextSide(sown.pits, side, id) = 3 - side
      BY <2>1, <2>2, <2>4, <3>1 DEF NextSide
    <3>3. NextPlayer(b.houses, m, pit) = Opponent(m)
      BY <2>4 DEF NextPlayer
    <3>4. 3 - side = SideOf(p, Opponent(m))
      BY DEF SideOf, Opponent, Players, SOUTH, NORTH
    <3> QED BY <3>2, <3>3, <3>4
  <2> QED BY <2>3, <2>4
<1> QED BY <1>5, <1>6, <1>7

-----------------------------------------------------------------------------
(* The table's KalahaBoard has its own copy of each of the rules, for the  *)
(* prover another one.                                                     *)
LEMMA SameRules ==
  /\ Table!Players = Players
  /\ Table!Houses = Houses
  /\ Table!LocalPits = LocalPits
  /\ Table!InitHouses(InitStones) = InitHouses(InitStones)
  /\ \A hs, p, pit :
       /\ Table!Pit(p, pit) = Pit(p, pit)
       /\ Table!AfterMove(hs, p, pit) = AfterMove(hs, p, pit)
       /\ Table!NextPlayer(hs, p, pit) = NextPlayer(hs, p, pit)
       /\ Table!EndsGame(hs, p, pit) = EndsGame(hs, p, pit)
<1>1. /\ Table!SOUTH = SOUTH /\ Table!NORTH = NORTH
      /\ Table!Players = Players
      /\ Table!LocalPits = LocalPits
      /\ Table!NumberOfHouses = NumberOfHouses
      /\ Table!Houses = Houses
      /\ Table!Lap = Lap
  BY DEF Table!SOUTH, SOUTH, Table!NORTH, NORTH,
         Table!Players, Players, Table!LocalPits, LocalPits,
         Table!NumberOfHouses, NumberOfHouses, Table!Houses, Houses,
         Table!Lap, Lap
<1>2. \A p : Table!FirstPit(p) = FirstPit(p)
  BY <1>1 DEF Table!FirstPit, FirstPit
<1>3. \A p : Table!Kalaha(p) = Kalaha(p)
  BY <1>2 DEF Table!Kalaha, Kalaha
<1>4. \A p, pit : Table!Pit(p, pit) = Pit(p, pit)
  BY <1>2 DEF Table!Pit, Pit
<1>5. \A p : Table!MyPits(p) = MyPits(p)
  BY <1>2, <1>3 DEF Table!MyPits, MyPits
<1>6. \A p : Table!Opponent(p) = Opponent(p)
  BY <1>1 DEF Table!Opponent, Opponent
<1>7. \A p, h : Table!Opposite(p, h) = Opposite(p, h)
  BY <1>2, <1>4, <1>6 DEF Table!Opposite, Opposite
<1>8. \A hs : Table!StonesBefore(hs) = StonesBefore(hs)
  BY <1>1 DEF Table!StonesBefore, StonesBefore
<1>9. \A hs, p :
        Table!StonesInPits(hs, p) = StonesInPits(hs, p)
  BY <1>2, <1>3, <1>8 DEF Table!StonesInPits, StonesInPits
<1>10. \A hs, p :
         Table!CanPlayerMove(hs, p) = CanPlayerMove(hs, p)
  BY <1>5 DEF Table!CanPlayerMove, CanPlayerMove
<1>11. Table!InitHouses(InitStones) = InitHouses(InitStones)
  BY <1>1, <1>3 DEF Table!InitHouses, InitHouses
<1>12. \A p, pit, k : Table!SowHouse(p, pit, k) = SowHouse(p, pit, k)
  BY <1>1, <1>2 DEF Table!SowHouse, SowHouse
<1>13. \A hs, p, pit, k :
         Table!Sown(hs, p, pit, k) = Sown(hs, p, pit, k)
  <2> TAKE hs, p, pit, k
  <2> DEFINE mine(h) == {j \in 1 .. k : Table!SowHouse(p, pit, j) = h}
             theirs(h) == {j \in 1 .. k : SowHouse(p, pit, j) = h}
  <2>1. \A h : mine(h) = theirs(h)
    BY <1>12
  <2>2. \A S : Table!Cardinality(S) = Cardinality(S)
    BY DEF Table!Cardinality, Cardinality
  <2>3. Table!Sown(hs, p, pit, k)
          = [h \in Table!Houses |->
               (IF h = Table!Pit(p, pit) THEN 0 ELSE hs[h])
                 + Table!Cardinality(mine(h))]
    BY DEF Table!Sown
  <2>4. Sown(hs, p, pit, k)
          = [h \in Houses |->
               (IF h = Pit(p, pit) THEN 0 ELSE hs[h])
                 + Cardinality(theirs(h))]
    BY DEF Sown
  <2> HIDE DEF mine, theirs
  <2> QED BY <1>1, <1>4, <2>1, <2>2, <2>3, <2>4
<1>14. \A hs, p, last :
         Table!Steals(hs, p, last) = Steals(hs, p, last)
  BY <1>5, <1>7 DEF Table!Steals, Steals
<1>15. \A hs, p, last :
         Table!DropLast(hs, p, last) = DropLast(hs, p, last)
  BY <1>3, <1>7, <1>14 DEF Table!DropLast, DropLast
<1>16. \A hs, p, pit :
         Table!AfterSowing(hs, p, pit) = AfterSowing(hs, p, pit)
  BY <1>4, <1>12, <1>13, <1>15 DEF Table!AfterSowing, AfterSowing
<1>17. \A hs, p, pit :
         Table!NextPlayer(hs, p, pit) = NextPlayer(hs, p, pit)
  BY <1>3, <1>4, <1>6, <1>12 DEF Table!NextPlayer, NextPlayer
<1>18. \A hs, p, toAct :
         Table!IsEnd(hs, p, toAct) = IsEnd(hs, p, toAct)
  BY <1>6, <1>10 DEF Table!IsEnd, IsEnd
<1>19. \A hs, p : Table!LastOwner(hs, p) = LastOwner(hs, p)
  BY <1>6, <1>10 DEF Table!LastOwner, LastOwner
<1>20. \A hs, p :
         Table!EndTransfer(hs, p) = EndTransfer(hs, p)
  BY <1>1, <1>3, <1>5, <1>9 DEF Table!EndTransfer, EndTransfer
<1>21. \A hs, p, pit :
         Table!EndsGame(hs, p, pit) = EndsGame(hs, p, pit)
  BY <1>16, <1>17, <1>18 DEF Table!EndsGame, EndsGame
<1>22. \A hs, p, pit :
         Table!AfterMove(hs, p, pit) = AfterMove(hs, p, pit)
  BY <1>16, <1>19, <1>20, <1>21 DEF Table!AfterMove, AfterMove
<1> QED BY <1>1, <1>4, <1>11, <1>17, <1>21, <1>22

-----------------------------------------------------------------------------
(* Messages of m on the way from one board to another.                     *)

(* From b the message leads to e: a Sow is a move of m, one that is legal, *)
(* other messages and whatever comes after the end of the game do nothing. *)
Takes(b, msg, m, e) ==
  IF ~ b.gameEnded /\ msg.action = "Sow"
  THEN /\ b.playerToAct = m
       /\ b.houses[Pit(m, msg.house)] # 0
       /\ e = Moved(b, m, msg.house)
  ELSE e = b

Leads(b, ms, m, e) ==
  \E f \in [1 .. Len(ms) + 1 -> Boards] :
    /\ f[1] = b /\ f[Len(ms) + 1] = e
    /\ \A i \in 1 .. Len(ms) : Takes(f[i], ms[i], m, f[i + 1])

NoSow(ms) == \A i \in 1 .. Len(ms) : ms[i].action # "Sow"

LEMMA LeadsBoards ==
  ASSUME NEW b, NEW ms \in Seq(Messages), NEW m, NEW e, Leads(b, ms, m, e)
  PROVE  b \in Boards /\ e \in Boards
BY DEF Leads

LEMMA LeadsNowhere ==
  ASSUME NEW b \in Boards, NEW m
  PROVE  /\ Leads(b, << >>, m, b)
         /\ \A e : Leads(b, << >>, m, e) => e = b
<1>1. Leads(b, << >>, m, b)
  <2> DEFINE f == [i \in 1 .. 0 + 1 |-> b]
  <2>1. Len(<< >>) = 0
    OBVIOUS
  <2>2. f \in [1 .. 0 + 1 -> Boards] /\ f[1] = b /\ f[0 + 1] = b
    OBVIOUS
  <2>3. \A i \in 1 .. 0 : Takes(f[i], << >>[i], m, f[i + 1])
    OBVIOUS
  <2> HIDE DEF f
  <2> QED BY <2>1, <2>2, <2>3 DEF Leads
<1>2. ASSUME NEW e, Leads(b, << >>, m, e)
      PROVE  e = b
  BY <1>2 DEF Leads
<1> QED BY <1>1, <1>2

(* Where nothing is sown nothing changes.                                  *)
LEMMA LeadsWithoutSow ==
  ASSUME NEW b \in Boards, NEW ms \in Seq(Messages), NoSow(ms), NEW m
  PROVE  Leads(b, ms, m, b)
<1> DEFINE f == [i \in 1 .. Len(ms) + 1 |-> b]
<1>1. f \in [1 .. Len(ms) + 1 -> Boards] /\ Len(ms) \in Nat
  OBVIOUS
<1>2. f[1] = b /\ f[Len(ms) + 1] = b
  BY <1>1
<1>3. ASSUME NEW i \in 1 .. Len(ms)
      PROVE  Takes(f[i], ms[i], m, f[i + 1])
  <2>1. f[i] = b /\ f[i + 1] = b
    BY <1>1
  <2> HIDE DEF f
  <2> QED BY <2>1 DEF Takes, NoSow
<1> QED BY <1>1, <1>2, <1>3 DEF Leads

LEMMA LeadsOneMore ==
  ASSUME NEW b, NEW ms \in Seq(Messages), NEW m, NEW d, Leads(b, ms, m, d),
         NEW msg \in Messages, NEW e \in Boards, Takes(d, msg, m, e)
  PROVE  Leads(b, Append(ms, msg), m, e)
<1> DEFINE n == Len(ms)
           more == Append(ms, msg)
<1>1. n \in Nat /\ Len(more) = n + 1 /\ more[n + 1] = msg
      /\ \A i \in 1 .. n : more[i] = ms[i]
  OBVIOUS
<1>2. PICK f \in [1 .. n + 1 -> Boards] :
        /\ f[1] = b /\ f[n + 1] = d
        /\ \A i \in 1 .. n : Takes(f[i], ms[i], m, f[i + 1])
  BY DEF Leads
<1> DEFINE g == [i \in 1 .. (n + 1) + 1 |-> IF i = n + 2 THEN e ELSE f[i]]
<1> HIDE DEF n, more
<1>3. g \in [1 .. (n + 1) + 1 -> Boards]
  BY <1>1
<1>4. g[1] = b /\ g[(n + 1) + 1] = e /\ g[n + 1] = d
  BY <1>1, <1>2
<1>5. ASSUME NEW i \in 1 .. n + 1
      PROVE  Takes(g[i], more[i], m, g[i + 1])
  <2>1. CASE i = n + 1
    <3>1. g[i] = d /\ g[i + 1] = e /\ more[i] = msg
      BY <1>1, <1>4, <2>1
    <3> HIDE DEF g
    <3> QED BY <3>1
  <2>2. CASE i # n + 1
    <3>1. i \in 1 .. n
      BY <1>1, <2>2
    <3>2. g[i] = f[i] /\ g[i + 1] = f[i + 1] /\ more[i] = ms[i]
      BY <1>1, <3>1
    <3> HIDE DEF g
    <3> QED BY <1>2, <3>1, <3>2
  <2> QED BY <2>1, <2>2
<1> HIDE DEF g
<1>6. Len(more) + 1 = (n + 1) + 1
  BY <1>1
<1> QED BY <1>1, <1>3, <1>4, <1>5, <1>6 DEF Leads, more

LEMMA LeadsFirst ==
  ASSUME NEW b, NEW ms \in Seq(Messages), ms # << >>, NEW m, NEW e,
         Leads(b, ms, m, e)
  PROVE  \E d \in Boards : Takes(b, Head(ms), m, d) /\ Leads(d, Tail(ms), m, e)
<1> DEFINE n == Len(ms)
           rest == Tail(ms)
<1>1. /\ n \in Nat \ {0} /\ Len(rest) = n - 1 /\ Head(ms) = ms[1]
      /\ \A i \in 1 .. n - 1 : rest[i] = ms[i + 1]
  OBVIOUS
<1>2. PICK f \in [1 .. n + 1 -> Boards] :
        /\ f[1] = b /\ f[n + 1] = e
        /\ \A i \in 1 .. n : Takes(f[i], ms[i], m, f[i + 1])
  BY DEF Leads
<1> DEFINE g == [i \in 1 .. (n - 1) + 1 |-> f[i + 1]]
<1> HIDE DEF n, rest
<1>3. g \in [1 .. (n - 1) + 1 -> Boards]
  BY <1>1
<1>4. g[1] = f[2] /\ g[(n - 1) + 1] = e /\ f[2] \in Boards
  BY <1>1, <1>2
<1>5. ASSUME NEW i \in 1 .. n - 1
      PROVE  Takes(g[i], rest[i], m, g[i + 1])
  <2>1. /\ g[i] = f[i + 1] /\ g[i + 1] = f[(i + 1) + 1] /\ rest[i] = ms[i + 1]
        /\ i + 1 \in 1 .. n
    BY <1>1
  <2> HIDE DEF g
  <2> QED BY <1>2, <2>1
<1>6. Takes(b, Head(ms), m, f[2])
  <2>1. 1 \in 1 .. n /\ 1 + 1 = 2
    BY <1>1
  <2> QED BY <1>1, <1>2, <2>1
<1>7. Leads(f[2], rest, m, e)
  <2> HIDE DEF g
  <2>1. Len(rest) + 1 = (n - 1) + 1 /\ Len(rest) = n - 1
    BY <1>1
  <2> QED BY <1>3, <1>4, <1>5, <2>1 DEF Leads
<1> QED BY <1>4, <1>6, <1>7 DEF rest

(* On a board where m does not act nothing is sown.                        *)
LEMMA LeadsIdle ==
  ASSUME NEW b, NEW ms \in Seq(Messages), NEW m, NEW e, Leads(b, ms, m, e),
         b.gameEnded \/ b.playerToAct # m
  PROVE  e = b /\ (b.gameEnded \/ NoSow(ms))
<1> DEFINE n == Len(ms)
<1>1. n \in Nat
  OBVIOUS
<1>2. PICK f \in [1 .. n + 1 -> Boards] :
        /\ f[1] = b /\ f[n + 1] = e
        /\ \A i \in 1 .. n : Takes(f[i], ms[i], m, f[i + 1])
  BY DEF Leads
<1> DEFINE T == {i \in 0 .. n : f[i + 1] = b}
<1> HIDE DEF n
<1>3. 0 \in T
  BY <1>1, <1>2
<1>4. ASSUME NEW i \in 0 .. n - 1, i \in T
      PROVE  i + 1 \in T
  <2>1. i + 1 \in 1 .. n /\ i + 1 \in 0 .. n /\ f[i + 1] = b
    BY <1>1, <1>4
  <2>2. Takes(b, ms[i + 1], m, f[(i + 1) + 1])
    BY <1>2, <2>1
  <2>3. f[(i + 1) + 1] = b
    BY <2>2 DEF Takes
  <2> QED BY <2>1, <2>3
<1>5. 0 .. n \subseteq T
  <2> HIDE DEF T
  <2> QED BY <1>1, <1>3, <1>4, SetInduction
<1>6. e = b
  <2>1. n \in 0 .. n
    BY <1>1
  <2> QED BY <1>2, <1>5, <2>1
<1>7. ASSUME ~ b.gameEnded, NEW i \in 1 .. n
      PROVE  ms[i].action # "Sow"
  <2>1. i - 1 \in 0 .. n /\ (i - 1) + 1 = i
    BY <1>1
  <2>2. f[i] = b
    BY <1>5, <2>1
  <2>3. Takes(b, ms[i], m, f[i + 1])
    BY <1>2, <2>2
  <2> QED BY <1>7, <2>3 DEF Takes
<1> QED BY <1>6, <1>7 DEF NoSow, n

-----------------------------------------------------------------------------
(* Types.  End makes the page read the last State, so one must have come   *)
(* before: the first message to a new page is a State.                     *)

IsState(msg) == msg.action = "State"

Started ==
  \A p \in Players :
    /\ p \notin Open => toTable[p] = << >> /\ toPage[p] = << >>
    /\ p \in Open /\ page[p].firstState =>
         /\ toPage[p] # << >> /\ IsState(Head(toPage[p]))
         /\ page[p].timers = << >> /\ page[p].acting = 1
    /\ p \in Open /\ ~ page[p].firstState => page[p].lastState \in [Houses -> Nat]

LEMMA MessageKinds ==
  ASSUME NEW msg \in Messages
  PROVE  /\ IsState(msg) => msg.houses \in [Houses -> Nat] /\ msg.playerToAct \in Players
         /\ msg.action = "Sow" => msg.house \in LocalPits
         /\ msg.action \in {"State", "Sow", "End"}
         /\ msg.action = "End" => msg = EndMsg
BY DEF Messages, EndMsg, IsState

LEMMA MessageTypes ==
  /\ \A hs \in [Houses -> Nat], q \in Players :
       State(hs, q) \in Messages /\ IsState(State(hs, q))
       /\ State(hs, q).houses = hs /\ State(hs, q).playerToAct = q
  /\ \A pit \in LocalPits :
       /\ SowMsg(pit) \in Messages
       /\ SowMsg(pit).action = "Sow" /\ SowMsg(pit).house = pit
  /\ EndMsg \in Messages /\ EndMsg.action = "End"
BY DEF State, SowMsg, EndMsg, Messages, IsState

LEMMA PitNumbers ==
  /\ \A pit \in LocalPits : /\ RemotePit(pit) \in SidePits(1)
                            /\ RemotePit(RemotePit(pit)) = pit
                            /\ RemotePit(pit) = PitOnWay(1, pit)
  /\ \A id \in SidePits(1) : RemotePit(id) \in LocalPits
  /\ \A id \in SidePits(1) : RemotePit(RemotePit(id)) = id
  /\ \A id \in SidePits(2) : LocalOf(id) \in LocalPits /\ PitOnWay(2, LocalOf(id)) = id
BY PitsAssumption
   DEF LocalPits, RemotePit, SidePits, OwnFirst, PitOnWay, LocalOf, NumberOfHouses

LEMMA RealMoveType ==
  ASSUME NEW c \in Pages, NEW id \in SidePits(1) \union SidePits(2)
  PROVE  LET sown == SownPits(c.pits, c.acting, id)
             new == RealMove(c, id)
         IN  /\ new \in Pages
             /\ new.pits = PerformSteal(sown.pits, c.acting, sown.last)
             /\ new.acting = NextSide(sown.pits, c.acting, sown.last)
             /\ new.firstState = c.firstState /\ new.gameEnded = c.gameEnded
             /\ new.lastState = c.lastState /\ new.timers = c.timers
             /\ new.open = TRUE
<1> DEFINE side == c.acting
           sown == SownPits(c.pits, side, id)
           across == OppositePitId(sown.last)
           stolen == PerformSteal(sown.pits, side, sown.last)
           turn == NextSide(sown.pits, side, sown.last)
<1>1. /\ NUMBER_OF_PITS \in Nat \ {0} /\ NumberOfHouses = 2 * NUMBER_OF_PITS + 2
      /\ OwnFirst = NUMBER_OF_PITS + 2 /\ Lap = 2 * NUMBER_OF_PITS + 1
      /\ Ids = 1 .. NumberOfHouses
      /\ id \in 2 .. NumberOfHouses - 1
  BY PitsAssumption DEF NumberOfHouses, OwnFirst, Ids, Lap, SidePits
<1>2. c.pits \in [Ids -> Nat] /\ side \in Sides
  BY DEF Pages
<1>3. \E L \in 0 .. Lap - 1 : PitOnWay(side, L) = id
  <2>1. CASE side = 2
    <3>1. CASE id >= OwnFirst
      <4>1. id - OwnFirst \in 0 .. Lap - 1 /\ PitOnWay(2, id - OwnFirst) = id
        BY <1>1, <3>1 DEF PitOnWay
      <4> QED BY <2>1, <4>1
    <3>2. CASE id < OwnFirst
      <4>1. NumberOfHouses - id \in 0 .. Lap - 1 /\ PitOnWay(2, NumberOfHouses - id) = id
        BY <1>1, <3>2 DEF PitOnWay
      <4> QED BY <2>1, <4>1
    <3> QED BY <1>1, <3>1, <3>2
  <2>2. CASE side = 1
    <3>1. CASE id >= OwnFirst
      <4>1. id - 1 \in 0 .. Lap - 1 /\ PitOnWay(1, id - 1) = id
        BY <1>1, <3>1 DEF PitOnWay
      <4> QED BY <2>2, <4>1
    <3>2. CASE id < OwnFirst
      <4>1. OwnFirst - 1 - id \in 0 .. Lap - 1 /\ PitOnWay(1, OwnFirst - 1 - id) = id
        BY <1>1, <3>2 DEF PitOnWay
      <4> QED BY <2>2, <4>1
    <3> QED BY <1>1, <3>1, <3>2
  <2> QED BY <1>2, <2>1, <2>2 DEF Sides
<1>4. sown.pits \in [Ids -> Nat] /\ sown.last \in Ids
  <2>1. PICK L \in 0 .. Lap - 1 : PitOnWay(side, L) = id
    BY <1>3
  <2> QED BY <1>2, <2>1, SownPitsType
<1>5. across \in Ids /\ HomePit(side) \in Ids
  BY <1>1, <1>4 DEF OppositePitId, HomePit
<1>6. stolen \in [Ids -> Nat]
  <2> HIDE DEF sown, across, side
  <2>1. sown.pits[across] \in Nat
    BY <1>4, <1>5
  <2> QED BY <1>4, <1>5, <2>1 DEF PerformSteal, across
<1>7. turn \in Sides
  BY <1>2 DEF NextSide, Sides
<1>8. RealMove(c, id) = [c EXCEPT !.pits = stolen, !.acting = turn]
  BY DEF RealMove
<1> HIDE DEF stolen, turn, sown, side
<1>9. /\ RealMove(c, id) \in Pages
      /\ RealMove(c, id).pits = stolen /\ RealMove(c, id).acting = turn
      /\ RealMove(c, id).firstState = c.firstState
      /\ RealMove(c, id).gameEnded = c.gameEnded
      /\ RealMove(c, id).lastState = c.lastState
      /\ RealMove(c, id).timers = c.timers
      /\ RealMove(c, id).open = TRUE
  BY <1>6, <1>7, <1>8 DEF Pages
<1> QED BY <1>9 DEF stolen, turn, sown, side

LEMMA GameStateType ==
  ASSUME NEW p \in Players, NEW hs \in [Houses -> Nat]
  PROVE  GameState(p, hs) \in [Ids -> Nat]
BY ShownHouses

-----------------------------------------------------------------------------
(* What each action does.                                                  *)

LEMMA PageKinds ==
  ASSUME TypeOK
  PROVE  /\ Open \subseteq Players
         /\ \A p \in Players : p \in Open <=> page[p].open
         /\ \A p \in Open : page[p] \in Pages
         /\ \A p \in Players : p \notin Open => page[p] = NoPage
         /\ houses \in [Houses -> Nat] /\ playerToAct \in Players
         /\ gameEnded \in BOOLEAN
<1>1. \A p \in Players : page[p] \in Pages \union {NoPage}
  BY DEF TypeOK
<1>2. ~ NoPage.open
  BY DEF NoPage
<1>3. \A c \in Pages : c.open
  BY DEF Pages
<1> QED BY <1>1, <1>2, <1>3, SameRules DEF Open, TypeOK, Table!TypeOK

LEMMA NewPageType ==
  /\ NewPage \in Pages /\ NewPage.open /\ NewPage.firstState /\ ~ NewPage.gameEnded
  /\ NewPage.timers = << >> /\ NewPage.acting = 1
BY StonesAssumption DEF NewPage, Pages, Sides

LEMMA OpenPageFacts ==
  ASSUME TypeOK, NEW p \in Players, OpenPage(p)
  PROVE  /\ page' \in [Players -> Pages \union {NoPage}]
         /\ page'[p] = NewPage /\ \A q \in Players : q # p => page'[q] = page[q]
         /\ Open' = Open \union {p}
         /\ toPage'[p] = <<State(houses, playerToAct)>>
         /\ \A q \in Players : q # p => toPage'[q] = toPage[q]
         /\ \A q \in Players : q # p => toTable'[q] = toTable[q]
         /\ toTable'[p] = << >> \/ (toTable'[p] = toTable[p] /\ p \in astray')
         /\ \A q \in Players : q # p => (q \in astray' <=> q \in astray)
         /\ UNCHANGED <<houses, playerToAct, gameEnded>>
<1>1. /\ page \in [Players -> Pages \union {NoPage}]
      /\ toPage \in [Players -> Seq(Messages)] /\ toTable \in [Players -> Seq(LocalPits)]
  BY DEF TypeOK
<1>2. /\ page' \in [Players -> Pages \union {NoPage}]
      /\ page'[p] = NewPage /\ \A q \in Players : q # p => page'[q] = page[q]
  BY <1>1, NewPageType DEF OpenPage
<1>3. Open' = Open \union {p}
  BY <1>2, NewPageType DEF Open
<1>4. /\ toPage'[p] = <<State(houses, playerToAct)>>
      /\ \A q \in Players : q # p => toPage'[q] = toPage[q]
  BY <1>1 DEF OpenPage
<1>5. /\ \A q \in Players : q # p => toTable'[q] = toTable[q]
      /\ toTable'[p] = << >> \/ (toTable'[p] = toTable[p] /\ p \in astray')
      /\ \A q \in Players : q # p => (q \in astray' <=> q \in astray)
  BY <1>1 DEF OpenPage
<1> QED BY <1>2, <1>3, <1>4, <1>5 DEF OpenPage, board

LEMMA ClickFacts ==
  ASSUME TypeOK, NEW p \in Players, NEW id \in SidePits(2), Click(p, id)
  PROVE  /\ p \in Open /\ page[p] \in Pages
         /\ page[p].pits[id] # 0 /\ page[p].acting = 2 /\ ~ page[p].gameEnded
         /\ page' \in [Players -> Pages \union {NoPage}]
         /\ page'[p] = RealMove(page[p], id) /\ page'[p] \in Pages
         /\ \A q \in Players : q # p => page'[q] = page[q]
         /\ Open' = Open
         /\ LocalOf(id) \in LocalPits
         /\ toTable'[p] = Append(toTable[p], LocalOf(id))
         /\ \A q \in Players : q # p => toTable'[q] = toTable[q]
         /\ Loses(page[p], id) => p \in astray'
         /\ astray \subseteq astray'
         /\ UNCHANGED <<houses, playerToAct, gameEnded, toPage>>
<1>1. /\ page \in [Players -> Pages \union {NoPage}]
      /\ toTable \in [Players -> Seq(LocalPits)]
  BY DEF TypeOK
<1>2. p \in Open /\ page[p] \in Pages
  BY PageKinds DEF Click
<1>3. RealMove(page[p], id) \in Pages /\ RealMove(page[p], id).open
  BY <1>2, RealMoveType
<1>4. /\ page' = [page EXCEPT ![p] = RealMove(page[p], id)]
      /\ toTable' = [toTable EXCEPT ![p] = Append(@, LocalOf(id))]
  BY DEF Click, ReportMove
<1>5. /\ page' \in [Players -> Pages \union {NoPage}]
      /\ page'[p] = RealMove(page[p], id)
      /\ \A q \in Players : q # p => page'[q] = page[q]
  BY <1>1, <1>3, <1>4
<1>6. Open' = Open
  BY <1>2, <1>3, <1>5, PageKinds DEF Open
<1>7. /\ toTable'[p] = Append(toTable[p], LocalOf(id))
      /\ \A q \in Players : q # p => toTable'[q] = toTable[q]
  BY <1>1, <1>4
<1> QED BY <1>2, <1>3, <1>5, <1>6, <1>7, PitNumbers DEF Click, InTurn, board

LEMMA TimerFacts ==
  ASSUME TypeOK, Started, NEW p \in Players, Timer(p)
  PROVE  LET c == page[p]
             id == Head(c.timers)
             moved == RealMove(c, id)
         IN  /\ p \in Open /\ c \in Pages /\ c.timers # << >> /\ ~ c.firstState
             /\ id \in SidePits(1)
             /\ page' \in [Players -> Pages \union {NoPage}]
             /\ page'[p] \in Pages
             /\ page'[p].pits = moved.pits /\ page'[p].acting = moved.acting
             /\ page'[p].timers = Tail(c.timers)
             /\ page'[p].firstState = c.firstState
             /\ page'[p].gameEnded = c.gameEnded
             /\ page'[p].lastState = c.lastState
             /\ \A q \in Players : q # p => page'[q] = page[q]
             /\ Open' = Open
             /\ Loses(c, id) => p \in astray'
             /\ astray \subseteq astray'
             /\ UNCHANGED <<houses, playerToAct, gameEnded, toPage, toTable>>
<1> DEFINE c == page[p]
           id == Head(c.timers)
           moved == RealMove(c, id)
           new == [moved EXCEPT !.timers = Tail(c.timers)]
<1>1. page \in [Players -> Pages \union {NoPage}]
  BY DEF TypeOK
<1>2. p \in Open /\ c \in Pages /\ c.timers # << >>
  BY PageKinds DEF Timer
<1>3. ~ c.firstState
  BY <1>2 DEF Started
<1>4. c.timers \in Seq(SidePits(1))
  BY <1>2 DEF Pages
<1>5. id \in SidePits(1) /\ Tail(c.timers) \in Seq(SidePits(1))
  BY <1>2, <1>4
<1>6. moved \in Pages /\ moved.firstState = c.firstState
      /\ moved.gameEnded = c.gameEnded /\ moved.lastState = c.lastState
  BY <1>2, <1>5, RealMoveType
<1>7. page' = [page EXCEPT ![p] = new]
  <2>1. page' = [page EXCEPT ![p] =
                    [RealMove(page[p], Head(page[p].timers))
                       EXCEPT !.timers = Tail(@)]]
    BY DEF Timer
  <2>2. moved.timers = c.timers
    BY <1>2, <1>5, RealMoveType
  <2>3. [moved EXCEPT !.timers = Tail(@)] = new
    BY <2>2
  <2> QED BY <2>1, <2>3
<1> HIDE DEF c, id, moved
<1>8. /\ new \in Pages /\ new.pits = moved.pits /\ new.acting = moved.acting
      /\ new.timers = Tail(c.timers) /\ new.firstState = moved.firstState
      /\ new.gameEnded = moved.gameEnded /\ new.lastState = moved.lastState
      /\ new.open = TRUE
  BY <1>5, <1>6 DEF Pages
<1> HIDE DEF new
<1>9. /\ page' \in [Players -> Pages \union {NoPage}] /\ page'[p] = new
      /\ \A q \in Players : q # p => page'[q] = page[q]
  BY <1>1, <1>7, <1>8
<1>10. Open' = Open
  BY <1>2, <1>8, <1>9, PageKinds DEF Open
<1>11. /\ Loses(c, id) => p \in astray'
       /\ astray \subseteq astray'
       /\ UNCHANGED <<houses, playerToAct, gameEnded, toPage, toTable>>
  BY DEF Timer, board, c, id
<1> QED BY <1>2, <1>3, <1>5, <1>6, <1>8, <1>9, <1>10, <1>11 DEF c, id, moved

LEMMA ReceiveFacts ==
  ASSUME TypeOK, Started, NEW p \in Players, Receive(p)
  PROVE  LET c == page[p]
             msg == Head(toPage[p])
             new == page'[p]
         IN  /\ p \in Open /\ c \in Pages /\ toPage[p] # << >> /\ msg \in Messages
             /\ page' \in [Players -> Pages \union {NoPage}]
             /\ new \in Pages
             /\ \A q \in Players : q # p => page'[q] = page[q]
             /\ Open' = Open
             /\ toPage'[p] = Tail(toPage[p])
             /\ \A q \in Players : q # p => toPage'[q] = toPage[q]
             /\ ~ new.firstState
             /\ IsState(msg) =>
                  /\ new.lastState = msg.houses /\ new.timers = c.timers
                  /\ new.gameEnded = c.gameEnded
                  /\ c.firstState => /\ new.pits = GameState(p, msg.houses)
                                     /\ new.acting = SideOf(p, msg.playerToAct)
                  /\ ~ c.firstState => new.pits = c.pits /\ new.acting = c.acting
             /\ msg.action = "Sow" =>
                  /\ ~ c.firstState
                  /\ new.timers = Append(c.timers, RemotePit(msg.house))
                  /\ new.pits = c.pits /\ new.acting = c.acting
                  /\ new.lastState = c.lastState
             /\ msg.action = "End" =>
                  /\ ~ c.firstState
                  /\ new.pits = GameState(p, c.lastState)
                  /\ new.lastState = c.lastState
             /\ UNCHANGED <<houses, playerToAct, gameEnded, toTable, astray>>
<1> DEFINE c == page[p]
           msg == Head(toPage[p])
           new == CASE msg.action = "State" -> HandleState(p, c, msg)
                    [] msg.action = "Sow" ->
                         [c EXCEPT !.timers = Append(@, RemotePit(msg.house))]
                    [] msg.action = "End" -> HandleEnd(p, c)
<1>1. /\ page \in [Players -> Pages \union {NoPage}]
      /\ toPage \in [Players -> Seq(Messages)]
  BY DEF TypeOK
<1>2. toPage[p] # << >> /\ msg \in Messages /\ Tail(toPage[p]) \in Seq(Messages)
  BY <1>1 DEF Receive
<1>3. p \in Open /\ c \in Pages
  BY <1>2, PageKinds DEF Started
<1>4. /\ page' = [page EXCEPT ![p] = new]
      /\ toPage' = [toPage EXCEPT ![p] = Tail(@)]
      /\ UNCHANGED <<houses, playerToAct, gameEnded, toTable, astray>>
  BY DEF Receive, board
<1>5. /\ c.firstState => IsState(msg) /\ c.acting = 1
      /\ ~ c.firstState => c.lastState \in [Houses -> Nat]
      /\ c.timers \in Seq(SidePits(1))
  BY <1>3 DEF Started, Pages
<1> DEFINE Told == /\ new \in Pages /\ ~ new.firstState
                   /\ IsState(msg) =>
                        /\ new.lastState = msg.houses /\ new.timers = c.timers
                        /\ new.gameEnded = c.gameEnded
                        /\ c.firstState =>
                             /\ new.pits = GameState(p, msg.houses)
                             /\ new.acting = SideOf(p, msg.playerToAct)
                        /\ ~ c.firstState => new.pits = c.pits /\ new.acting = c.acting
                   /\ msg.action = "Sow" =>
                        /\ ~ c.firstState
                        /\ new.timers = Append(c.timers, RemotePit(msg.house))
                        /\ new.pits = c.pits /\ new.acting = c.acting
                        /\ new.lastState = c.lastState
                   /\ msg.action = "End" =>
                        /\ ~ c.firstState
                        /\ new.pits = GameState(p, c.lastState)
                        /\ new.lastState = c.lastState
<1>6. Told
  <2> HIDE DEF c, msg
  <2>1. CASE IsState(msg)
    <3>1. new = HandleState(p, c, msg) /\ msg.action = "State"
      BY <2>1 DEF IsState
    <3>2. msg.houses \in [Houses -> Nat] /\ msg.playerToAct \in Players
      BY <1>2, <2>1, MessageKinds DEF msg
    <3>3. GameState(p, msg.houses) \in [Ids -> Nat]
      BY <3>2, GameStateType
    <3> HIDE DEF new
    <3>4. CASE c.firstState
      <4>1. new = [c EXCEPT !.firstState = FALSE, !.lastState = msg.houses,
                            !.pits = GameState(p, msg.houses),
                            !.acting = IF msg.playerToAct = p THEN 3 - @ ELSE @]
        BY <3>1, <3>4 DEF HandleState
      <4> DEFINE turn == SideOf(p, msg.playerToAct)
                 shown == GameState(p, msg.houses)
      <4>2. turn = (IF msg.playerToAct = p THEN 3 - c.acting ELSE c.acting)
            /\ turn \in Sides
        BY <1>5, <3>4 DEF SideOf, Sides
      <4>3. new = [c EXCEPT !.firstState = FALSE, !.lastState = msg.houses,
                            !.pits = shown, !.acting = turn]
        BY <4>1, <4>2
      <4> HIDE DEF turn, shown
      <4>4. /\ new \in Pages /\ ~ new.firstState /\ new.lastState = msg.houses
            /\ new.timers = c.timers /\ new.gameEnded = c.gameEnded
            /\ new.pits = shown /\ new.acting = turn
        BY <1>3, <3>2, <3>3, <4>2, <4>3 DEF Pages, c, shown
      <4> QED BY <3>1, <3>4, <4>4 DEF turn, shown
    <3>5. CASE ~ c.firstState
      <4>1. new = [c EXCEPT !.lastState = msg.houses]
        BY <3>1, <3>5 DEF HandleState
      <4>2. /\ new \in Pages /\ ~ new.firstState /\ new.lastState = msg.houses
            /\ new.timers = c.timers /\ new.gameEnded = c.gameEnded
            /\ new.pits = c.pits /\ new.acting = c.acting
        BY <1>3, <3>2, <3>5, <4>1 DEF Pages, c
      <4> QED BY <3>1, <3>5, <4>2
    <3> QED BY <3>4, <3>5
  <2>2. CASE msg.action = "Sow"
    <3>1. new = [c EXCEPT !.timers = Append(@, RemotePit(msg.house))]
      BY <2>2
    <3>2. RemotePit(msg.house) \in SidePits(1)
      BY <1>2, <2>2, MessageKinds, PitNumbers DEF msg
    <3>3. Append(c.timers, RemotePit(msg.house)) \in Seq(SidePits(1))
      BY <1>5, <3>2
    <3>4. ~ c.firstState
      BY <1>5, <2>2 DEF IsState
    <3> HIDE DEF new
    <3>5. /\ new \in Pages /\ ~ new.firstState
          /\ new.timers = Append(c.timers, RemotePit(msg.house))
          /\ new.pits = c.pits /\ new.acting = c.acting
          /\ new.lastState = c.lastState
      BY <1>3, <3>1, <3>3, <3>4 DEF Pages, c
    <3> QED BY <2>2, <3>4, <3>5 DEF IsState
  <2>3. CASE msg.action = "End"
    <3>1. new = [c EXCEPT !.gameEnded = TRUE, !.pits = GameState(p, c.lastState)]
      BY <2>3 DEF HandleEnd
    <3>2. ~ c.firstState /\ c.lastState \in [Houses -> Nat]
      BY <1>5, <2>3 DEF IsState
    <3>3. GameState(p, c.lastState) \in [Ids -> Nat]
      BY <3>2, GameStateType
    <3> HIDE DEF new
    <3>4. /\ new \in Pages /\ ~ new.firstState
          /\ new.pits = GameState(p, c.lastState)
          /\ new.lastState = c.lastState
      BY <1>3, <3>1, <3>2, <3>3 DEF Pages, c
    <3> QED BY <2>3, <3>2, <3>4 DEF IsState
  <2> QED BY <1>2, <2>1, <2>2, <2>3, MessageKinds DEF msg, IsState
<1> HIDE DEF new
<1>7. /\ page' \in [Players -> Pages \union {NoPage}] /\ page'[p] = new
      /\ \A q \in Players : q # p => page'[q] = page[q]
  BY <1>1, <1>4, <1>6
<1>8. Open' = Open
  <2>1. new.open
    BY <1>6 DEF Pages
  <2> QED BY <1>3, <1>7, <2>1, PageKinds DEF Open
<1>9. /\ toPage'[p] = Tail(toPage[p])
      /\ \A q \in Players : q # p => toPage'[q] = toPage[q]
  BY <1>1, <1>4
<1> QED BY <1>2, <1>3, <1>4, <1>6, <1>7, <1>8, <1>9

(* Sequences put together, message by message.                             *)
LEMMA ConcatAppend ==
  ASSUME NEW S, NEW ms \in Seq(S), NEW s \in Seq(S), NEW x \in S
  PROVE ms \o Append(s, x) = Append(ms \o s, x)
OBVIOUS

LEMMA ConcatFew ==
  ASSUME NEW S, NEW ms \in Seq(S), NEW sow \in S
  PROVE  /\ ms \o << >> = ms
         /\ ms \o <<sow>> = Append(ms, sow)
OBVIOUS

LEMMA OneTold ==
  ASSUME NEW S, NEW first \in Seq(S), NEW state \in S
  PROVE  (first \o <<state>>) \o << >> = Append(first, state)
<1>1. Append(first, state) \in Seq(S) /\ first \o <<state>> = Append(first, state)
  OBVIOUS
<1>2. Append(first, state) \o << >> = Append(first, state)
  BY <1>1
<1> QED BY <1>1, <1>2, Zenon

LEMMA TwoTold ==
  ASSUME NEW S, NEW first \in Seq(S), NEW state \in S, NEW end \in S
  PROVE  (first \o <<state>>) \o <<end>> = Append(Append(first, state), end)
<1>1. Append(first, state) \in Seq(S) /\ first \o <<state>> = Append(first, state)
  OBVIOUS
<1>2. Append(first, state) \o <<end>> = Append(Append(first, state), end)
  BY <1>1
<1> QED BY <1>1, <1>2, Zenon

(* What Sent adds to the messages on their way.                            *)
Joined(ms, sow, state, end) ==
  /\ ms \o (<< >> \o <<state>> \o << >>) = Append(ms, state)
  /\ ms \o (<< >> \o <<state>> \o <<end>>) = Append(Append(ms, state), end)
  /\ ms \o (<<sow>> \o <<state>> \o << >>) = Append(Append(ms, sow), state)
  /\ ms \o (<<sow>> \o <<state>> \o <<end>>)
       = Append(Append(Append(ms, sow), state), end)

LEMMA Messaged ==
  ASSUME NEW S, NEW ms \in Seq(S), NEW sow \in S, NEW state \in S, NEW end \in S
  PROVE  Joined(ms, sow, state, end)
<1> DEFINE none == << >>
           first == <<sow>>
<1>1. none \in Seq(S) /\ first \in Seq(S)
  OBVIOUS
<1>2. ms \o none = ms /\ ms \o first = Append(ms, sow)
  BY ConcatFew
<1> HIDE DEF none, first
<1>3. ms \o (none \o <<state>> \o << >>) = Append(ms, state)
  BY <1>1, <1>2, OneTold, ConcatAppend
<1>4. ms \o (none \o <<state>> \o <<end>>) = Append(Append(ms, state), end)
  <2>1. (none \o <<state>>) \o <<end>> = Append(Append(none, state), end)
    BY <1>1, TwoTold
  <2> DEFINE longer == Append(none, state)
  <2>2. ms \o longer = Append(ms \o none, state)
    BY <1>1, ConcatAppend
  <2>3. longer \in Seq(S)
    BY <1>1
  <2>4. ms \o Append(longer, end) = Append(ms \o longer, end)
    <3> HIDE DEF longer
    <3> QED BY <2>3, ConcatAppend
  <2> QED BY <2>1, <2>2, <2>4, <1>2, Zenon
<1>5. ms \o (first \o <<state>> \o << >>) = Append(Append(ms, sow), state)
  BY <1>1, <1>2, OneTold, ConcatAppend
<1>6. ms \o (first \o <<state>> \o <<end>>)
        = Append(Append(Append(ms, sow), state), end)
  <2>1. (first \o <<state>>) \o <<end>> = Append(Append(first, state), end)
    BY <1>1, TwoTold
  <2> DEFINE longer == Append(first, state)
  <2>2. ms \o longer = Append(ms \o first, state)
    BY <1>1, ConcatAppend
  <2>3. longer \in Seq(S)
    BY <1>1
  <2>4. ms \o Append(longer, end) = Append(ms \o longer, end)
    <3> HIDE DEF longer
    <3> QED BY <2>3, ConcatAppend
  <2> QED BY <2>1, <2>2, <2>4, <1>2, Zenon
<1> QED BY <1>3, <1>4, <1>5, <1>6, Zenon DEF none, first, Joined

LEMMA HandleFacts ==
  ASSUME TypeOK, Started, NEW p \in Players, Handle(p)
  PROVE  LET pit == Head(toTable[p])
             state == State(houses', playerToAct')
         IN  /\ p \in Open /\ toTable[p] # << >> /\ pit \in LocalPits
             /\ toTable' \in [Players -> Seq(LocalPits)]
             /\ toTable'[p] = Tail(toTable[p])
             /\ \A q \in Players : q # p => toTable'[q] = toTable[q]
             /\ UNCHANGED <<page, opened, astray>> /\ Open' = Open
             /\ \/ /\ Legal(p, pit)
                   /\ houses' = AfterMove(houses, p, pit)
                   /\ playerToAct' = NextPlayer(houses, p, pit)
                   /\ gameEnded' = EndsGame(houses, p, pit)
                   /\ \A q \in Players \ Open : toPage'[q] = toPage[q]
                   /\ \A q \in Open :
                        toPage'[q] = toPage[q] \o Sent(p, q, pit, gameEnded')
                   /\ DOMAIN toPage' = Players
                \/ /\ ~ Legal(p, pit)
                   /\ UNCHANGED <<houses, playerToAct, gameEnded, toPage>>
<1> DEFINE pit == Head(toTable[p])
<1>1. toTable \in [Players -> Seq(LocalPits)] /\ toTable[p] # << >>
  BY DEF TypeOK, Handle
<1>2. p \in Open
  BY <1>1 DEF Started
<1>3. toTable[p] \in Seq(LocalPits)
  BY <1>1
<1>4. pit \in LocalPits /\ Tail(toTable[p]) \in Seq(LocalPits)
  BY <1>1, <1>3
<1>5. /\ toTable' \in [Players -> Seq(LocalPits)]
      /\ toTable'[p] = Tail(toTable[p])
      /\ \A q \in Players : q # p => toTable'[q] = toTable[q]
  BY <1>1, <1>4 DEF Handle
<1>6. UNCHANGED <<page, opened, astray>> /\ Open' = Open
  BY DEF Handle, Open
<1>7. CASE /\ Table!MoveStones(pit, p)
           /\ toPage' = [q \in Players |->
                IF q \in Open THEN toPage[q] \o Sent(p, q, pit, gameEnded')
                ELSE toPage[q]]
  <2>1. /\ Legal(p, pit)
        /\ houses' = AfterMove(houses, p, pit)
        /\ playerToAct' = NextPlayer(houses, p, pit)
        /\ gameEnded' = EndsGame(houses, p, pit)
    BY <1>7, SameRules DEF Table!MoveStones, Legal
  <2>2. /\ \A q \in Players \ Open : toPage'[q] = toPage[q]
        /\ \A q \in Open :
             toPage'[q] = toPage[q] \o Sent(p, q, pit, gameEnded')
        /\ DOMAIN toPage' = Players
    BY <1>7 DEF Open
  <2> QED BY <1>1, <1>2, <1>4, <1>5, <1>6, <2>1, <2>2
<1>8. CASE ~ Legal(p, pit) /\ UNCHANGED <<board, toPage>>
  BY <1>1, <1>2, <1>4, <1>5, <1>6, <1>8 DEF board
<1> QED BY <1>7, <1>8 DEF Handle

(* What is sent, as the messages that are added.                           *)
SentAdds(p, q, pit, ms, ended) ==
  LET state == State(houses', playerToAct')
      told == Append(IF q = p THEN ms ELSE Append(ms, SowMsg(pit)), state)
  IN  ms \o Sent(p, q, pit, ended)
        = IF ended THEN Append(told, EndMsg) ELSE told

LEMMA SentFacts ==
  ASSUME NEW p, NEW q, NEW pit \in LocalPits, NEW ms \in Seq(Messages),
         houses' \in [Houses -> Nat], playerToAct' \in Players,
         NEW ended \in BOOLEAN
  PROVE  SentAdds(p, q, pit, ms, ended)
<1> DEFINE state == State(houses', playerToAct')
           sow == SowMsg(pit)
<1>1. state \in Messages /\ sow \in Messages /\ EndMsg \in Messages
  BY MessageTypes
<1> HIDE DEF state, sow
<1>2. Sent(p, q, pit, ended)
        = (IF q = p THEN << >> ELSE <<sow>>) \o <<state>>
            \o (IF ended THEN <<EndMsg>> ELSE << >>)
  BY Zenon DEF Sent, state, sow
<1>3. Joined(ms, sow, state, EndMsg)
  BY <1>1, Messaged
<1>4. CASE q = p /\ ended
  BY <1>2, <1>3, <1>4, Zenon DEF state, sow, Joined, SentAdds
<1>5. CASE q = p /\ ~ ended
  BY <1>2, <1>3, <1>5, Zenon DEF state, sow, Joined, SentAdds
<1>6. CASE q # p /\ ended
  BY <1>2, <1>3, <1>6, Zenon DEF state, sow, Joined, SentAdds
<1>7. CASE q # p /\ ~ ended
  BY <1>2, <1>3, <1>7, Zenon DEF state, sow, Joined, SentAdds
<1> QED BY <1>4, <1>5, <1>6, <1>7

(* The messages after a move.                                              *)
HandleTold(p, q) ==
  LET pit == Head(toTable[p])
      state == State(houses', playerToAct')
      ms == toPage[q]
  IN  Append(IF q = p THEN ms ELSE Append(ms, SowMsg(pit)), state)

LEMMA HandleMessages ==
  ASSUME TypeOK, Started, NEW p \in Players, Handle(p), Legal(p, Head(toTable[p]))
  PROVE  /\ houses' \in [Houses -> Nat] /\ playerToAct' \in Players
         /\ gameEnded' \in BOOLEAN
         /\ toPage' \in [Players -> Seq(Messages)]
         /\ \A q \in Players \ Open : toPage'[q] = toPage[q]
         /\ \A q \in Open :
              /\ HandleTold(p, q) \in Seq(Messages)
              /\ toPage'[q] = IF gameEnded' THEN Append(HandleTold(p, q), EndMsg)
                              ELSE HandleTold(p, q)
<1> DEFINE pit == Head(toTable[p])
           state == State(houses', playerToAct')
           told(q) == HandleTold(p, q)
<1>1. /\ houses \in [Houses -> Nat] /\ toPage \in [Players -> Seq(Messages)]
      /\ pit \in LocalPits
  BY HandleFacts, SameRules DEF TypeOK, Table!TypeOK
<1>2. /\ houses' = AfterMove(houses, p, pit)
      /\ playerToAct' = NextPlayer(houses, p, pit)
      /\ gameEnded' = EndsGame(houses, p, pit)
      /\ \A q \in Players \ Open : toPage'[q] = toPage[q]
      /\ \A q \in Open :
           toPage'[q] = toPage[q] \o Sent(p, q, pit, gameEnded')
      /\ DOMAIN toPage' = Players
      /\ toPage' = [q \in Players |->
           IF q \in Open THEN toPage[q] \o Sent(p, q, pit, gameEnded')
           ELSE toPage[q]]
  BY HandleFacts DEF Handle
<1>3. /\ houses' \in [Houses -> Nat] /\ playerToAct' \in Players
      /\ gameEnded' \in BOOLEAN
  <2> HIDE DEF pit
  <2>1. houses[Pit(p, pit)] # 0
    BY DEF Legal, pit
  <2> QED BY <1>1, <1>2, <2>1, AfterMoveType
<1>4. state \in Messages /\ SowMsg(pit) \in Messages /\ EndMsg \in Messages
  BY <1>1, <1>3, MessageTypes
<1>5. ASSUME NEW q \in Open
      PROVE  /\ told(q) \in Seq(Messages)
             /\ toPage'[q] = IF gameEnded' THEN Append(told(q), EndMsg)
                             ELSE told(q)
  <2>1. q \in Players /\ toPage[q] \in Seq(Messages)
    BY <1>1 DEF Open
  <2>2. told(q) \in Seq(Messages)
    <3> HIDE DEF state, pit
    <3> QED BY <1>4, <2>1 DEF HandleTold, state, pit
  <2>3. toPage[q] \o Sent(p, q, pit, gameEnded')
          = IF gameEnded' THEN Append(told(q), EndMsg) ELSE told(q)
    <3> DEFINE more == IF q = p THEN toPage[q] ELSE Append(toPage[q], SowMsg(pit))
               ended == gameEnded'
    <3>1. told(q) = Append(more, state)
      BY DEF HandleTold
    <3> HIDE DEF pit, told, ended
    <3>2. ended \in BOOLEAN
      BY <1>3 DEF ended
    <3>3. SentAdds(p, q, pit, toPage[q], ended)
      BY <1>1, <1>3, <2>1, <3>2, SentFacts
    <3> QED BY <3>1, <3>3, Zenon DEF ended, SentAdds
  <2> QED BY <1>2, <2>2, <2>3
<1>6. ASSUME NEW q \in Players
      PROVE  toPage'[q] \in Seq(Messages)
  <2>1. CASE q \in Open
    <3>1. told(q) \in Seq(Messages) /\ (toPage'[q] = told(q)
                                        \/ toPage'[q] = Append(told(q), EndMsg))
      BY <1>5, <2>1
    <3> HIDE DEF told
    <3> QED BY <1>4, <3>1
  <2>2. CASE q \notin Open
    BY <1>1, <1>2, <2>2
  <2> QED BY <2>1, <2>2
<1>7. toPage' \in [Players -> Seq(Messages)]
  BY <1>2, <1>6
<1> QED BY <1>2, <1>3, <1>5, <1>7

Typed == TypeOK /\ Started

LEMMA TypeInit == Init => Typed
<1> SUFFICES ASSUME Init PROVE Typed
  OBVIOUS
<1>1. Table!TypeOK
  BY SameRules, InitHousesStones, StonesAssumption
     DEF Init, Table!Init, Table!TypeOK
<1>2. /\ page \in [Players -> Pages \union {NoPage}]
      /\ toTable \in [Players -> Seq(LocalPits)]
      /\ toPage \in [Players -> Seq(Messages)]
      /\ opened \in 0 .. MaxPages
      /\ astray \subseteq Players
  BY PagesAssumption DEF Init
<1>3. TypeOK
  BY <1>1, <1>2 DEF TypeOK
<1>4. Open = {}
  BY DEF Init, Open, NoPage
<1> QED BY <1>3, <1>4 DEF Typed, Started, Init

LEMMA TypeStep ==
  ASSUME Typed, [Next]_vars
  PROVE  Typed'
<1>1. /\ TypeOK /\ Started
      /\ houses \in [Houses -> Nat] /\ playerToAct \in Players /\ gameEnded \in BOOLEAN
      /\ page \in [Players -> Pages \union {NoPage}]
      /\ toTable \in [Players -> Seq(LocalPits)]
      /\ toPage \in [Players -> Seq(Messages)]
      /\ opened \in 0 .. MaxPages /\ astray \subseteq Players
      /\ Open \subseteq Players
  BY SameRules DEF Typed, TypeOK, Table!TypeOK, Open
<1> DEFINE Boarded == /\ houses' \in [Houses -> Nat] /\ playerToAct' \in Players
                      /\ gameEnded' \in BOOLEAN
           Paged == page' \in [Players -> Pages \union {NoPage}]
           Moving == toTable' \in [Players -> Seq(LocalPits)]
           Telling == toPage' \in [Players -> Seq(Messages)]
           Counted == opened' \in 0 .. MaxPages /\ astray' \subseteq Players
<1>2. ASSUME Boarded, Paged, Moving, Telling, Counted
      PROVE  TypeOK'
  BY <1>2, SameRules DEF TypeOK, Table!TypeOK
<1>3. ASSUME NEW p \in Players, OpenPage(p)
      PROVE  Typed'
  <2>1. /\ Paged
        /\ page'[p] = NewPage /\ \A q \in Players : q # p => page'[q] = page[q]
        /\ Open' = Open \union {p}
        /\ toPage'[p] = <<State(houses, playerToAct)>>
        /\ \A q \in Players : q # p => toPage'[q] = toPage[q]
        /\ \A q \in Players : q # p => toTable'[q] = toTable[q]
        /\ UNCHANGED <<houses, playerToAct, gameEnded>>
    BY <1>1, <1>3, OpenPageFacts
  <2>2. State(houses, playerToAct) \in Messages /\ IsState(State(houses, playerToAct))
    BY <1>1, MessageTypes
  <2>3. Telling
    BY <1>1, <1>3, <2>2 DEF OpenPage
  <2>4. Moving
    <3>1. << >> \in Seq(LocalPits)
      OBVIOUS
    <3>2. toTable' = toTable \/ toTable' = [toTable EXCEPT ![p] = << >>]
      BY <1>3 DEF OpenPage
    <3> QED BY <1>1, <3>1, <3>2
  <2>5. Counted
    BY <1>1, <1>3, PagesAssumption DEF OpenPage
  <2>6. Started'
    <3> SUFFICES ASSUME NEW q \in Players
                 PROVE  /\ q \notin Open' => toTable'[q] = << >> /\ toPage'[q] = << >>
                        /\ q \in Open' /\ page'[q].firstState =>
                             /\ toPage'[q] # << >> /\ IsState(Head(toPage'[q]))
                             /\ page'[q].timers = << >> /\ page'[q].acting = 1
                        /\ q \in Open' /\ ~ page'[q].firstState =>
                             page'[q].lastState \in [Houses -> Nat]
      BY DEF Started, IsState
    <3>1. CASE q = p
      BY <2>1, <2>2, <3>1, NewPageType
    <3>2. CASE q # p
      BY <1>1, <2>1, <3>2 DEF Started
    <3> QED BY <3>1, <3>2
  <2> QED BY <1>1, <1>2, <2>1, <2>3, <2>4, <2>5, <2>6 DEF Typed
<1>4. ASSUME NEW p \in Players, NEW id \in SidePits(2), Click(p, id)
      PROVE  Typed'
  <2>1. /\ Paged
        /\ p \in Open /\ page[p] \in Pages /\ page[p].acting = 2
        /\ page'[p] = RealMove(page[p], id)
        /\ \A q \in Players : q # p => page'[q] = page[q]
        /\ Open' = Open
        /\ LocalOf(id) \in LocalPits
        /\ \A q \in Players : q # p => toTable'[q] = toTable[q]
        /\ UNCHANGED <<houses, playerToAct, gameEnded, toPage>>
    BY <1>1, <1>4, ClickFacts
  <2>2. Moving
    BY <1>1, <1>4, <2>1 DEF Click, ReportMove
  <2>3. Counted
    BY <1>1, <1>4 DEF Click
  <2>4. /\ page'[p].firstState = page[p].firstState
        /\ page'[p].lastState = page[p].lastState
    <3>1. id \in SidePits(1) \union SidePits(2)
      OBVIOUS
    <3>2. /\ RealMove(page[p], id).firstState = page[p].firstState
          /\ RealMove(page[p], id).lastState = page[p].lastState
      BY <2>1, <3>1, RealMoveType
    <3> QED BY <2>1, <3>2
  <2>5. Started'
    <3> SUFFICES ASSUME NEW q \in Players
                 PROVE  /\ q \notin Open' => toTable'[q] = << >> /\ toPage'[q] = << >>
                        /\ q \in Open' /\ page'[q].firstState =>
                             /\ toPage'[q] # << >> /\ IsState(Head(toPage'[q]))
                             /\ page'[q].timers = << >> /\ page'[q].acting = 1
                        /\ q \in Open' /\ ~ page'[q].firstState =>
                             page'[q].lastState \in [Houses -> Nat]
      BY DEF Started, IsState
    <3>1. CASE q = p
      BY <1>1, <2>1, <2>4, <3>1 DEF Started
    <3>2. CASE q # p
      BY <1>1, <2>1, <3>2 DEF Started
    <3> QED BY <3>1, <3>2
  <2> QED BY <1>1, <1>2, <2>1, <2>2, <2>3, <2>5 DEF Typed
<1>5. ASSUME NEW p \in Players, Timer(p)
      PROVE  Typed'
  <2>1. /\ Paged
        /\ p \in Open /\ ~ page[p].firstState
        /\ page'[p].firstState = page[p].firstState
        /\ page'[p].lastState = page[p].lastState
        /\ \A q \in Players : q # p => page'[q] = page[q]
        /\ Open' = Open
        /\ UNCHANGED <<houses, playerToAct, gameEnded, toPage, toTable>>
    BY <1>1, <1>5, TimerFacts
  <2>2. Counted
    BY <1>1, <1>5 DEF Timer
  <2>3. Started'
    <3> SUFFICES ASSUME NEW q \in Players
                 PROVE  /\ q \notin Open' => toTable'[q] = << >> /\ toPage'[q] = << >>
                        /\ q \in Open' /\ page'[q].firstState =>
                             /\ toPage'[q] # << >> /\ IsState(Head(toPage'[q]))
                             /\ page'[q].timers = << >> /\ page'[q].acting = 1
                        /\ q \in Open' /\ ~ page'[q].firstState =>
                             page'[q].lastState \in [Houses -> Nat]
      BY DEF Started, IsState
    <3>1. CASE q = p
      BY <1>1, <2>1, <3>1 DEF Started
    <3>2. CASE q # p
      BY <1>1, <2>1, <3>2 DEF Started
    <3> QED BY <3>1, <3>2
  <2> QED BY <1>1, <1>2, <2>1, <2>2, <2>3 DEF Typed
<1>6. ASSUME NEW p \in Players, Receive(p)
      PROVE  Typed'
  <2>1. /\ Paged
        /\ p \in Open /\ page[p] \in Pages /\ Head(toPage[p]) \in Messages
        /\ toPage[p] # << >>
        /\ ~ page'[p].firstState
        /\ IsState(Head(toPage[p])) => page'[p].lastState = Head(toPage[p]).houses
        /\ Head(toPage[p]).action = "Sow" => ~ page[p].firstState
                                       /\ page'[p].lastState = page[p].lastState
        /\ Head(toPage[p]).action = "End" => ~ page[p].firstState
                                       /\ page'[p].lastState = page[p].lastState
        /\ \A q \in Players : q # p => page'[q] = page[q]
        /\ \A q \in Players : q # p => toPage'[q] = toPage[q]
        /\ Open' = Open
        /\ UNCHANGED <<houses, playerToAct, gameEnded, toTable, astray>>
    BY <1>1, <1>6, ReceiveFacts
  <2>2. Telling
    BY <1>1, <1>6, <2>1 DEF Receive
  <2>3. Counted
    BY <1>1, <1>6 DEF Receive
  <2>4. page'[p].lastState \in [Houses -> Nat]
    BY <1>1, <2>1, MessageKinds DEF Started, IsState
  <2>5. Started'
    <3> SUFFICES ASSUME NEW q \in Players
                 PROVE  /\ q \notin Open' => toTable'[q] = << >> /\ toPage'[q] = << >>
                        /\ q \in Open' /\ page'[q].firstState =>
                             /\ toPage'[q] # << >> /\ IsState(Head(toPage'[q]))
                             /\ page'[q].timers = << >> /\ page'[q].acting = 1
                        /\ q \in Open' /\ ~ page'[q].firstState =>
                             page'[q].lastState \in [Houses -> Nat]
      BY DEF Started, IsState
    <3>1. CASE q = p
      BY <2>1, <2>4, <3>1
    <3>2. CASE q # p
      BY <1>1, <2>1, <3>2 DEF Started
    <3> QED BY <3>1, <3>2
  <2> QED BY <1>1, <1>2, <2>1, <2>2, <2>3, <2>5 DEF Typed
<1>7. ASSUME NEW p \in Players, Handle(p)
      PROVE  Typed'
  <2>1. /\ Moving
        /\ p \in Open
        /\ \A q \in Players : q # p => toTable'[q] = toTable[q]
        /\ UNCHANGED <<page, opened, astray>> /\ Open' = Open
        /\ ~ Legal(p, Head(toTable[p])) =>
             UNCHANGED <<houses, playerToAct, gameEnded, toPage>>
    BY <1>1, <1>7, HandleFacts
  <2>2. CASE ~ Legal(p, Head(toTable[p]))
    <3>1. Started'
      <4> SUFFICES ASSUME NEW q \in Players, q \notin Open
                   PROVE  toTable'[q] = << >>
        BY <1>1, <2>1, <2>2 DEF Started, IsState
      <4> QED BY <1>1, <2>1 DEF Started
    <3> QED BY <1>1, <1>2, <2>1, <2>2, <3>1 DEF Typed
  <2>3. CASE Legal(p, Head(toTable[p]))
    <3>1. /\ Boarded /\ Telling
          /\ \A q \in Players \ Open : toPage'[q] = toPage[q]
          /\ \A q \in Open :
               /\ HandleTold(p, q) \in Seq(Messages)
               /\ toPage'[q] = IF gameEnded' THEN Append(HandleTold(p, q), EndMsg)
                               ELSE HandleTold(p, q)
      BY <1>1, <1>7, <2>3, HandleMessages
    <3>2. Started'
      <4> SUFFICES ASSUME NEW q \in Players
                   PROVE  /\ q \notin Open => toTable'[q] = << >> /\ toPage'[q] = << >>
                          /\ q \in Open /\ page[q].firstState =>
                               toPage'[q] # << >> /\ IsState(Head(toPage'[q]))
        BY <1>1, <2>1 DEF Started, IsState
      <4>1. CASE q \notin Open
        BY <1>1, <2>1, <3>1, <4>1 DEF Started
      <4>2. ASSUME q \in Open, page[q].firstState
            PROVE  toPage'[q] # << >> /\ IsState(Head(toPage'[q]))
        <5>1. /\ toPage[q] \in Seq(Messages) /\ toPage[q] # << >>
              /\ IsState(Head(toPage[q]))
          BY <1>1, <4>2 DEF Started
        <5>2. /\ State(houses', playerToAct') \in Messages
              /\ SowMsg(Head(toTable[p])) \in Messages /\ EndMsg \in Messages
          <6>1. Head(toTable[p]) \in LocalPits
            BY <1>1, <1>7, HandleFacts
          <6> QED BY <3>1, <6>1, MessageTypes
        <5>3. /\ HandleTold(p, q) \in Seq(Messages) /\ HandleTold(p, q) # << >>
              /\ Head(HandleTold(p, q)) = Head(toPage[q])
          BY <5>1, <5>2, HeadTailAppend DEF HandleTold
        <5>4. /\ Append(HandleTold(p, q), EndMsg) # << >>
              /\ Head(Append(HandleTold(p, q), EndMsg)) = Head(HandleTold(p, q))
          BY <5>2, <5>3
        <5> QED BY <3>1, <4>2, <5>1, <5>3, <5>4
      <4> QED BY <4>1, <4>2
    <3> QED BY <1>1, <1>2, <2>1, <3>1, <3>2 DEF Typed
  <2> QED BY <2>2, <2>3
<1>8. CASE UNCHANGED vars
  <2>1. TypeOK'
    BY <1>1, <1>2, <1>8 DEF vars, board
  <2>2. Started'
    BY <1>1, <1>8 DEF Started, Open, vars, board, IsState
  <2> QED BY <2>1, <2>2 DEF Typed
<1> QED BY <1>3, <1>4, <1>5, <1>6, <1>7, <1>8 DEF Next

(* Pages, queues and the table's board have their types: among them that   *)
(* a page always has a State to show by the time it is told of the end.    *)
THEOREM TypeCorrect == Spec => []TypeOK
<1>1. Init => Typed
  BY TypeInit
<1>2. Typed /\ [Next]_vars => Typed'
  BY TypeStep
<1>3. Typed => TypeOK
  BY DEF Typed
<1> QED BY <1>1, <1>2, <1>3, PTL DEF Spec

-----------------------------------------------------------------------------
(* InPlay: while the game goes on, what is on its way between a page that  *)
(* is not astray and the table.  Either the page follows: the opponent's   *)
(* moves whose timers run, and then those in the messages, lead from the   *)
(* board that the page shows to the table's board.  Or the page leads: its *)
(* own moves that the table has not handled lead from the table's board to *)
(* the one that the page shows, unless they end the game.                  *)

(* Moves as the messages that tell of them.                                *)
Sows(f, s) == [i \in 1 .. Len(s) |-> SowMsg(f[s[i]])]

LEMMA SowsType ==
  ASSUME NEW S, NEW f \in [S -> LocalPits], NEW s \in Seq(S)
  PROVE  /\ Sows(f, s) \in Seq(Messages) /\ Len(Sows(f, s)) = Len(s)
         /\ \A i \in 1 .. Len(s) : /\ Sows(f, s)[i] = SowMsg(f[s[i]])
                                 /\ Sows(f, s)[i].action = "Sow"
<1> DEFINE n == Len(s)
           t == Sows(f, s)
<1>1. /\ n \in Nat /\ \A i \in 1 .. n : s[i] \in S
  OBVIOUS
<1>2. t = [i \in 1 .. n |-> SowMsg(f[s[i]])]
  BY DEF Sows
<1>3. ASSUME NEW i \in 1 .. n
      PROVE  /\ SowMsg(f[s[i]]) \in Messages /\ SowMsg(f[s[i]]).action = "Sow"
  BY <1>1, MessageTypes
<1> HIDE DEF t
<1>4. t \in [1 .. n -> Messages]
  BY <1>2, <1>3
<1> QED BY <1>1, <1>2, <1>3, <1>4 DEF t

LEMMA SowsSteps ==
  ASSUME NEW S, NEW f \in [S -> LocalPits], NEW s \in Seq(S)
  PROVE  /\ Sows(f, s) \in Seq(Messages)
         /\ s # << >> => /\ Sows(f, s) # << >>
                         /\ Head(Sows(f, s)) = SowMsg(f[Head(s)])
                         /\ Tail(Sows(f, s)) = Sows(f, Tail(s))
         /\ NoSow(Sows(f, s)) => s = << >>
<1> DEFINE n == Len(s)
           t == Sows(f, s)
<1>1. n \in Nat
  OBVIOUS
<1>2. /\ t \in Seq(Messages) /\ Len(t) = n
      /\ \A i \in 1 .. n : t[i] = SowMsg(f[s[i]]) /\ t[i].action = "Sow"
  BY SowsType
<1> HIDE DEF t
<1>3. ASSUME s # << >>
      PROVE  t # << >> /\ Head(t) = SowMsg(f[Head(s)]) /\ Tail(t) = Sows(f, Tail(s))
  <2> DEFINE rest == Tail(s)
             after == Sows(f, rest)
  <2>1. /\ n > 0 /\ n - 1 \in Nat /\ Head(s) = s[1]
        /\ rest \in Seq(S) /\ Len(rest) = n - 1
        /\ \A i \in 1 .. n - 1 : rest[i] = s[i + 1]
    BY <1>3
  <2>2. t # << >> /\ Head(t) = SowMsg(f[Head(s)])
    BY <1>1, <1>2, <2>1
  <2> HIDE DEF rest
  <2>3. /\ after \in Seq(Messages) /\ Len(after) = n - 1
        /\ \A i \in 1 .. n - 1 : after[i] = SowMsg(f[rest[i]])
    BY <2>1, SowsType
  <2>4. /\ Tail(t) \in Seq(Messages) /\ Len(Tail(t)) = n - 1
        /\ \A i \in 1 .. n - 1 : Tail(t)[i] = t[i + 1]
    BY <1>2, <2>1, <2>2
  <2>5. \A i \in 1 .. n - 1 : Tail(t)[i] = after[i]
    BY <1>1, <1>2, <2>1, <2>3, <2>4
  <2> HIDE DEF after
  <2>6. Tail(t) = after
    BY <2>3, <2>4, <2>5, SeqEqual
  <2> QED BY <2>2, <2>6 DEF after, rest
<1>4. NoSow(t) => s = << >>
  BY <1>1, <1>2 DEF NoSow
<1> QED BY <1>2, <1>3, <1>4 DEF t

LEMMA SowsNone ==
  ASSUME NEW f
  PROVE  Sows(f, << >>) = << >>
<1>1. Len(<< >>) = 0 /\ 1 .. 0 = {}
  OBVIOUS
<1>2. Sows(f, << >>) = [i \in {} |-> SowMsg(f[<< >>[i]])]
  BY <1>1 DEF Sows
<1> QED BY <1>2

LEMMA SowsOneMore ==
  ASSUME NEW S, NEW f \in [S -> LocalPits], NEW s \in Seq(S), NEW x \in S
  PROVE  Sows(f, Append(s, x)) = Append(Sows(f, s), SowMsg(f[x]))
<1> DEFINE n == Len(s)
           t == Sows(f, s)
           longer == Append(s, x)
           after == Sows(f, longer)
           msg == SowMsg(f[x])
<1>1. n \in Nat /\ Len(longer) = n + 1 /\ longer[n + 1] = x
      /\ longer \in Seq(S) /\ \A i \in 1 .. n : longer[i] = s[i]
  OBVIOUS
<1>2. t \in Seq(Messages) /\ Len(t) = n /\ \A i \in 1 .. n : t[i] = SowMsg(f[s[i]])
  BY SowsType
<1> HIDE DEF longer
<1>3. /\ after \in Seq(Messages) /\ Len(after) = n + 1
      /\ \A i \in 1 .. n + 1 : after[i] = SowMsg(f[longer[i]])
  BY <1>1, SowsType
<1>4. msg \in Messages
  BY MessageTypes
<1> HIDE DEF t, after
<1>5. \A i \in 1 .. n + 1 : after[i] = IF i = n + 1 THEN msg ELSE t[i]
  BY <1>1, <1>2, <1>3
<1> HIDE DEF msg
<1> DEFINE more == Append(t, msg)
<1>6. /\ more \in Seq(Messages) /\ Len(more) = n + 1
      /\ \A i \in 1 .. n + 1 : more[i] = IF i = n + 1 THEN msg ELSE t[i]
  BY <1>1, <1>2, <1>4
<1> HIDE DEF more
<1>7. more = after
  BY <1>3, <1>5, <1>6, SeqEqual
<1> QED BY <1>7 DEF more, after, longer, msg, t

TableBoard ==
  [houses |-> houses, playerToAct |-> playerToAct, gameEnded |-> gameEnded]

(* The opponent's moves whose timers run, the own moves not yet handled.   *)
RemotePits == [id \in SidePits(1) |-> RemotePit(id)]
LocalMoves == [pit \in LocalPits |-> pit]
Replays(timers) == Sows(RemotePits, timers)
Sowings(moves) == Sows(LocalMoves, moves)

(* The page c of p shows the board b, or will with its first message.      *)
Shows(p, c, msgs, b) ==
  IF c.firstState THEN Head(msgs) = State(b.houses, b.playerToAct)
  ELSE /\ c.pits = GameState(p, b.houses)
       /\ c.acting = SideOf(p, b.playerToAct)

Follows(p, c, moves, msgs, t) ==
  /\ moves = << >>
  /\ \E x \in Boards, y \in Boards :
       /\ ~ x.gameEnded /\ Shows(p, c, msgs, x)
       /\ Leads(x, Replays(c.timers), Opponent(p), y)
       /\ Leads(y, msgs, Opponent(p), t)

IsAhead(p, c, moves, msgs, t) ==
  /\ ~ c.firstState /\ c.timers = << >> /\ NoSow(msgs)
  /\ \E e \in Boards :
       /\ Leads(t, Sowings(moves), p, e)
       /\ ~ e.gameEnded => Shows(p, c, msgs, e)

InPlay(p, c, moves, msgs, t) ==
  Follows(p, c, moves, msgs, t) \/ IsAhead(p, c, moves, msgs, t)

LEMMA MappedTypes ==
  /\ RemotePits \in [SidePits(1) -> LocalPits]
  /\ LocalMoves \in [LocalPits -> LocalPits]
  /\ \A id \in SidePits(1) : RemotePits[id] = RemotePit(id)
  /\ \A pit \in LocalPits : LocalMoves[pit] = pit
BY PitNumbers DEF RemotePits, LocalMoves

(* A move on a page that shows the board b is a move on b.                 *)
LEMMA PageStep ==
  ASSUME ThePagesRules, NEW p \in Players, NEW c \in Pages,
         ~ c.firstState, NEW msgs, NEW b \in Boards, ~ b.gameEnded,
         Shows(p, c, msgs, b),
         NEW pit \in LocalPits, NEW id \in SidePits(1) \union SidePits(2),
         id = PitOnWay(c.acting, pit),
         c.pits[id] # 0, c.pits[id] < Lap
  PROVE  LET m == b.playerToAct
             e == Moved(b, m, pit)
             new == RealMove(c, id)
         IN  /\ b.houses[Pit(m, pit)] # 0 /\ e \in Boards
             /\ ~ e.gameEnded => /\ new.pits = GameState(p, e.houses)
                                 /\ new.acting = SideOf(p, e.playerToAct)
<1> DEFINE m == b.playerToAct
           e == Moved(b, m, pit)
           new == RealMove(c, id)
           side == SideOf(p, m)
           sown == SownPits(GameState(p, b.houses), side, id)
<1>1. m \in Players /\ b.houses \in [Houses -> Nat]
  BY DEF Boards
<1>2. c.pits = GameState(p, b.houses) /\ c.acting = side
  BY DEF Shows
<1>3. id \in Ids /\ HouseOf(p, id) = Pit(m, pit)
  <2>1. /\ NUMBER_OF_PITS \in Nat \ {0} /\ pit \in 0 .. NUMBER_OF_PITS - 1
        /\ Lap = 2 * NUMBER_OF_PITS + 1 /\ NumberOfHouses = 2 * NUMBER_OF_PITS + 2
        /\ OwnFirst = NUMBER_OF_PITS + 2
    BY PitsAssumption DEF LocalPits, Lap, NumberOfHouses, OwnFirst
  <2>2. id \in Ids
    BY <2>1 DEF SidePits, Ids
  <2>3. /\ \/ FirstPit(p) = 0 /\ FirstPit(Opponent(p)) = NUMBER_OF_PITS + 1
           \/ FirstPit(p) = NUMBER_OF_PITS + 1 /\ FirstPit(Opponent(p)) = 0
        /\ m = p \/ m = Opponent(p)
        /\ Opponent(p) # p
    BY <1>1, FirstPits
  <2>4. Pit(m, pit) = FirstPit(m) + pit
    BY DEF Pit
  <2>5. id = PitOnWay(side, pit)
    BY <1>2
  <2>6. CASE m = p
    <3>1. side = 2
      BY <2>6 DEF SideOf
    <3>2. id = OwnFirst + pit
      BY <2>1, <2>5, <3>1 DEF PitOnWay
    <3> QED BY <2>1, <2>2, <2>3, <2>4, <2>6, <3>2 DEF HouseOf
  <2>7. CASE m # p
    <3>1. side = 1
      BY <2>7 DEF SideOf
    <3>2. id = OwnFirst - 1 - pit
      BY <2>1, <2>5, <3>1 DEF PitOnWay
    <3>3. m = Opponent(p)
      BY <2>3, <2>7
    <3> HIDE DEF m
    <3> QED BY <2>1, <2>2, <2>3, <2>4, <3>2, <3>3 DEF HouseOf
  <2> QED BY <2>6, <2>7
<1>4. c.pits[id] = b.houses[Pit(m, pit)]
  BY <1>2, <1>3, ShownHouses
<1>5. Pit(m, pit) \in Houses
  BY <1>1, PitType
<1>6. b.houses[Pit(m, pit)] \in 1 .. Lap - 1
  BY <1>1, <1>4, <1>5, PitsAssumption DEF Lap
<1>7. b.houses[Pit(m, pit)] # 0 /\ e \in Boards
  BY <1>1, <1>6, MovedBoard
<1>8. /\ new.pits = PerformSteal(sown.pits, side, sown.last)
      /\ new.acting = NextSide(sown.pits, side, sown.last)
  <2> DEFINE there == SownPits(c.pits, c.acting, id)
  <2>1. /\ new.pits = PerformSteal(there.pits, c.acting, there.last)
        /\ new.acting = NextSide(there.pits, c.acting, there.last)
    BY RealMoveType
  <2>2. there = sown
    BY <1>2
  <2> HIDE DEF there, sown, new
  <2> QED BY <1>2, <2>1, <2>2
<1>9. ASSUME ~ e.gameEnded
      PROVE  /\ new.pits = GameState(p, e.houses)
             /\ new.acting = SideOf(p, e.playerToAct)
  BY <1>1, <1>2, <1>6, <1>8, <1>9, PageMoves
<1> QED BY <1>7, <1>9

(* A page that shows that it is the user's turn does not follow.           *)
LEMMA UsersTurn ==
  ASSUME NEW p \in Players, NEW c \in Pages, ~ c.firstState, c.acting = 2,
         NEW moves \in Seq(LocalPits), NEW msgs \in Seq(Messages),
         NEW t \in Boards, ~ t.gameEnded, InPlay(p, c, moves, msgs, t)
  PROVE  IsAhead(p, c, moves, msgs, t)
<1> SUFFICES ASSUME Follows(p, c, moves, msgs, t)
             PROVE  IsAhead(p, c, moves, msgs, t)
  BY DEF InPlay
<1> DEFINE m == Opponent(p)
           sown == Replays(c.timers)
<1>1. c.timers \in Seq(SidePits(1)) /\ sown \in Seq(Messages)
      /\ (NoSow(sown) => c.timers = << >>)
  BY MappedTypes, SowsSteps DEF Pages, Replays
<1>2. moves = << >>
  BY DEF Follows
<1>3. PICK x \in Boards, y \in Boards :
        /\ ~ x.gameEnded /\ Shows(p, c, msgs, x)
        /\ Leads(x, sown, m, y) /\ Leads(y, msgs, m, t)
  BY DEF Follows
<1>4. x.playerToAct = p /\ p # m
  BY <1>3, FirstPits DEF Shows, SideOf
<1> HIDE DEF sown, m
<1>5. y = x /\ NoSow(sown)
  BY <1>1, <1>3, <1>4, LeadsIdle
<1>6. t = y /\ NoSow(msgs)
  BY <1>3, <1>4, <1>5, LeadsIdle
<1>7. Leads(t, Sowings(moves), p, t)
  BY <1>2, SowsNone, LeadsNowhere DEF Sowings
<1> QED BY <1>1, <1>3, <1>5, <1>6, <1>7 DEF IsAhead

(* The user moves.                                                         *)
LEMMA ClickAgrees ==
  ASSUME ThePagesRules, NEW p \in Players, NEW c \in Pages,
         ~ c.firstState, c.acting = 2,
         NEW id \in SidePits(2), c.pits[id] # 0, ~ Loses(c, id),
         NEW moves \in Seq(LocalPits), NEW msgs \in Seq(Messages),
         NEW t \in Boards, ~ t.gameEnded, InPlay(p, c, moves, msgs, t)
  PROVE  InPlay(p, RealMove(c, id), Append(moves, LocalOf(id)), msgs, t)
<1> DEFINE new == RealMove(c, id)
           pit == LocalOf(id)
           sown == Sowings(moves)
<1>1. /\ c.timers = << >> /\ NoSow(msgs)
      /\ \E e \in Boards : /\ Leads(t, sown, p, e)
                           /\ ~ e.gameEnded => Shows(p, c, msgs, e)
  BY UsersTurn DEF IsAhead
<1>2. PICK e \in Boards : /\ Leads(t, sown, p, e)
                          /\ ~ e.gameEnded => Shows(p, c, msgs, e)
  BY <1>1
<1>3. pit \in LocalPits /\ id = PitOnWay(2, pit)
  BY PitNumbers
<1>4. SowMsg(pit) \in Messages /\ SowMsg(pit).action = "Sow" /\ SowMsg(pit).house = pit
  BY <1>3, MessageTypes
<1>5. sown \in Seq(Messages) /\ Sowings(Append(moves, pit)) = Append(sown, SowMsg(pit))
  <2> HIDE DEF pit
  <2>1. sown \in Seq(Messages)
    BY MappedTypes, SowsSteps DEF Sowings
  <2>2. Sows(LocalMoves, Append(moves, pit))
          = Append(Sows(LocalMoves, moves), SowMsg(LocalMoves[pit]))
    BY <1>3, MappedTypes, SowsOneMore
  <2>3. LocalMoves[pit] = pit
    BY <1>3, MappedTypes
  <2> QED BY <2>1, <2>2, <2>3 DEF Sowings
<1>6. ~ new.firstState /\ new.timers = << >>
  BY <1>1, RealMoveType
<1> HIDE DEF sown
<1>7. \E d \in Boards : /\ Leads(t, Append(sown, SowMsg(pit)), p, d)
                        /\ ~ d.gameEnded => Shows(p, new, msgs, d)
  <2>1. CASE e.gameEnded
    <3>1. Takes(e, SowMsg(pit), p, e)
      BY <2>1 DEF Takes
    <3>2. Leads(t, Append(sown, SowMsg(pit)), p, e)
      BY <1>2, <1>4, <1>5, <3>1, LeadsOneMore
    <3> QED BY <2>1, <3>2
  <2>2. CASE ~ e.gameEnded
    <3> DEFINE d == Moved(e, p, pit)
    <3>1. c.pits[id] < Lap
      <4>1. c.pits[id] \in Nat /\ Lap \in Nat
        BY PitsAssumption DEF Pages, SidePits, Ids, OwnFirst, NumberOfHouses, Lap
      <4> QED BY <4>1 DEF Loses
    <3>2. e.playerToAct = p
      BY <1>2, <2>2 DEF Shows, SideOf
    <3>3. /\ e.houses[Pit(p, pit)] # 0 /\ d \in Boards
          /\ ~ d.gameEnded => /\ new.pits = GameState(p, d.houses)
                              /\ new.acting = SideOf(p, d.playerToAct)
      BY <1>2, <1>3, <2>2, <3>1, <3>2, PageStep
    <3> HIDE DEF new
    <3>4. Takes(e, SowMsg(pit), p, d)
      BY <1>4, <2>2, <3>2, <3>3 DEF Takes
    <3> HIDE DEF d
    <3>5. Leads(t, Append(sown, SowMsg(pit)), p, d)
      BY <1>2, <1>4, <1>5, <3>3, <3>4, LeadsOneMore
    <3> QED BY <1>6, <3>3, <3>5 DEF Shows
  <2> QED BY <2>1, <2>2
<1> HIDE DEF new
<1>8. IsAhead(p, new, Append(moves, pit), msgs, t)
  BY <1>1, <1>5, <1>6, <1>7 DEF IsAhead
<1> QED BY <1>8 DEF InPlay, new

(* A timer runs off.                                                       *)
LEMMA TimerAgrees ==
  ASSUME ThePagesRules, NEW p \in Players, NEW c \in Pages,
         ~ c.firstState, c.timers # << >>,
         NEW id, id = Head(c.timers), ~ Loses(c, id),
         NEW moves \in Seq(LocalPits), NEW msgs \in Seq(Messages),
         NEW t \in Boards, ~ t.gameEnded, InPlay(p, c, moves, msgs, t),
         NEW new, ~ new.firstState, new.timers = Tail(c.timers),
         new.pits = RealMove(c, id).pits, new.acting = RealMove(c, id).acting
  PROVE  InPlay(p, new, moves, msgs, t)
<1> DEFINE m == Opponent(p)
           sown == Replays(c.timers)
           pit == RemotePit(id)
<1>1. c.timers \in Seq(SidePits(1)) /\ id \in SidePits(1)
  BY DEF Pages
<1>2. /\ sown \in Seq(Messages) /\ sown # << >>
      /\ Head(sown) = SowMsg(pit)
      /\ Tail(sown) = Replays(new.timers)
  BY <1>1, MappedTypes, SowsSteps DEF Replays
<1>3. /\ pit \in LocalPits /\ id = PitOnWay(1, pit)
  BY <1>1, PitNumbers
<1>4. SowMsg(pit).action = "Sow" /\ SowMsg(pit).house = pit
  BY <1>3, MessageTypes
<1>5. moves = << >> /\ Follows(p, c, moves, msgs, t)
  BY DEF InPlay, IsAhead, Follows
<1>6. PICK x \in Boards, y \in Boards :
        /\ ~ x.gameEnded /\ Shows(p, c, msgs, x)
        /\ Leads(x, sown, m, y) /\ Leads(y, msgs, m, t)
  BY <1>5 DEF Follows
<1> HIDE DEF sown, pit
<1>7. PICK d \in Boards :
        Takes(x, SowMsg(pit), m, d) /\ Leads(d, Replays(new.timers), m, y)
  <2>1. \E d \in Boards : Takes(x, Head(sown), m, d) /\ Leads(d, Tail(sown), m, y)
    BY <1>2, <1>6, LeadsFirst
  <2> QED BY <1>2, <2>1
<1>8. x.playerToAct = m /\ x.houses[Pit(m, pit)] # 0 /\ d = Moved(x, m, pit)
  BY <1>4, <1>6, <1>7 DEF Takes
<1>9. m \in Players /\ m # p /\ SideOf(p, m) = 1
  BY FirstPits DEF SideOf
<1>10. c.acting = 1
  BY <1>6, <1>8, <1>9 DEF Shows
<1>11. ~ d.gameEnded
  <2>1. SUFFICES ASSUME d.gameEnded PROVE FALSE
    OBVIOUS
  <2>2. y = d
    <3>1. Replays(new.timers) \in Seq(Messages)
      <4>1. new.timers \in Seq(SidePits(1))
        BY <1>1
      <4> QED BY <4>1, MappedTypes, SowsSteps DEF Replays
    <3> QED BY <1>7, <2>1, <3>1, LeadsIdle
  <2>3. t = y
    BY <1>6, <2>1, <2>2, LeadsIdle
  <2> QED BY <2>1, <2>2, <2>3
<1>12. c.pits[id] < Lap /\ c.pits[id] # 0
  <2>1. c.pits[id] \in Nat /\ Lap \in Nat
    BY <1>1, PitsAssumption DEF Pages, SidePits, Ids, OwnFirst, NumberOfHouses, Lap
  <2>2. c.pits[id] = x.houses[HouseOf(p, id)] /\ id \in Ids
    <3>1. id \in Ids
      BY <1>1, PitsAssumption DEF SidePits, Ids, OwnFirst, NumberOfHouses
    <3> QED BY <1>6, <3>1, ShownHouses DEF Shows
  <2>3. HouseOf(p, id) = Pit(m, pit)
    <3>1. /\ NUMBER_OF_PITS \in Nat \ {0} /\ pit \in 0 .. NUMBER_OF_PITS - 1
          /\ OwnFirst = NUMBER_OF_PITS + 2
      BY <1>3, PitsAssumption DEF LocalPits, OwnFirst
    <3>2. id = OwnFirst - 1 - pit
      BY <1>3, <3>1 DEF PitOnWay
    <3>3. FirstPit(m) \in Nat
      BY FirstPits, <3>1
    <3> QED BY <3>1, <3>2, <3>3 DEF HouseOf, Pit
  <2> QED BY <1>8, <2>1, <2>2, <2>3 DEF Loses
<1>13. new.pits = GameState(p, d.houses) /\ new.acting = SideOf(p, d.playerToAct)
  <2>1. id \in SidePits(1) \union SidePits(2) /\ id = PitOnWay(c.acting, pit)
    BY <1>1, <1>3, <1>10
  <2>2. ~ Moved(x, x.playerToAct, pit).gameEnded
    BY <1>8, <1>11
  <2>3. /\ RealMove(c, id).pits = GameState(p, Moved(x, x.playerToAct, pit).houses)
        /\ RealMove(c, id).acting = SideOf(p, Moved(x, x.playerToAct, pit).playerToAct)
    BY <1>3, <1>6, <1>12, <2>1, <2>2, PageStep
  <2> QED BY <1>8, <2>3
<1>14. Follows(p, new, moves, msgs, t)
  BY <1>5, <1>6, <1>7, <1>11, <1>13 DEF Follows, Shows
<1> QED BY <1>14 DEF InPlay

LEMMA NoSowRest ==
  ASSUME NEW msgs \in Seq(Messages), msgs # << >>, NoSow(msgs)
  PROVE  NoSow(Tail(msgs)) /\ Head(msgs).action # "Sow"
<1>1. /\ Len(msgs) \in Nat \ {0} /\ Len(Tail(msgs)) = Len(msgs) - 1
      /\ Head(msgs) = msgs[1]
      /\ \A i \in 1 .. Len(msgs) - 1 : Tail(msgs)[i] = msgs[i + 1]
  OBVIOUS
<1>2. \A i \in 1 .. Len(msgs) : msgs[i].action # "Sow"
  BY DEF NoSow
<1>3. \A i \in 1 .. Len(msgs) - 1 : Tail(msgs)[i].action # "Sow"
  <2> SUFFICES ASSUME NEW i \in 1 .. Len(msgs) - 1
               PROVE  Tail(msgs)[i].action # "Sow"
    OBVIOUS
  <2>1. i + 1 \in 1 .. Len(msgs) /\ Tail(msgs)[i] = msgs[i + 1]
    BY <1>1
  <2> QED BY <1>2, <2>1
<1>4. Head(msgs).action # "Sow"
  BY <1>1, <1>2
<1> QED BY <1>1, <1>3, <1>4 DEF NoSow

LEMMA NoSowMore ==
  ASSUME NEW msgs \in Seq(Messages), NoSow(msgs), NEW msg \in Messages,
         msg.action # "Sow"
  PROVE  NoSow(Append(msgs, msg))
<1> DEFINE n == Len(msgs)
           more == Append(msgs, msg)
<1>1. /\ n \in Nat /\ Len(more) = n + 1 /\ more[n + 1] = msg
      /\ \A i \in 1 .. n : more[i] = msgs[i]
  OBVIOUS
<1>2. \A i \in 1 .. n : msgs[i].action # "Sow"
  BY DEF NoSow
<1> HIDE DEF n, more
<1>3. \A i \in 1 .. n + 1 : more[i].action # "Sow"
  BY <1>1, <1>2
<1> QED BY <1>1, <1>3 DEF NoSow, more

(* A message arrives, while the game goes on.                              *)
LEMMA ReceiveAgrees ==
  ASSUME NEW p \in Players, NEW c \in Pages,
         NEW moves \in Seq(LocalPits), NEW msgs \in Seq(Messages),
         msgs # << >>, NEW msg \in Messages, msg = Head(msgs),
         msg.action # "End", c.firstState => IsState(msg) /\ c.timers = << >>,
         NEW t \in Boards, ~ t.gameEnded, InPlay(p, c, moves, msgs, t),
         NEW new, ~ new.firstState,
         IsState(msg) =>
           /\ new.timers = c.timers
           /\ c.firstState => /\ new.pits = GameState(p, msg.houses)
                              /\ new.acting = SideOf(p, msg.playerToAct)
           /\ ~ c.firstState => new.pits = c.pits /\ new.acting = c.acting,
         msg.action = "Sow" =>
           /\ ~ c.firstState
           /\ new.timers = Append(c.timers, RemotePit(msg.house))
           /\ new.pits = c.pits /\ new.acting = c.acting
  PROVE  InPlay(p, new, moves, Tail(msgs), t)
<1> DEFINE m == Opponent(p)
           rest == Tail(msgs)
           sown == Replays(c.timers)
<1>1. rest \in Seq(Messages)
  OBVIOUS
<1>2. c.timers \in Seq(SidePits(1)) /\ sown \in Seq(Messages)
  BY MappedTypes, SowsSteps DEF Pages, Replays
<1>3. IsState(msg) \/ msg.action = "Sow"
  BY MessageKinds DEF IsState
<1>4. CASE Follows(p, c, moves, msgs, t)
  <2>1. PICK x \in Boards, y \in Boards :
          /\ ~ x.gameEnded /\ Shows(p, c, msgs, x)
          /\ Leads(x, sown, m, y) /\ Leads(y, msgs, m, t)
    BY <1>4 DEF Follows
  <2>2. PICK d \in Boards : Takes(y, msg, m, d) /\ Leads(d, rest, m, t)
    BY <2>1, LeadsFirst
  <2>3. moves = << >>
    BY <1>4 DEF Follows
  <2>4. CASE IsState(msg)
    <3>1. d = y
      BY <2>2, <2>4 DEF Takes, IsState
    <3>2. new.timers = c.timers
      BY <2>4
    <3>3. new.pits = GameState(p, x.houses) /\ new.acting = SideOf(p, x.playerToAct)
      <4>1. CASE c.firstState
        <5>1. msg = State(x.houses, x.playerToAct)
          BY <2>1, <4>1 DEF Shows
        <5>2. msg.houses = x.houses /\ msg.playerToAct = x.playerToAct
          BY <5>1 DEF State
        <5> QED BY <2>4, <4>1, <5>2
      <4>2. CASE ~ c.firstState
        BY <2>1, <2>4, <4>2 DEF Shows
      <4> QED BY <4>1, <4>2
    <3> HIDE DEF rest
    <3>4. Shows(p, new, rest, x)
      BY <3>3 DEF Shows
    <3>5. Follows(p, new, moves, rest, t)
      BY <2>1, <2>2, <2>3, <3>1, <3>2, <3>4 DEF Follows
    <3> QED BY <3>5 DEF InPlay, rest
  <2>5. CASE msg.action = "Sow"
    <3>1. msg.house \in LocalPits /\ msg = SowMsg(msg.house)
      <4>1. msg \in [action : {"Sow"}, house : LocalPits]
        BY <2>5 DEF Messages, EndMsg
      <4> QED BY <4>1 DEF SowMsg
    <3>2. /\ RemotePit(msg.house) \in SidePits(1)
          /\ RemotePit(RemotePit(msg.house)) = msg.house
      BY <3>1, PitNumbers
    <3>3. Replays(new.timers) = Append(sown, msg)
      <4> DEFINE id == RemotePit(msg.house)
      <4>1. RemotePits[id] = msg.house
        BY <3>2, MappedTypes
      <4> HIDE DEF id
      <4>2. Sows(RemotePits, Append(c.timers, id))
              = Append(Sows(RemotePits, c.timers), SowMsg(RemotePits[id]))
        BY <1>2, <3>2, MappedTypes, SowsOneMore DEF id
      <4> QED BY <2>5, <3>1, <4>1, <4>2 DEF Replays, id
    <3>4. Leads(x, Replays(new.timers), m, d)
      <4> HIDE DEF sown
      <4> QED BY <1>2, <2>1, <2>2, <3>3, LeadsOneMore
    <3> HIDE DEF rest
    <3>5. Shows(p, new, rest, x)
      BY <2>1, <2>5 DEF Shows
    <3>6. Follows(p, new, moves, rest, t)
      BY <2>1, <2>2, <2>3, <3>4, <3>5 DEF Follows
    <3> QED BY <3>6 DEF InPlay, rest
  <2> QED BY <1>3, <2>4, <2>5
<1>5. CASE IsAhead(p, c, moves, msgs, t)
  <2>1. /\ ~ c.firstState /\ c.timers = << >> /\ NoSow(msgs)
        /\ \E e \in Boards :
             /\ Leads(t, Sowings(moves), p, e)
             /\ ~ e.gameEnded => Shows(p, c, msgs, e)
    BY <1>5 DEF IsAhead
  <2>2. NoSow(rest) /\ IsState(msg)
    BY <1>3, <2>1, NoSowRest
  <2>3. new.timers = << >> /\ new.pits = c.pits /\ new.acting = c.acting
    BY <2>1, <2>2
  <2> HIDE DEF rest
  <2>4. \A e : Shows(p, c, msgs, e) => Shows(p, new, rest, e)
    BY <2>1, <2>3 DEF Shows
  <2>5. IsAhead(p, new, moves, rest, t)
    BY <2>1, <2>2, <2>3, <2>4 DEF IsAhead
  <2> QED BY <2>5 DEF InPlay, rest
<1> QED BY <1>4, <1>5 DEF InPlay

(* The table handles a move: what the player who made it is told, and what *)
(* the other one is told.                                                  *)
LEMMA HandleOwnAgrees ==
  ASSUME NEW p \in Players, NEW c \in Pages,
         NEW moves \in Seq(LocalPits), moves # << >>, NEW msgs \in Seq(Messages),
         NEW t \in Boards, ~ t.gameEnded, InPlay(p, c, moves, msgs, t),
         NEW state \in Messages, IsState(state)
  PROVE  LET e == Moved(t, p, Head(moves))
         IN  /\ t.playerToAct = p /\ t.houses[Pit(p, Head(moves))] # 0
             /\ InPlay(p, c, Tail(moves), Append(msgs, state), e)
<1> DEFINE e == Moved(t, p, Head(moves))
           sown == Sowings(moves)
           rest == Tail(moves)
           more == Append(msgs, state)
           pit == Head(moves)
<1>1. /\ ~ c.firstState /\ c.timers = << >> /\ NoSow(msgs)
      /\ \E d \in Boards : /\ Leads(t, sown, p, d)
                           /\ ~ d.gameEnded => Shows(p, c, msgs, d)
  BY DEF InPlay, Follows, IsAhead
<1>2. PICK d \in Boards : /\ Leads(t, sown, p, d)
                          /\ ~ d.gameEnded => Shows(p, c, msgs, d)
  BY <1>1
<1>3. pit \in LocalPits /\ rest \in Seq(LocalPits)
  OBVIOUS
<1>4. /\ sown \in Seq(Messages) /\ sown # << >>
      /\ Head(sown) = SowMsg(pit) /\ Tail(sown) = Sowings(rest)
  <2>1. /\ sown \in Seq(Messages) /\ sown # << >>
        /\ Head(sown) = SowMsg(LocalMoves[pit]) /\ Tail(sown) = Sowings(rest)
    BY MappedTypes, SowsSteps DEF Sowings
  <2> QED BY <1>3, <2>1, MappedTypes
<1>5. SowMsg(pit).action = "Sow" /\ SowMsg(pit).house = pit
  BY <1>3, MessageTypes
<1> HIDE DEF sown, pit, rest
<1>6. PICK next \in Boards : Takes(t, SowMsg(pit), p, next)
                             /\ Leads(next, Sowings(rest), p, d)
  <2>1. \E next \in Boards : Takes(t, Head(sown), p, next)
                             /\ Leads(next, Tail(sown), p, d)
    BY <1>2, <1>4, LeadsFirst
  <2> QED BY <1>4, <2>1
<1>7. t.playerToAct = p /\ t.houses[Pit(p, pit)] # 0 /\ next = Moved(t, p, pit)
  BY <1>5, <1>6 DEF Takes
<1>8. NoSow(more)
  BY <1>1, NoSowMore DEF IsState
<1> HIDE DEF more
<1>9. \A b : Shows(p, c, msgs, b) => Shows(p, c, more, b)
  BY <1>1 DEF Shows
<1>10. IsAhead(p, c, rest, more, next)
  BY <1>1, <1>2, <1>6, <1>8, <1>9 DEF IsAhead
<1>11. InPlay(p, c, rest, more, next)
  BY <1>10 DEF InPlay
<1> QED BY <1>7, <1>11 DEF pit, rest, more

LEMMA HandleOtherAgrees ==
  ASSUME NEW p \in Players, NEW c \in Pages, NEW m, m = Opponent(p),
         NEW moves \in Seq(LocalPits), NEW msgs \in Seq(Messages),
         c.firstState => msgs # << >>,
         NEW t \in Boards, ~ t.gameEnded, InPlay(p, c, moves, msgs, t),
         NEW pit \in LocalPits, t.playerToAct = m, t.houses[Pit(m, pit)] # 0,
         Moved(t, m, pit) \in Boards,
         NEW state \in Messages, IsState(state)
  PROVE  InPlay(p, c, moves, Append(Append(msgs, SowMsg(pit)), state),
                Moved(t, m, pit))
<1> DEFINE e == Moved(t, m, pit)
           sow == SowMsg(pit)
           one == Append(msgs, sow)
           two == Append(one, state)
<1>1. sow \in Messages /\ sow.action = "Sow" /\ sow.house = pit
  BY MessageTypes
<1>2. one \in Seq(Messages) /\ two \in Seq(Messages)
  BY <1>1
<1>3. Takes(t, sow, m, e) /\ Takes(e, state, m, e)
  BY <1>1 DEF Takes, IsState
<1>4. \A b : Shows(p, c, msgs, b) => Shows(p, c, two, b)
  <2>1. msgs # << >> => Head(two) = Head(msgs)
    <3> HIDE DEF sow
    <3> QED BY <1>1
  <2> QED BY <2>1 DEF Shows
<1>5. ASSUME NEW y, Leads(y, msgs, m, t)
      PROVE  Leads(y, two, m, e)
  <2> HIDE DEF sow, e
  <2>1. Leads(y, one, m, e)
    BY <1>1, <1>3, <1>5, LeadsOneMore DEF e
  <2> HIDE DEF one
  <2> QED BY <1>2, <1>3, <2>1, LeadsOneMore DEF e
<1> HIDE DEF two, one, sow, e
<1>6. CASE Follows(p, c, moves, msgs, t)
  <2>1. Follows(p, c, moves, two, e)
    BY <1>4, <1>5, <1>6 DEF Follows
  <2> QED BY <2>1 DEF InPlay, two, one, sow, e
<1>7. CASE IsAhead(p, c, moves, msgs, t)
  <2>1. PICK d \in Boards : /\ Leads(t, Sowings(moves), p, d)
                            /\ ~ d.gameEnded => Shows(p, c, msgs, d)
    BY <1>7 DEF IsAhead
  <2>2. c.timers = << >> /\ NoSow(msgs)
    BY <1>7 DEF IsAhead
  <2>3. Sowings(moves) \in Seq(Messages) /\ (NoSow(Sowings(moves)) => moves = << >>)
    BY MappedTypes, SowsSteps DEF Sowings
  <2>4. t.playerToAct # p
    BY FirstPits
  <2>5. d = t /\ moves = << >>
    BY <2>1, <2>3, <2>4, LeadsIdle
  <2>6. Shows(p, c, two, t)
    BY <1>4, <2>1, <2>5
  <2>7. Leads(t, Replays(c.timers), m, t)
    BY <2>2, SowsNone, LeadsNowhere DEF Replays
  <2>8. Leads(t, two, m, e)
    BY <1>5, <2>2, LeadsWithoutSow
  <2>9. Follows(p, c, moves, two, e)
    BY <2>5, <2>6, <2>7, <2>8 DEF Follows
  <2> QED BY <2>9 DEF InPlay, two, one, sow, e
<1> QED BY <1>6, <1>7 DEF InPlay

(* A new page follows, unless moves of an old one are on their way.        *)
LEMMA OpenAgrees ==
  ASSUME NEW p \in Players, NEW t \in Boards, ~ t.gameEnded
  PROVE  InPlay(p, NewPage, << >>, <<State(t.houses, t.playerToAct)>>, t)
<1> DEFINE state == State(t.houses, t.playerToAct)
           msgs == <<state>>
<1>1. t.houses \in [Houses -> Nat] /\ t.playerToAct \in Players
  BY DEF Boards
<1>2. state \in Messages /\ IsState(state)
  BY <1>1, MessageTypes
<1> HIDE DEF state
<1>3. msgs \in Seq(Messages) /\ Head(msgs) = state /\ NoSow(msgs)
  BY <1>2 DEF NoSow, IsState
<1> HIDE DEF msgs
<1>4. Leads(t, msgs, Opponent(p), t)
  BY <1>3, LeadsWithoutSow
<1>5. Leads(t, Replays(NewPage.timers), Opponent(p), t)
  BY NewPageType, SowsNone, LeadsNowhere DEF Replays
<1>6. Shows(p, NewPage, msgs, t)
  BY <1>3, NewPageType DEF Shows, state
<1>7. Follows(p, NewPage, << >>, msgs, t)
  BY <1>4, <1>5, <1>6 DEF Follows
<1> QED BY <1>7 DEF InPlay, msgs, state

-----------------------------------------------------------------------------
(* EndWaits: once the game has ended, its End is on its way behind the     *)
(* State of the last board, or the page shows that board already.          *)

EndWaits(p, c, msgs, t) ==
  LET state == State(t.houses, t.playerToAct)
  IN  \/ /\ msgs = << >> /\ ~ c.firstState
         /\ c.pits = GameState(p, t.houses)
      \/ c.firstState /\ msgs = <<state>>
      \/ \E pre \in Seq(Messages) :
           /\ msgs = Append(pre, EndMsg)
           /\ IF pre = << >> THEN c.lastState = t.houses
              ELSE pre[Len(pre)] = state

(* Nothing moves on the page that shows the last board.                    *)
LEMMA EndStays ==
  ASSUME NEW p \in Players, NEW c \in Pages, NEW msgs,
         NEW t \in Boards, t.gameEnded, EndWaits(p, c, msgs, t),
         NEW id \in SidePits(1) \union SidePits(2),
         NEW new, ~ c.firstState, ~ new.firstState, new.lastState = c.lastState,
         new.pits = RealMove(c, id).pits
  PROVE  /\ EndWaits(p, new, msgs, t)
         /\ msgs = << >> => c.pits[id] = 0
<1>1. CASE msgs = << >>
  <2>1. c.pits = GameState(p, t.houses)
    <3>1. \A pre \in Seq(Messages) : Append(pre, EndMsg) # << >>
      <4>1. EndMsg \in Messages
        BY MessageTypes
      <4> QED BY <4>1, AppendProperties
    <3> QED BY <1>1, <3>1 DEF EndWaits
  <2>2. c.pits[id] = 0
    <3>1. \A r \in Players : ~ CanPlayerMove(t.houses, r)
      BY DEF Boards, Fine
    <3>2. t.houses \in [Houses -> Nat]
      BY DEF Boards
    <3>3. PICK r \in Players : id \in SidePits(SideOf(p, r))
      <4>1. SideOf(p, p) = 2 /\ SideOf(p, Opponent(p)) = 1 /\ Opponent(p) \in Players
        BY FirstPits DEF SideOf
      <4> QED BY <4>1
    <3>4. ~ HasSideStones(GameState(p, t.houses), SideOf(p, r))
      BY <3>1, <3>2, SideStones
    <3>5. c.pits[id] \in Nat
      <4>1. id \in Ids
        BY PitsAssumption DEF SidePits, Ids, OwnFirst, NumberOfHouses
      <4> QED BY <4>1 DEF Pages
    <3> QED BY <2>1, <3>3, <3>4, <3>5 DEF HasSideStones
  <2>3. new.pits = c.pits
    <3> DEFINE sown == SownPits(c.pits, c.acting, id)
               at(d) == PitIdForDistance[c.acting][id][d % Lap]
    <3>1. RealMove(c, id).pits = PerformSteal(sown.pits, c.acting, sown.last)
      BY RealMoveType
    <3>2. StonesLaid(0) = 0
      <4>1. 0 \in Nat /\ 0 < Lap
        BY PitsAssumption DEF Lap
      <4> QED BY <4>1, StonesLaidType
    <3>3. /\ c.pits \in [Ids -> Nat] /\ c.acting \in Sides /\ id \in Ids
          /\ Lap \in Nat \ {0}
      BY PitsAssumption
         DEF Pages, SidePits, Ids, OwnFirst, NumberOfHouses, Lap
    <3>4. sown.last = id
      <4>1. sown.last = at(0)
        BY <2>2, <3>2 DEF SownPits
      <4>2. 0 % Lap = 0
        BY <3>3
      <4>3. PICK L \in 0 .. Lap - 1 : id = PitOnWay(c.acting, L)
        <5>1. /\ NUMBER_OF_PITS \in Nat \ {0} /\ Lap = 2 * NUMBER_OF_PITS + 1
              /\ NumberOfHouses = 2 * NUMBER_OF_PITS + 2
              /\ OwnFirst = NUMBER_OF_PITS + 2
              /\ id \in 2 .. OwnFirst - 1 \/ id \in OwnFirst .. NumberOfHouses - 1
              /\ c.acting = 1 \/ c.acting = 2
          BY <3>3, PitsAssumption
             DEF Lap, NumberOfHouses, OwnFirst, SidePits, Sides
        <5> DEFINE L == IF c.acting = 2
                        THEN IF id < OwnFirst THEN NumberOfHouses - id
                             ELSE id - OwnFirst
                        ELSE IF id < OwnFirst THEN OwnFirst - 1 - id ELSE id - 1
        <5>2. L \in 0 .. Lap - 1
          BY <5>1
        <5>3. id = PitOnWay(c.acting, L)
          BY <5>1 DEF PitOnWay
        <5> QED BY <5>2, <5>3
      <4>4. at(0) = PitOnWay(c.acting, OnLap(L, 0))
        BY <3>3, <4>2, <4>3, PitsOfTheWay
      <4>5. OnLap(L, 0) = L
        <5>1. 0 \in 0 .. Lap - 1 /\ L + 0 = L /\ L < Lap
          BY <3>3, <4>3
        <5> QED BY <4>3, <5>1, LapPlaces
      <4> QED BY <4>1, <4>3, <4>4, <4>5
    <3>5. sown.pits = c.pits
      <4>1. \A i \in Ids : {d \in 1 .. 0 : at(d) = i} = {}
        OBVIOUS
      <4>2. Cardinality({}) = 0
        BY FS_EmptySet
      <4> QED BY <2>2, <3>2, <3>3, <4>1, <4>2 DEF SownPits
    <3> HIDE DEF sown
    <3>6. PerformSteal(sown.pits, c.acting, sown.last) = c.pits
      BY <2>2, <3>4, <3>5 DEF PerformSteal
    <3> QED BY <3>1, <3>6
  <2> QED BY <1>1, <2>2, <2>3, <2>1 DEF EndWaits
<1>2. CASE msgs # << >>
  BY <1>2 DEF EndWaits
<1> QED BY <1>1, <1>2

(* The messages before End arrive, and End.                                *)
LEMMA EndArrives ==
  ASSUME NEW p \in Players, NEW c \in Pages,
         NEW msgs \in Seq(Messages), msgs # << >>,
         NEW msg \in Messages, msg = Head(msgs),
         NEW t \in Boards, EndWaits(p, c, msgs, t),
         NEW new, ~ new.firstState,
         IsState(msg) =>
           /\ new.lastState = msg.houses
           /\ c.firstState => new.pits = GameState(p, msg.houses),
         msg.action = "Sow" => new.lastState = c.lastState,
         msg.action = "End" => /\ new.pits = GameState(p, c.lastState)
                               /\ new.lastState = c.lastState
  PROVE  EndWaits(p, new, Tail(msgs), t)
<1> DEFINE state == State(t.houses, t.playerToAct)
           rest == Tail(msgs)
<1>1. /\ state \in Messages /\ IsState(state) /\ state.houses = t.houses
      /\ EndMsg \in Messages /\ EndMsg.action = "End"
  BY MessageTypes DEF Boards
<1>2. \/ c.firstState /\ msgs = <<state>>
      \/ \E pre \in Seq(Messages) :
           /\ msgs = Append(pre, EndMsg)
           /\ IF pre = << >> THEN c.lastState = t.houses
              ELSE pre[Len(pre)] = state
  BY DEF EndWaits
<1> HIDE DEF state
<1>3. CASE c.firstState /\ msgs = <<state>>
  <2>1. msg = state /\ rest = << >>
    BY <1>3
  <2> QED BY <1>1, <1>3, <2>1 DEF EndWaits
<1>4. ASSUME NEW pre \in Seq(Messages), msgs = Append(pre, EndMsg), pre = << >>,
             c.lastState = t.houses
      PROVE  EndWaits(p, new, rest, t)
  <2>1. msg = EndMsg /\ rest = << >>
    BY <1>1, <1>4
  <2> QED BY <1>1, <1>4, <2>1 DEF EndWaits
<1>5. ASSUME NEW pre \in Seq(Messages), msgs = Append(pre, EndMsg), pre # << >>,
             pre[Len(pre)] = state
      PROVE  EndWaits(p, new, rest, t)
  <2> DEFINE left == Tail(pre)
             n == Len(pre)
  <2>1. /\ n \in Nat \ {0} /\ left \in Seq(Messages) /\ Len(left) = n - 1
        /\ \A i \in 1 .. n - 1 : left[i] = pre[i + 1]
        /\ Head(pre) = pre[1]
    BY <1>5
  <2>2. msg = Head(pre) /\ rest = Append(left, EndMsg)
    BY <1>1, <1>5, HeadTailAppend
  <2> HIDE DEF left
  <2>3. CASE n = 1
    <3>1. left = << >> /\ msg = state
      BY <1>5, <2>1, <2>2, <2>3
    <3>2. new.lastState = t.houses
      BY <1>1, <3>1
    <3> QED BY <2>1, <2>2, <3>1, <3>2 DEF EndWaits
  <2>4. CASE n # 1
    <3>1. left # << >> /\ left[Len(left)] = state
      <4>1. n - 1 \in 1 .. n - 1 /\ (n - 1) + 1 = n
        BY <2>1, <2>4
      <4>2. left[n - 1] = pre[n]
        BY <2>1, <4>1
      <4> QED BY <1>5, <2>1, <2>4, <4>2
    <3> HIDE DEF rest
    <3> QED BY <2>1, <2>2, <3>1 DEF EndWaits, state
  <2> QED BY <2>3, <2>4
<1> QED BY <1>2, <1>3, <1>4, <1>5

(* The last move is told.                                                  *)
LEMMA EndTold ==
  ASSUME NEW p, NEW c, NEW ms \in Seq(Messages), NEW t \in Boards
  PROVE  EndWaits(p, c, Append(Append(ms, State(t.houses, t.playerToAct)), EndMsg), t)
<1> DEFINE state == State(t.houses, t.playerToAct)
           pre == Append(ms, state)
<1>1. state \in Messages
  BY MessageTypes DEF Boards
<1>2. pre \in Seq(Messages) /\ pre # << >> /\ pre[Len(pre)] = state
  <2> HIDE DEF state
  <2> QED BY <1>1
<1> HIDE DEF pre, state
<1> QED BY <1>2 DEF EndWaits, state, pre

-----------------------------------------------------------------------------
(* The inductive invariant.                                                *)

NoEnd(ms) == \A i \in 1 .. Len(ms) : ms[i].action # "End"

LEMMA NoEndRest ==
  ASSUME NEW msgs \in Seq(Messages), msgs # << >>, NoEnd(msgs)
  PROVE  NoEnd(Tail(msgs)) /\ Head(msgs).action # "End"
<1>1. /\ Len(msgs) \in Nat \ {0} /\ Len(Tail(msgs)) = Len(msgs) - 1
      /\ Head(msgs) = msgs[1]
      /\ \A i \in 1 .. Len(msgs) - 1 : Tail(msgs)[i] = msgs[i + 1]
  OBVIOUS
<1>2. \A i \in 1 .. Len(msgs) : msgs[i].action # "End"
  BY DEF NoEnd
<1>3. \A i \in 1 .. Len(msgs) - 1 : Tail(msgs)[i].action # "End"
  <2> SUFFICES ASSUME NEW i \in 1 .. Len(msgs) - 1
               PROVE  Tail(msgs)[i].action # "End"
    OBVIOUS
  <2>1. i + 1 \in 1 .. Len(msgs) /\ Tail(msgs)[i] = msgs[i + 1]
    BY <1>1
  <2> QED BY <1>2, <2>1
<1>4. Head(msgs).action # "End"
  BY <1>1, <1>2
<1> QED BY <1>1, <1>3, <1>4 DEF NoEnd

LEMMA NoEndMore ==
  ASSUME NEW msgs \in Seq(Messages), NoEnd(msgs), NEW msg \in Messages,
         msg.action # "End"
  PROVE  NoEnd(Append(msgs, msg))
<1> DEFINE n == Len(msgs)
           more == Append(msgs, msg)
<1>1. /\ n \in Nat /\ Len(more) = n + 1 /\ more[n + 1] = msg
      /\ \A i \in 1 .. n : more[i] = msgs[i]
  OBVIOUS
<1>2. \A i \in 1 .. n : msgs[i].action # "End"
  BY DEF NoEnd
<1> HIDE DEF n, more
<1>3. \A i \in 1 .. n + 1 : more[i].action # "End"
  BY <1>1, <1>2
<1> QED BY <1>1, <1>3 DEF NoEnd, more

Agrees(p, c, moves, msgs, t, lost) ==
  /\ t.gameEnded => EndWaits(p, c, msgs, t)
  /\ ~ t.gameEnded => NoEnd(msgs)
  /\ ~ t.gameEnded /\ p \notin lost => InPlay(p, c, moves, msgs, t)

IInv ==
  /\ Typed
  /\ TableBoard \in Boards
  /\ \A p \in Open :
       Agrees(p, page[p], toTable[p], toPage[p], TableBoard, astray)

LEMMA BoardAsRecord ==
  /\ TableBoard.houses = houses /\ TableBoard.playerToAct = playerToAct
  /\ TableBoard.gameEnded = gameEnded
BY DEF TableBoard

(* The game begins with enough stones in the pits to come home.            *)
LEMMA AgreeInit ==
  ASSUME ThePagesRules, Init
  PROVE  IInv
<1>1. Typed /\ Open = {}
  BY TypeInit DEF Init, Open, NoPage
<1>2. /\ houses = InitHouses(InitStones) /\ playerToAct \in Players
      /\ gameEnded = FALSE
  BY SameRules DEF Init, Table!Init
<1>3. houses \in [Houses -> Nat]
  BY <1>2, InitHousesStones, StonesAssumption
<1>4. \A r \in Players : \A h \in MyPits(r) : houses[h] >= NUMBER_OF_PITS
  <2> SUFFICES ASSUME NEW r \in Players, NEW h \in MyPits(r)
               PROVE  houses[h] >= NUMBER_OF_PITS
    OBVIOUS
  <2>1. houses[h] = InitStones
    BY <1>2, Layout DEF InitHouses
  <2> QED BY <2>1 DEF ThePagesRules
<1>5. TableBoard \in Boards
  BY <1>2, <1>3, <1>4, BoardAsRecord DEF Boards, TableBoard, Fine, HomeOpen
<1> QED BY <1>1, <1>5 DEF IInv

(* Pages of which a step changes nothing.                                  *)
LEMMA OthersAgree ==
  ASSUME IInv, TableBoard' = TableBoard, NEW q \in Open,
         page'[q] = page[q], toTable'[q] = toTable[q], toPage'[q] = toPage[q],
         q \in astray => q \in astray'
  PROVE  Agrees(q, page'[q], toTable'[q], toPage'[q], TableBoard', astray')
BY DEF IInv, Agrees

LEMMA IInvFacts ==
  ASSUME IInv
  PROVE  /\ TypeOK /\ Started /\ TableBoard \in Boards
         /\ Open \subseteq Players
         /\ houses \in [Houses -> Nat] /\ playerToAct \in Players
         /\ \A p \in Open :
              /\ page[p] \in Pages
              /\ toTable[p] \in Seq(LocalPits) /\ toPage[p] \in Seq(Messages)
              /\ Agrees(p, page[p], toTable[p], toPage[p], TableBoard, astray)
<1>1. TypeOK /\ Started
  BY DEF IInv, Typed
<1>2. /\ Open \subseteq Players /\ houses \in [Houses -> Nat] /\ playerToAct \in Players
      /\ \A p \in Open : page[p] \in Pages
  BY <1>1, PageKinds
<1>3. \A p \in Players : toTable[p] \in Seq(LocalPits) /\ toPage[p] \in Seq(Messages)
  BY <1>1 DEF TypeOK
<1> QED BY <1>1, <1>2, <1>3 DEF IInv

LEMMA OpenStep ==
  ASSUME ThePagesRules, IInv, NEW p \in Players, OpenPage(p), NEW q \in Open'
  PROVE  Agrees(q, page'[q], toTable'[q], toPage'[q], TableBoard', astray')
<1> DEFINE t == TableBoard
           state == State(houses, playerToAct)
<1>1. /\ TypeOK /\ t \in Boards /\ houses \in [Houses -> Nat] /\ playerToAct \in Players
  BY IInvFacts
<1>2. /\ page'[p] = NewPage /\ \A r \in Players : r # p => page'[r] = page[r]
      /\ Open' = Open \union {p}
      /\ toPage'[p] = <<state>>
      /\ \A r \in Players : r # p => toPage'[r] = toPage[r]
      /\ \A r \in Players : r # p => toTable'[r] = toTable[r]
      /\ toTable'[p] = << >> \/ (toTable'[p] = toTable[p] /\ p \in astray')
      /\ \A r \in Players : r # p => (r \in astray' <=> r \in astray)
      /\ UNCHANGED <<houses, playerToAct, gameEnded>>
  BY <1>1, OpenPageFacts
<1>3. TableBoard' = t
  BY <1>2 DEF TableBoard
<1>4. CASE q # p
  BY <1>2, <1>3, <1>4, IInvFacts, OthersAgree
<1>5. CASE q = p
  <2>1. state = State(t.houses, t.playerToAct) /\ state \in Messages
        /\ state.action = "State"
    BY <1>1, BoardAsRecord, MessageTypes DEF State
  <2> HIDE DEF state
  <2>2. NoEnd(<<state>>)
    BY <2>1 DEF NoEnd
  <2> HIDE DEF t
  <2>3. ASSUME t.gameEnded
        PROVE  EndWaits(p, NewPage, <<state>>, t)
    BY <2>1, NewPageType DEF EndWaits
  <2>4. ASSUME ~ t.gameEnded, p \notin astray'
        PROVE  InPlay(p, NewPage, toTable'[p], <<state>>, t)
    <3>1. toTable'[p] = << >>
      BY <1>2, <2>4
    <3> QED BY <1>1, <2>1, <2>4, <3>1, OpenAgrees
  <2> QED BY <1>2, <1>3, <1>5, <2>2, <2>3, <2>4 DEF Agrees
<1> QED BY <1>4, <1>5

LEMMA ClickStep ==
  ASSUME ThePagesRules, IInv, NEW p \in Players, NEW id \in SidePits(2),
         Click(p, id), NEW q \in Open'
  PROVE  Agrees(q, page'[q], toTable'[q], toPage'[q], TableBoard', astray')
<1> DEFINE t == TableBoard
           c == page[p]
           new == page'[p]
<1>1. /\ TypeOK /\ Started /\ t \in Boards
  BY IInvFacts
<1>2. /\ p \in Open /\ c \in Pages /\ c.pits[id] # 0 /\ c.acting = 2
      /\ new = RealMove(c, id)
      /\ \A r \in Players : r # p => page'[r] = page[r]
      /\ Open' = Open
      /\ LocalOf(id) \in LocalPits
      /\ toTable'[p] = Append(toTable[p], LocalOf(id))
      /\ \A r \in Players : r # p => toTable'[r] = toTable[r]
      /\ Loses(c, id) => p \in astray'
      /\ astray \subseteq astray'
      /\ UNCHANGED <<houses, playerToAct, gameEnded, toPage>>
  BY <1>1, ClickFacts
<1>3. TableBoard' = t /\ toPage'[p] = toPage[p]
  BY <1>2 DEF TableBoard
<1>4. CASE q # p
  <2>1. q \in Players /\ toPage'[q] = toPage[q] /\ q \in Open
    BY <1>2, IInvFacts
  <2> QED BY <1>2, <1>3, <1>4, <2>1, OthersAgree
<1>5. CASE q = p
  <2>1. /\ toTable[p] \in Seq(LocalPits) /\ toPage[p] \in Seq(Messages)
        /\ Agrees(p, c, toTable[p], toPage[p], t, astray)
    BY <1>2, IInvFacts
  <2>2. ~ c.firstState
    BY <1>1, <1>2 DEF Started
  <2>3. id \in SidePits(1) \union SidePits(2)
    OBVIOUS
  <2>4. /\ ~ new.firstState /\ new.lastState = c.lastState
        /\ new.pits = RealMove(c, id).pits
    <3>1. /\ RealMove(c, id).firstState = c.firstState
          /\ RealMove(c, id).lastState = c.lastState
      <4> HIDE DEF c
      <4> QED BY <1>2, <2>3, RealMoveType
    <3> HIDE DEF c, new
    <3> QED BY <1>2, <2>2, <3>1
  <2> HIDE DEF t, c, new
  <2>5. ASSUME t.gameEnded
        PROVE  EndWaits(p, new, toPage[p], t)
    BY <1>1, <1>2, <2>1, <2>2, <2>3, <2>4, <2>5, EndStays DEF Agrees
  <2>6. ASSUME ~ t.gameEnded, p \notin astray'
        PROVE  InPlay(p, new, toTable'[p], toPage[p], t)
    <3>1. p \notin astray /\ ~ Loses(c, id)
      BY <1>2, <2>6
    <3>2. InPlay(p, c, toTable[p], toPage[p], t)
      BY <2>1, <2>6, <3>1 DEF Agrees
    <3> QED BY <1>1, <1>2, <2>1, <2>2, <2>6, <3>1, <3>2, ClickAgrees
  <2>7. ~ t.gameEnded => NoEnd(toPage[p])
    BY <2>1 DEF Agrees
  <2> QED BY <1>3, <1>5, <2>5, <2>6, <2>7 DEF Agrees, new
<1> QED BY <1>4, <1>5

LEMMA TimerStep ==
  ASSUME ThePagesRules, IInv, NEW p \in Players, Timer(p), NEW q \in Open'
  PROVE  Agrees(q, page'[q], toTable'[q], toPage'[q], TableBoard', astray')
<1> DEFINE t == TableBoard
           c == page[p]
           new == page'[p]
           id == Head(c.timers)
<1>1. /\ TypeOK /\ Started /\ t \in Boards
  BY IInvFacts
<1>2. /\ p \in Open /\ c \in Pages /\ c.timers # << >> /\ ~ c.firstState
      /\ id \in SidePits(1)
      /\ new.pits = RealMove(c, id).pits /\ new.acting = RealMove(c, id).acting
      /\ new.timers = Tail(c.timers)
      /\ new.firstState = c.firstState
      /\ new.lastState = c.lastState
      /\ \A r \in Players : r # p => page'[r] = page[r]
      /\ Open' = Open
      /\ Loses(c, id) => p \in astray'
      /\ astray \subseteq astray'
      /\ UNCHANGED <<houses, playerToAct, gameEnded, toPage, toTable>>
  BY <1>1, TimerFacts
<1>3. TableBoard' = t /\ toPage'[p] = toPage[p] /\ toTable'[p] = toTable[p]
  BY <1>2 DEF TableBoard
<1>4. CASE q # p
  <2>1. /\ q \in Players /\ toPage'[q] = toPage[q] /\ toTable'[q] = toTable[q]
        /\ q \in Open
    BY <1>2, IInvFacts
  <2> QED BY <1>2, <1>3, <1>4, <2>1, OthersAgree
<1>5. CASE q = p
  <2>1. /\ toTable[p] \in Seq(LocalPits) /\ toPage[p] \in Seq(Messages)
        /\ Agrees(p, c, toTable[p], toPage[p], t, astray)
    BY <1>2, IInvFacts
  <2>2. id \in SidePits(1) \union SidePits(2) /\ ~ new.firstState
    BY <1>2
  <2>3. id = Head(c.timers)
    OBVIOUS
  <2> HIDE DEF t, c, new, id
  <2>5. ASSUME t.gameEnded
        PROVE  EndWaits(p, new, toPage[p], t)
    BY <1>1, <1>2, <2>1, <2>2, <2>5, EndStays DEF Agrees
  <2>6. ASSUME ~ t.gameEnded, p \notin astray'
        PROVE  InPlay(p, new, toTable[p], toPage[p], t)
    <3>1. p \notin astray /\ ~ Loses(c, id)
      BY <1>2, <2>6
    <3>2. InPlay(p, c, toTable[p], toPage[p], t)
      BY <2>1, <2>6, <3>1 DEF Agrees
    <3> QED BY <1>1, <1>2, <2>1, <2>2, <2>3, <2>6, <3>1, <3>2, TimerAgrees
  <2>7. ~ t.gameEnded => NoEnd(toPage[p])
    BY <2>1 DEF Agrees
  <2> QED BY <1>3, <1>5, <2>5, <2>6, <2>7 DEF Agrees, new
<1> QED BY <1>4, <1>5

LEMMA ReceiveStep ==
  ASSUME ThePagesRules, IInv, NEW p \in Players, Receive(p), NEW q \in Open'
  PROVE  Agrees(q, page'[q], toTable'[q], toPage'[q], TableBoard', astray')
<1> DEFINE t == TableBoard
           c == page[p]
           new == page'[p]
           msgs == toPage[p]
           msg == Head(msgs)
<1>1. /\ TypeOK /\ Started /\ t \in Boards
  BY IInvFacts
<1>2. /\ p \in Open /\ c \in Pages /\ msgs # << >> /\ msg \in Messages
      /\ \A r \in Players : r # p => page'[r] = page[r]
      /\ Open' = Open
      /\ toPage'[p] = Tail(msgs)
      /\ \A r \in Players : r # p => toPage'[r] = toPage[r]
      /\ ~ new.firstState
      /\ IsState(msg) =>
           /\ new.lastState = msg.houses /\ new.timers = c.timers
           /\ c.firstState => /\ new.pits = GameState(p, msg.houses)
                              /\ new.acting = SideOf(p, msg.playerToAct)
           /\ ~ c.firstState => new.pits = c.pits /\ new.acting = c.acting
      /\ msg.action = "Sow" =>
           /\ ~ c.firstState
           /\ new.timers = Append(c.timers, RemotePit(msg.house))
           /\ new.pits = c.pits /\ new.acting = c.acting
           /\ new.lastState = c.lastState
      /\ msg.action = "End" =>
           /\ ~ c.firstState
           /\ new.pits = GameState(p, c.lastState)
           /\ new.lastState = c.lastState
      /\ UNCHANGED <<houses, playerToAct, gameEnded, toTable, astray>>
  BY <1>1, ReceiveFacts
<1>3. TableBoard' = t /\ toTable'[p] = toTable[p] /\ astray' = astray
  BY <1>2 DEF TableBoard
<1>4. CASE q # p
  <2>1. /\ q \in Players /\ toPage'[q] = toPage[q] /\ toTable'[q] = toTable[q]
        /\ q \in Open /\ page'[q] = page[q]
    BY <1>2, <1>4, IInvFacts
  <2> QED BY <1>3, <2>1, OthersAgree
<1>5. CASE q = p
  <2>1. /\ toTable[p] \in Seq(LocalPits) /\ msgs \in Seq(Messages)
        /\ Agrees(p, c, toTable[p], msgs, t, astray)
    BY <1>2, IInvFacts
  <2>2. c.firstState => IsState(msg) /\ c.timers = << >>
    BY <1>1, <1>2 DEF Started
  <2>3. msg = Head(msgs)
    OBVIOUS
  <2> HIDE DEF t, c, new, msg, msgs
  <2>4. ASSUME t.gameEnded
        PROVE  EndWaits(p, new, Tail(msgs), t)
    <3>1. EndWaits(p, c, msgs, t)
      BY <2>1, <2>4 DEF Agrees
    <3> QED BY <1>1, <1>2, <2>1, <2>3, <3>1, EndArrives
  <2>5. ASSUME ~ t.gameEnded
        PROVE  NoEnd(Tail(msgs)) /\ msg.action # "End"
    BY <1>2, <2>1, <2>3, <2>5, NoEndRest DEF Agrees
  <2>6. ASSUME ~ t.gameEnded, p \notin astray
        PROVE  InPlay(p, new, toTable[p], Tail(msgs), t)
    <3>1. InPlay(p, c, toTable[p], msgs, t)
      BY <2>1, <2>6 DEF Agrees
    <3>2. msg.action # "End"
      BY <2>5, <2>6
    <3> QED BY <1>1, <1>2, <2>1, <2>2, <2>3, <2>6, <3>1, <3>2, ReceiveAgrees
  <2> QED BY <1>2, <1>3, <1>5, <2>4, <2>5, <2>6 DEF Agrees, new
<1> QED BY <1>4, <1>5

(* No move of a page that is not astray is refused while the game goes on. *)
LEMMA MoveIsLegal ==
  ASSUME IInv, NEW p \in Open, p \notin astray, toTable[p] # << >>, ~ gameEnded
  PROVE  Legal(p, Head(toTable[p]))
<1> DEFINE t == TableBoard
           state == State(houses, playerToAct)
           c == page[p]
           moves == toTable[p]
           msgs == toPage[p]
<1>1. /\ t \in Boards /\ c \in Pages /\ p \in Players
      /\ moves \in Seq(LocalPits) /\ msgs \in Seq(Messages)
      /\ Agrees(p, c, moves, msgs, t, astray)
      /\ houses \in [Houses -> Nat] /\ playerToAct \in Players
  BY IInvFacts
<1>2. state \in Messages /\ IsState(state)
  BY <1>1, MessageTypes
<1>3. ~ t.gameEnded
  BY BoardAsRecord
<1>4. InPlay(p, c, moves, msgs, t)
  BY <1>1, <1>3 DEF Agrees
<1>5. moves # << >>
  OBVIOUS
<1> HIDE DEF state, c, moves, msgs, t
<1>6. t.playerToAct = p /\ t.houses[Pit(p, Head(moves))] # 0
  BY <1>1, <1>2, <1>3, <1>4, <1>5, HandleOwnAgrees
<1> QED BY <1>6, BoardAsRecord DEF Legal, t, moves

LEMMA HandleStep ==
  ASSUME ThePagesRules, IInv, NEW p \in Players, Handle(p)
  PROVE  /\ TableBoard' \in Boards
         /\ \A q \in Open' :
              Agrees(q, page'[q], toTable'[q], toPage'[q], TableBoard', astray')
<1> DEFINE t == TableBoard
           new == TableBoard'
           moves == toTable[p]
           pit == Head(moves)
<1>1. /\ TypeOK /\ Started /\ t \in Boards /\ Open \subseteq Players
      /\ \A q \in Open :
           /\ page[q] \in Pages
           /\ toTable[q] \in Seq(LocalPits) /\ toPage[q] \in Seq(Messages)
           /\ Agrees(q, page[q], toTable[q], toPage[q], t, astray)
  BY IInvFacts
<1>2. /\ p \in Open /\ moves # << >> /\ pit \in LocalPits
      /\ toTable'[p] = Tail(moves)
      /\ \A q \in Players : q # p => toTable'[q] = toTable[q]
      /\ UNCHANGED <<page, opened, astray>> /\ Open' = Open
      /\ \/ /\ Legal(p, pit)
            /\ houses' = AfterMove(houses, p, pit)
            /\ playerToAct' = NextPlayer(houses, p, pit)
            /\ gameEnded' = EndsGame(houses, p, pit)
         \/ /\ ~ Legal(p, pit)
            /\ UNCHANGED <<houses, playerToAct, gameEnded, toPage>>
  BY <1>1, HandleFacts
<1>3. CASE ~ Legal(p, pit)
  <2>1. new = t /\ toPage' = toPage /\ astray' = astray /\ page' = page
    BY <1>2, <1>3 DEF TableBoard
  <2>2. t.gameEnded \/ p \in astray
    BY <1>2, <1>3, MoveIsLegal, BoardAsRecord
  <2>3. \A q \in Open : q # p => toTable'[q] = toTable[q]
    BY <1>1, <1>2
  <2> HIDE DEF t, new
  <2>4. ASSUME NEW q \in Open
        PROVE  Agrees(q, page[q], toTable'[q], toPage[q], t, astray)
    <3>1. Agrees(q, page[q], toTable[q], toPage[q], t, astray)
      BY <1>1
    <3>2. CASE q # p
      <4>1. toTable'[q] = toTable[q]
        BY <2>3, <3>2
      <4> QED BY <3>1, <4>1
    <3>3. CASE q = p
      BY <2>2, <3>1, <3>3 DEF Agrees
    <3> QED BY <3>2, <3>3
  <2> QED BY <1>1, <1>2, <2>1, <2>4 DEF new
<1>4. CASE Legal(p, pit)
  <2> DEFINE state == State(houses', playerToAct')
             sow == SowMsg(pit)
  <2>1. ~ t.gameEnded /\ t.playerToAct = p /\ t.houses[Pit(p, pit)] # 0
    BY <1>4, BoardAsRecord DEF Legal
  <2>2. new = Moved(t, p, pit)
    BY <1>2, <1>4, BoardAsRecord DEF TableBoard, Moved
  <2>3. new \in Boards
    <3> HIDE DEF t, new, pit
    <3> QED BY <1>1, <1>2, <2>1, <2>2, MovedBoard
  <2>4. /\ new.houses = houses' /\ new.playerToAct = playerToAct'
        /\ new.gameEnded = gameEnded'
    BY DEF TableBoard
  <2>5. /\ houses' \in [Houses -> Nat] /\ playerToAct' \in Players
        /\ \A q \in Open :
             toPage'[q] = IF gameEnded' THEN Append(HandleTold(p, q), EndMsg)
                          ELSE HandleTold(p, q)
    BY <1>1, <1>4, HandleMessages
  <2>6. /\ state \in Messages /\ IsState(state) /\ state.action # "End"
        /\ sow \in Messages /\ sow.action # "End"
    BY <1>2, <2>5, MessageTypes DEF IsState
  <2>7. \A q : HandleTold(p, q)
                 = Append(IF q = p THEN toPage[q] ELSE Append(toPage[q], sow), state)
    BY DEF HandleTold
  <2>8. state = State(new.houses, new.playerToAct)
    BY <2>4
  <2>9. page' = page /\ astray' = astray
    BY <1>2
  <2>10. new.gameEnded = gameEnded' /\ toTable'[p] = Tail(moves)
         /\ \A q \in Open : q # p => toTable'[q] = toTable[q]
    BY <1>1, <1>2, <2>4
  <2> HIDE DEF state, t, new
  <2>11. ASSUME NEW q \in Open
         PROVE  Agrees(q, page[q], toTable'[q], toPage'[q], new, astray)
    <3> DEFINE c == page[q]
               msgs == toPage[q]
               own == toTable[q]
               some == IF q = p THEN msgs ELSE Append(msgs, sow)
               told == Append(some, state)
    <3>1. /\ c \in Pages /\ own \in Seq(LocalPits) /\ msgs \in Seq(Messages)
          /\ Agrees(q, c, own, msgs, t, astray) /\ q \in Players
          /\ c.firstState => msgs # << >>
      BY <1>1 DEF Started
    <3>2. some \in Seq(Messages)
      <4> HIDE DEF sow, msgs
      <4> QED BY <2>6, <3>1
    <3>3. toPage'[q] = IF new.gameEnded THEN Append(told, EndMsg) ELSE told
      <4>1. HandleTold(p, q) = told
        BY <2>7, Zenon
      <4>2. toPage'[q] = IF gameEnded' THEN Append(HandleTold(p, q), EndMsg)
                         ELSE HandleTold(p, q)
        BY <2>5
      <4> HIDE DEF told
      <4> QED BY <2>10, <4>1, <4>2
    <3>4. CASE new.gameEnded
      <4>1. EndWaits(q, c, Append(told, EndMsg), new)
        <5> HIDE DEF some, c
        <5> QED BY <2>3, <2>8, <3>2, EndTold
      <4> QED BY <3>3, <3>4, <4>1 DEF Agrees
    <3>5. CASE ~ new.gameEnded
      <4>1. NoEnd(msgs) /\ (q \notin astray => InPlay(q, c, own, msgs, t))
        BY <2>1, <3>1 DEF Agrees
      <4>2. NoEnd(some)
        <5> HIDE DEF sow, msgs
        <5> QED BY <2>6, <3>1, <4>1, NoEndMore
      <4>3. NoEnd(told)
        <5> HIDE DEF some
        <5> QED BY <2>6, <3>2, <4>2, NoEndMore
      <4>4. ASSUME q \notin astray
            PROVE  InPlay(q, c, toTable'[q], told, new)
        <5>1. CASE q = p
          <6>1. some = msgs /\ own = moves /\ moves # << >> /\ pit = Head(moves)
            BY <1>2, <5>1
          <6>2. toTable'[q] = Tail(moves)
            BY <2>10, <5>1
          <6> HIDE DEF some, c, own, msgs, moves, pit
          <6>3. InPlay(q, c, Tail(moves), Append(msgs, state), Moved(t, q, Head(moves)))
            BY <1>1, <2>1, <2>6, <3>1, <4>1, <4>4, <6>1, HandleOwnAgrees
          <6> QED BY <2>2, <5>1, <6>1, <6>2, <6>3
        <5>2. CASE q # p
          <6>1. some = Append(msgs, sow) /\ toTable'[q] = own
            BY <2>10, <5>2
          <6>2. p = Opponent(q)
            BY <3>1, <5>2, FirstPits
          <6>3. Moved(t, p, pit) \in Boards
            BY <2>2, <2>3
          <6> HIDE DEF some, c, own, msgs, pit
          <6>4. InPlay(q, c, own, Append(Append(msgs, SowMsg(pit)), state),
                       Moved(t, p, pit))
            BY <1>1, <1>2, <2>1, <2>6, <3>1, <4>1, <4>4, <6>2, <6>3,
               HandleOtherAgrees
          <6> QED BY <2>2, <6>1, <6>4
        <5> QED BY <5>1, <5>2
      <4> HIDE DEF told, c
      <4> QED BY <3>3, <3>5, <4>3, <4>4 DEF Agrees, c
    <3> QED BY <3>4, <3>5
  <2> QED BY <1>2, <2>3, <2>9, <2>11 DEF new
<1> QED BY <1>3, <1>4

LEMMA AgreeStep ==
  ASSUME ThePagesRules, IInv, [Next]_vars
  PROVE  IInv'
<1>1. Typed'
  BY TypeStep DEF IInv
<1>2. TableBoard \in Boards /\ Open \subseteq Players
  BY IInvFacts
<1> DEFINE Agreeing ==
             \A q \in Open' :
               Agrees(q, page'[q], toTable'[q], toPage'[q], TableBoard', astray')
<1>3. ASSUME UNCHANGED <<houses, playerToAct, gameEnded>>
      PROVE  TableBoard' \in Boards
  <2>1. TableBoard' = TableBoard
    BY <1>3 DEF TableBoard
  <2> QED BY <1>2, <2>1
<1>4. ASSUME NEW p \in Players, OpenPage(p)
      PROVE  TableBoard' \in Boards /\ Agreeing
  BY <1>3, <1>4, OpenStep DEF OpenPage, board
<1>5. ASSUME NEW p \in Players, NEW id \in SidePits(2), Click(p, id)
      PROVE  TableBoard' \in Boards /\ Agreeing
  BY <1>3, <1>5, ClickStep DEF Click, board
<1>6. ASSUME NEW p \in Players, Timer(p)
      PROVE  TableBoard' \in Boards /\ Agreeing
  BY <1>3, <1>6, TimerStep DEF Timer, board
<1>7. ASSUME NEW p \in Players, Receive(p)
      PROVE  TableBoard' \in Boards /\ Agreeing
  BY <1>3, <1>7, ReceiveStep DEF Receive, board
<1>8. ASSUME NEW p \in Players, Handle(p)
      PROVE  TableBoard' \in Boards /\ Agreeing
  BY <1>8, HandleStep
<1>9. ASSUME UNCHANGED vars
      PROVE  TableBoard' \in Boards /\ Agreeing
  <2>1. UNCHANGED <<houses, playerToAct, gameEnded, page, toTable, toPage, astray>>
    BY <1>9 DEF vars, board
  <2>2. Open' = Open /\ TableBoard' = TableBoard
    BY <2>1 DEF Open, TableBoard
  <2>3. Agreeing
    BY <2>1, <2>2 DEF IInv
  <2> QED BY <1>3, <2>1, <2>3
<1>10. TableBoard' \in Boards /\ Agreeing
  <2> HIDE DEF Agreeing
  <2> QED BY <1>4, <1>5, <1>6, <1>7, <1>8, <1>9 DEF Next
<1> QED BY <1>1, <1>10 DEF IInv

-----------------------------------------------------------------------------
(* The theorems.                                                           *)

LEMMA IInvIsInvariant ==
  ASSUME ThePagesRules
  PROVE  Spec => []IInv
<1>1. Init => IInv
  BY AgreeInit
<1>2. IInv /\ [Next]_vars => IInv'
  BY AgreeStep
<1> QED BY <1>1, <1>2, PTL DEF Spec

LEMMA QuietAgrees ==
  ASSUME IInv, NEW p \in Players \ astray, Quiet(p)
  PROVE  AgreesWithTable(p)
<1> DEFINE t == TableBoard
           c == page[p]
<1>1. /\ p \in Open /\ toTable[p] = << >> /\ toPage[p] = << >> /\ c.timers = << >>
  BY DEF Quiet
<1>2. /\ t \in Boards /\ Started
      /\ Agrees(p, c, toTable[p], toPage[p], t, astray)
  BY <1>1, IInvFacts
<1>3. ~ c.firstState
  BY <1>1, <1>2 DEF Started
<1>4. << >> \in Seq(Messages) /\ << >> \in Seq(LocalPits)
  OBVIOUS
<1> HIDE DEF t, c
<1>5. CASE t.gameEnded
  <2>1. EndWaits(p, c, << >>, t)
    BY <1>1, <1>2, <1>5 DEF Agrees
  <2>2. \A pre \in Seq(Messages) : Append(pre, EndMsg) # << >>
    <3>1. EndMsg \in Messages
      BY MessageTypes
    <3> QED BY <3>1, AppendProperties
  <2>3. c.pits = GameState(p, t.houses)
    BY <1>3, <2>1, <2>2 DEF EndWaits
  <2> QED BY <1>5, <2>3, BoardAsRecord DEF AgreesWithTable, t, c
<1>6. CASE ~ t.gameEnded
  <2>1. InPlay(p, c, << >>, << >>, t)
    BY <1>1, <1>2, <1>6 DEF Agrees
  <2>2. Replays(c.timers) = << >> /\ Sowings(<< >>) = << >>
    BY <1>1, SowsNone DEF Replays, Sowings
  <2>3. Shows(p, c, << >>, t)
    <3>1. CASE Follows(p, c, << >>, << >>, t)
      <4>1. PICK x \in Boards, y \in Boards :
              /\ Shows(p, c, << >>, x)
              /\ Leads(x, << >>, Opponent(p), y)
              /\ Leads(y, << >>, Opponent(p), t)
        BY <2>2, <3>1 DEF Follows
      <4>2. y = x /\ t = y
        BY <4>1, LeadsNowhere
      <4> QED BY <4>1, <4>2
    <3>2. CASE IsAhead(p, c, << >>, << >>, t)
      <4>1. PICK e \in Boards : /\ Leads(t, << >>, p, e)
                                /\ ~ e.gameEnded => Shows(p, c, << >>, e)
        BY <2>2, <3>2 DEF IsAhead
      <4>2. e = t
        BY <1>2, <4>1, LeadsNowhere
      <4> QED BY <1>6, <4>1, <4>2
    <3> QED BY <2>1, <3>1, <3>2 DEF InPlay
  <2>4. c.pits = GameState(p, t.houses) /\ c.acting = SideOf(p, t.playerToAct)
    BY <1>3, <2>3 DEF Shows
  <2> QED BY <2>4, BoardAsRecord DEF AgreesWithTable, SideOf, t, c
<1> QED BY <1>5, <1>6

(* On boards of every size, by the rules that the page plays by, whenever  *)
(* nothing is on its way a page that is not astray shows the table's board *)
(* and knows whose turn it is: moves made ahead, moves replayed by timers, *)
(* stealing, extra turns and the end of the game come out the same.        *)
THEOREM PagesAgree == ThePagesRules => (Spec => []BoardsAgree)
<1> SUFFICES ASSUME ThePagesRules
             PROVE  Spec => []BoardsAgree
  OBVIOUS
<1>1. Spec => []IInv
  BY IInvIsInvariant
<1>2. IInv => BoardsAgree
  BY QuietAgrees DEF BoardsAgree
<1> QED BY <1>1, <1>2, PTL

(* Nor does the table ever refuse, unnoticed, a move that such a page let  *)
(* its user make, unless the game has ended.                               *)
THEOREM NoneRefused == ThePagesRules => (Spec => []NoMoveRefused)
<1> SUFFICES ASSUME ThePagesRules
             PROVE  Spec => []NoMoveRefused
  OBVIOUS
<1>1. Spec => []IInv
  BY IInvIsInvariant
<1>2. IInv => NoMoveRefused
  <2> SUFFICES ASSUME IInv, NEW p \in Players \ astray, toTable[p] # << >>,
                      ~ gameEnded
               PROVE  Legal(p, Head(toTable[p]))
    BY DEF NoMoveRefused
  <2>1. p \in Open
    BY IInvFacts DEF Started
  <2> QED BY <2>1, MoveIsLegal
<1> QED BY <1>1, <1>2, PTL
=============================================================================
