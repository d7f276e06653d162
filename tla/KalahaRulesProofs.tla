-------------------------- MODULE KalahaRulesProofs --------------------------
(***************************************************************************)
(* What the operators of KalahaRules return, for every number of pits and  *)
(* every choice of the rules.                                              *)
(***************************************************************************)
EXTENDS KalahaRules, FiniteSetTheorems, WellFoundedInduction, TLAPS

-----------------------------------------------------------------------------
(* Arithmetic. *)

(* The remainder by a positive divisor.                                    *)
LEMMA ModRange ==
  ASSUME NEW a \in Int, NEW n \in Nat \ {0}
  PROVE  a % n \in 0 .. n - 1
OBVIOUS

(* The remainder of a number below twice the divisor.                      *)
LEMMA ModOnce ==
  ASSUME NEW n \in Nat \ {0}, NEW a \in 0 .. 2 * n - 1
  PROVE  a % n = IF a < n THEN a ELSE a - n
<1>1. CASE a < n
  <2>1. a % n = a  BY <1>1
  <2> QED BY <2>1, <1>1
<1>2. CASE a >= n
  <2>1. a % n = a - n  BY <1>2
  <2> QED BY <2>1, <1>2
<1> QED BY <1>1, <1>2

(* A non-empty set of natural numbers has a least element.  Proofs by      *)
(* induction take the least number for which a statement fails.            *)
LEMMA LeastNat ==
  ASSUME NEW T \in SUBSET Nat, T # {}
  PROVE  \E x \in T : \A y \in T : x <= y
<1>1. PICK x \in T : \A y \in T : <<y, x>> \notin OpToRel(<, Nat)
  BY NatLessThanWellFounded, WFMin
<1>2. \A a, b \in Nat : <<b, a>> \in OpToRel(<, Nat) <=> b < a
  BY DEF OpToRel
<1>3. ASSUME NEW y \in T PROVE x <= y
  <2>1. x \in Nat /\ y \in Nat
    OBVIOUS
  <2>2. ~ (y < x)
    BY <1>1, <1>2, <2>1
  <2> QED BY <2>1, <2>2
<1> QED BY <1>3

(* Induction over 0 .. N for a set of numbers.                             *)
LEMMA SetInduction ==
  ASSUME NEW N \in Nat, NEW S,
         0 \in S,
         \A n \in 0 .. N - 1 : n \in S => n + 1 \in S
  PROVE  0 .. N \subseteq S
<1> DEFINE T == {n \in 0 .. N : n \notin S}
<1>1. SUFFICES ASSUME T # {} PROVE FALSE
  OBVIOUS
<1>2. PICK x \in T : \A y \in T : x <= y
  <2>1. T \in SUBSET Nat
    OBVIOUS
  <2> QED BY <2>1, <1>1, LeastNat
<1>3. x \in 0 .. N /\ x # 0
  OBVIOUS
<1>4. x - 1 \in 0 .. N - 1 /\ x - 1 \notin T
  <2>1. x - 1 \in 0 .. N - 1 /\ ~ (x <= x - 1)
    BY <1>3
  <2> QED BY <2>1, <1>2
<1>5. x - 1 \in S
  BY <1>4
<1>6. (x - 1) + 1 \in S
  BY <1>4, <1>5
<1>7. (x - 1) + 1 = x
  BY <1>3
<1> QED BY <1>6, <1>7

-----------------------------------------------------------------------------
(* The layout of the board. *)

LEMMA Layout ==
  ASSUME NEW player \in Players
  PROVE  /\ NUMBER_OF_PITS \in Nat \ {0}
         /\ NumberOfHouses = 2 * NUMBER_OF_PITS + 2
         /\ Opponent(player) \in Players
         /\ Opponent(player) # player
         /\ FirstPit(player) \in Houses
         /\ FirstPit(player) \in {0, NUMBER_OF_PITS + 1}
         /\ FirstPit(player) + FirstPit(Opponent(player)) = NUMBER_OF_PITS + 1
         /\ Kalaha(player) = FirstPit(player) + NUMBER_OF_PITS
         /\ Kalaha(player) \in Houses
         /\ Kalaha(player) # Kalaha(Opponent(player))
         /\ MyPits(player) \subseteq Houses
         /\ Kalaha(player) \notin MyPits(player)
         /\ Kalaha(Opponent(player)) \notin MyPits(player)
BY PitsAssumption
   DEF Players, SOUTH, NORTH, Opponent, FirstPit, Kalaha, MyPits, Houses,
       NumberOfHouses

(* Every house is a kalaha or a pit of exactly one player.                 *)
LEMMA HouseCases ==
  ASSUME NEW player \in Players, NEW h \in Houses
  PROVE  \/ h \in MyPits(player) /\ h \notin MyPits(Opponent(player))
         \/ h \in MyPits(Opponent(player)) /\ h \notin MyPits(player)
         \/ h = Kalaha(player)
         \/ h = Kalaha(Opponent(player))
BY PitsAssumption
   DEF Players, SOUTH, NORTH, Opponent, FirstPit, Kalaha, MyPits, Houses,
       NumberOfHouses

LEMMA PitType ==
  ASSUME NEW player \in Players, NEW pit \in LocalPits
  PROVE  Pit(player, pit) \in MyPits(player) /\ Pit(player, pit) \in Houses
BY PitsAssumption
   DEF Players, SOUTH, NORTH, FirstPit, Kalaha, MyPits, Houses,
       NumberOfHouses, Pit, LocalPits

LEMMA OppositeType ==
  ASSUME NEW player \in Players, NEW h \in MyPits(player)
  PROVE  /\ Opposite(player, h) \in MyPits(Opponent(player))
         /\ Opposite(player, h) \in Houses
         /\ Opposite(player, h) # h
         /\ Opposite(player, h) # Kalaha(player)
BY PitsAssumption
   DEF Players, SOUTH, NORTH, Opponent, FirstPit, Kalaha, MyPits, Houses,
       NumberOfHouses, Opposite, Pit

(* A stone comes to any house but the opponent's kalaha.                   *)
LEMMA SowHouseType ==
  ASSUME NEW player \in Players, NEW pit \in LocalPits, NEW k \in Nat
  PROVE  /\ SowHouse(player, pit, k) \in Houses
         /\ SowHouse(player, pit, k) # Kalaha(Opponent(player))
<1> DEFINE local == (pit + k) % Lap
<1> HIDE DEF local
<1>1. pit \in Nat /\ Lap \in Nat \ {0} /\ Lap = 2 * NUMBER_OF_PITS + 1
  BY PitsAssumption DEF LocalPits, Lap
<1>2. local \in 0 .. 2 * NUMBER_OF_PITS
  <2>1. pit + k \in Int
    BY <1>1
  <2>2. local \in 0 .. Lap - 1
    BY <2>1, <1>1, ModRange DEF local
  <2> QED BY <2>2, <1>1, PitsAssumption
<1> DEFINE sum == FirstPit(player) + local
<1>3. sum \in 0 .. 2 * NumberOfHouses - 1 /\ NumberOfHouses \in Nat \ {0}
  BY <1>2, PitsAssumption, Layout DEF NumberOfHouses
<1>4. SowHouse(player, pit, k) = sum % NumberOfHouses
  BY DEF SowHouse, local
<1> HIDE DEF sum
<1>5. sum % NumberOfHouses
        = IF sum < NumberOfHouses THEN sum ELSE sum - NumberOfHouses
  BY <1>3, ModOnce
<1> QED BY <1>2, <1>4, <1>5, PitsAssumption
        DEF sum, Players, SOUTH, NORTH, Opponent, FirstPit, Kalaha, Houses,
            NumberOfHouses

-----------------------------------------------------------------------------
(* Counting stones. *)

(* The equations that define the running sum: a recursive function has to  *)
(* be shown to exist before its equation may be used.                      *)
LEMMA StonesBeforeDef ==
  ASSUME NEW houses \in [Houses -> Nat]
  PROVE  /\ StonesBefore(houses) \in [0 .. NumberOfHouses -> Nat]
         /\ StonesBefore(houses)[0] = 0
         /\ \A h \in Houses :
              StonesBefore(houses)[h + 1] = StonesBefore(houses)[h] + houses[h]
<1> DEFINE N == NumberOfHouses
           IsSum(s, n) == /\ s \in [0 .. n -> Nat]
                          /\ s[0] = 0
                          /\ \A i \in 1 .. n : s[i] = s[i - 1] + houses[i - 1]
           S == {n \in 0 .. N : \E s \in [0 .. n -> Nat] : IsSum(s, n)}
<1>1. N \in Nat /\ Houses = 0 .. N - 1
  BY PitsAssumption DEF NumberOfHouses, Houses
<1> HIDE DEF N
<1>2. 0 \in S
  <2> DEFINE s == [i \in 0 .. 0 |-> 0]
  <2>1. IsSum(s, 0)
    OBVIOUS
  <2>2. \E q \in [0 .. 0 -> Nat] : IsSum(q, 0)
    BY <2>1
  <2> HIDE DEF IsSum, s
  <2> QED BY <2>2, <1>1
<1>3. ASSUME NEW n \in 0 .. N - 1, n \in S
      PROVE  n + 1 \in S
  <2>1. PICK s \in [0 .. n -> Nat] : IsSum(s, n)
    BY <1>3
  <2> DEFINE r == [i \in 0 .. n + 1 |->
                     IF i = n + 1 THEN s[n] + houses[n] ELSE s[i]]
  <2>2. n \in Nat /\ n \in 0 .. n /\ houses[n] \in Nat
    BY <1>1
  <2>3. r \in [0 .. n + 1 -> Nat]
    BY <2>1, <2>2
  <2>4. r[0] = 0
    BY <2>1, <2>2
  <2>5. ASSUME NEW i \in 1 .. n + 1
        PROVE  r[i] = r[i - 1] + houses[i - 1]
    <3>1. CASE i = n + 1
      BY <3>1, <2>2
    <3>2. CASE i # n + 1
      <4>1. i \in 1 .. n /\ i - 1 \in 0 .. n
        BY <3>2, <2>2
      <4> QED BY <4>1, <3>2, <2>1, <2>2
    <3> QED BY <3>1, <3>2
  <2>6. n + 1 \in 0 .. N
    BY <1>1
  <2> QED BY <2>3, <2>4, <2>5, <2>6
<1>4. N \in S
  <2> HIDE DEF S
  <2>1. 0 .. N \subseteq S
    BY <1>1, <1>2, <1>3, SetInduction
  <2> QED BY <2>1, <1>1
<1>5. PICK t \in [0 .. N -> Nat] : IsSum(t, N)
  BY <1>4
<1> DEFINE F(f) == [h \in 0 .. N |->
                      IF h = 0 THEN 0 ELSE f[h - 1] + houses[h - 1]]
<1>6. t = F(t)
  BY <1>1, <1>5
<1>7. StonesBefore(houses) = CHOOSE f : f = F(f)
  BY DEF StonesBefore, N
<1>8. StonesBefore(houses) = F(StonesBefore(houses))
  BY <1>6, <1>7
<1> DEFINE sb == StonesBefore(houses)
<1> HIDE DEF sb
<1>9. sb = F(sb)
  BY <1>8 DEF sb
<1>10. sb[0] = 0 /\ \A i \in 1 .. N : sb[i] = sb[i - 1] + houses[i - 1]
  BY <1>9, <1>1
<1>11. sb \in [0 .. N -> Nat]
  <2> DEFINE T == {n \in 0 .. N : sb[n] \in Nat}
  <2>1. 0 \in T
    BY <1>1, <1>10
  <2>2. ASSUME NEW n \in 0 .. N - 1, n \in T
        PROVE  n + 1 \in T
    <3>1. n + 1 \in 1 .. N /\ (n + 1) - 1 = n /\ houses[n] \in Nat
      BY <1>1
    <3> QED BY <3>1, <2>2, <1>10
  <2>3. 0 .. N \subseteq T
    <3> HIDE DEF T
    <3> QED BY <1>1, <2>1, <2>2, SetInduction
  <2>4. \A n \in 0 .. N : sb[n] \in Nat
    BY <2>3
  <2> QED BY <2>4, <1>9
<1>12. ASSUME NEW h \in Houses
       PROVE  sb[h + 1] = sb[h] + houses[h]
  <2>1. h + 1 \in 1 .. N /\ (h + 1) - 1 = h
    BY <1>1
  <2> QED BY <2>1, <1>10
<1> QED BY <1>10, <1>11, <1>12 DEF sb, N

(* A function that satisfies the equations is the running sum.             *)
LEMMA RunningSum ==
  ASSUME NEW houses \in [Houses -> Nat],
         NEW F,
         F[0] = 0,
         \A h \in Houses : F[h + 1] = F[h] + houses[h]
  PROVE  \A n \in 0 .. NumberOfHouses : StonesBefore(houses)[n] = F[n]
<1> DEFINE N == NumberOfHouses
           sb == StonesBefore(houses)
           T == {n \in 0 .. N : sb[n] = F[n]}
<1>1. N \in Nat /\ Houses = 0 .. N - 1
  BY PitsAssumption DEF NumberOfHouses, Houses
<1>2. sb[0] = 0 /\ \A h \in Houses : sb[h + 1] = sb[h] + houses[h]
  BY StonesBeforeDef
<1> HIDE DEF N, sb
<1>3. 0 \in T
  BY <1>1, <1>2
<1>4. ASSUME NEW n \in 0 .. N - 1, n \in T
      PROVE  n + 1 \in T
  <2>1. n \in Houses /\ n + 1 \in 0 .. N
    BY <1>1
  <2> QED BY <2>1, <1>4, <1>2
<1>5. 0 .. N \subseteq T
  <2> HIDE DEF T
  <2> QED BY <1>1, <1>3, <1>4, SetInduction
<1> QED BY <1>5 DEF N, sb

(* The stones in a player's pits are a natural number.                     *)
LEMMA StonesInPitsType ==
  ASSUME NEW houses \in [Houses -> Nat], NEW player \in Players
  PROVE  StonesInPits(houses, player) \in Nat
<1> DEFINE sb == StonesBefore(houses)
           first == FirstPit(player)
           T == {n \in 0 .. NUMBER_OF_PITS : sb[first + n] - sb[first] \in Nat}
<1>1. /\ sb \in [0 .. NumberOfHouses -> Nat]
      /\ \A h \in Houses : sb[h + 1] = sb[h] + houses[h]
  BY StonesBeforeDef
<1>2. /\ NUMBER_OF_PITS \in Nat
      /\ first \in Nat
      /\ first + NUMBER_OF_PITS < NumberOfHouses
      /\ Houses = 0 .. NumberOfHouses - 1
      /\ NumberOfHouses \in Nat
      /\ Kalaha(player) = first + NUMBER_OF_PITS
  BY PitsAssumption DEF FirstPit, NumberOfHouses, Houses, Kalaha
<1> HIDE DEF sb, first
<1>3. 0 \in T
  BY <1>1, <1>2
<1>4. ASSUME NEW n \in 0 .. NUMBER_OF_PITS - 1, n \in T
      PROVE  n + 1 \in T
  <2>1. /\ first + n \in Houses
        /\ (first + n) + 1 = first + (n + 1)
        /\ n + 1 \in 0 .. NUMBER_OF_PITS
    BY <1>2
  <2>2. sb[first + (n + 1)] = sb[first + n] + houses[first + n]
    BY <2>1, <1>1
  <2>3. /\ houses[first + n] \in Nat
        /\ sb[first + n] \in Nat
        /\ sb[first] \in Nat
    BY <2>1, <1>1, <1>2
  <2>4. sb[first + n] - sb[first] \in Nat
    BY <1>4
  <2> QED BY <2>1, <2>2, <2>3, <2>4
<1>5. 0 .. NUMBER_OF_PITS \subseteq T
  <2> HIDE DEF T
  <2> QED BY <1>2, <1>3, <1>4, SetInduction
<1> QED BY <1>2, <1>5 DEF StonesInPits, sb, first

(* The sum when the stones of one house change.                            *)
LEMMA OneHouseChanges ==
  ASSUME NEW houses \in [Houses -> Nat],
         NEW new \in [Houses -> Nat],
         NEW c \in Houses,
         \A h \in Houses : h # c => new[h] = houses[h]
  PROVE  StonesOnBoard(new) = StonesOnBoard(houses) - houses[c] + new[c]
<1> DEFINE sb == StonesBefore(houses)
           F == [n \in 0 .. NumberOfHouses |->
                   IF n > c THEN sb[n] - houses[c] + new[c] ELSE sb[n]]
<1>1. /\ sb \in [0 .. NumberOfHouses -> Nat]
      /\ sb[0] = 0
      /\ \A h \in Houses : sb[h + 1] = sb[h] + houses[h]
  BY StonesBeforeDef
<1>2. Houses = 0 .. NumberOfHouses - 1 /\ NumberOfHouses \in Nat
  BY PitsAssumption DEF NumberOfHouses, Houses
<1> HIDE DEF sb
<1>3. F[0] = 0
  BY <1>1, <1>2
<1>4. ASSUME NEW h \in Houses
      PROVE  F[h + 1] = F[h] + new[h]
  <2>1. /\ h \in 0 .. NumberOfHouses
        /\ h + 1 \in 0 .. NumberOfHouses
        /\ h \in Nat /\ c \in Nat
        /\ houses[h] \in Nat /\ houses[c] \in Nat
        /\ new[h] \in Nat /\ new[c] \in Nat
        /\ sb[h] \in Nat
    BY <1>1, <1>2
  <2>2. sb[h + 1] = sb[h] + houses[h]
    BY <1>1
  <2>3. CASE h = c
    BY <2>1, <2>2, <2>3
  <2>4. CASE h < c
    BY <2>1, <2>2, <2>4
  <2>5. CASE h > c
    BY <2>1, <2>2, <2>5
  <2> QED BY <2>1, <2>3, <2>4, <2>5
<1>5. F[NumberOfHouses] = sb[NumberOfHouses] - houses[c] + new[c]
  BY <1>2
<1> HIDE DEF F
<1>6. \A n \in 0 .. NumberOfHouses : StonesBefore(new)[n] = F[n]
  BY <1>3, <1>4, RunningSum
<1>7. StonesBefore(new)[NumberOfHouses] = F[NumberOfHouses]
  BY <1>2, <1>6
<1> QED BY <1>5, <1>7 DEF StonesOnBoard, sb

-----------------------------------------------------------------------------
(* Sowing. *)

LEMMA SownType ==
  ASSUME NEW houses \in [Houses -> Nat], NEW player \in Players,
         NEW pit \in LocalPits, NEW k \in Nat
  PROVE  Sown(houses, player, pit, k) \in [Houses -> Nat]
<1>1. ASSUME NEW h \in Houses
      PROVE  /\ IsFiniteSet({j \in 1 .. k : SowHouse(player, pit, j) = h})
             /\ Cardinality({j \in 1 .. k : SowHouse(player, pit, j) = h})
                  \in Nat
  <2> DEFINE T == {j \in 1 .. k : SowHouse(player, pit, j) = h}
  <2>1. IsFiniteSet(1 .. k)
    BY FS_Interval
  <2>2. T \subseteq 1 .. k
    OBVIOUS
  <2> HIDE DEF T
  <2>3. IsFiniteSet(T)
    BY <2>1, <2>2, FS_Subset
  <2>4. Cardinality(T) \in Nat
    BY <2>3, FS_CardinalityType
  <2> QED BY <2>3, <2>4 DEF T
<1>2. ASSUME NEW h \in Houses
      PROVE  (IF h = Pit(player, pit) THEN 0 ELSE houses[h])
               + Cardinality({j \in 1 .. k : SowHouse(player, pit, j) = h})
                   \in Nat
  <2>1. (IF h = Pit(player, pit) THEN 0 ELSE houses[h]) \in Nat
    OBVIOUS
  <2> HIDE DEF Sown
  <2> QED BY <1>1, <2>1
<1> QED BY <1>2 DEF Sown

(* Before the first stone only the pit is empty.                           *)
LEMMA SownNone ==
  ASSUME NEW houses \in [Houses -> Nat], NEW player \in Players,
         NEW pit \in LocalPits
  PROVE  Sown(houses, player, pit, 0) = [houses EXCEPT ![Pit(player, pit)] = 0]
<1>1. ASSUME NEW h \in Houses
      PROVE  Cardinality({j \in 1 .. 0 : SowHouse(player, pit, j) = h}) = 0
  <2>1. {j \in 1 .. 0 : SowHouse(player, pit, j) = h} = {}
    OBVIOUS
  <2> QED BY <2>1, FS_EmptySet
<1>2. Pit(player, pit) \in Houses
  BY PitType
<1> DEFINE count(h) == Cardinality({j \in 1 .. 0 : SowHouse(player, pit, j) = h})
           base(h) == IF h = Pit(player, pit) THEN 0 ELSE houses[h]
<1>3. Sown(houses, player, pit, 0) = [h \in Houses |-> base(h) + count(h)]
  BY DEF Sown
<1>4. \A h \in Houses : base(h) \in Nat
  OBVIOUS
<1>5. [houses EXCEPT ![Pit(player, pit)] = 0] = [h \in Houses |-> base(h)]
  BY <1>2
<1> HIDE DEF base, count
<1>6. \A h \in Houses : base(h) + count(h) = base(h)
  BY <1>1, <1>4 DEF count
<1> QED BY <1>3, <1>5, <1>6

(* Each stone raises the house it comes to by one.                         *)
LEMMA SownOneMore ==
  ASSUME NEW houses \in [Houses -> Nat], NEW player \in Players,
         NEW pit \in LocalPits, NEW k \in Nat
  PROVE  Sown(houses, player, pit, k + 1)
           = [Sown(houses, player, pit, k)
                EXCEPT ![SowHouse(player, pit, k + 1)] = @ + 1]
<1> DEFINE c == SowHouse(player, pit, k + 1)
           T(n, h) == {j \in 1 .. n : SowHouse(player, pit, j) = h}
           base(h) == IF h = Pit(player, pit) THEN 0 ELSE houses[h]
<1>1. ASSUME NEW h \in Houses
      PROVE  Cardinality(T(k + 1, h))
               = Cardinality(T(k, h)) + (IF h = c THEN 1 ELSE 0)
  <2>1. IsFiniteSet(1 .. k)
    BY FS_Interval
  <2>2. IsFiniteSet(T(k, h))
    BY <2>1, FS_Subset
  <2>3. k + 1 \notin T(k, h)
    OBVIOUS
  <2>4. Cardinality(T(k, h)) \in Nat
    BY <2>2, FS_CardinalityType
  <2>5. CASE h = c
    <3>1. T(k + 1, h) = T(k, h) \union {k + 1}
      BY <2>5
    <3>2. Cardinality(T(k, h) \union {k + 1}) = Cardinality(T(k, h)) + 1
      BY <2>2, <2>3, FS_AddElement
    <3> QED BY <3>1, <3>2, <2>5
  <2>6. CASE h # c
    <3>1. T(k + 1, h) = T(k, h)
      BY <2>6
    <3> QED BY <3>1, <2>4, <2>6
  <2> QED BY <2>5, <2>6
<1>2. ASSUME NEW h \in Houses
      PROVE  base(h) \in Nat /\ Cardinality(T(k, h)) \in Nat
  <2>1. IsFiniteSet(1 .. k)
    BY FS_Interval
  <2>2. IsFiniteSet(T(k, h))
    BY <2>1, FS_Subset
  <2>3. Cardinality(T(k, h)) \in Nat
    BY <2>2, FS_CardinalityType
  <2> QED BY <2>3
<1>3. /\ Sown(houses, player, pit, k)
           = [h \in Houses |-> base(h) + Cardinality(T(k, h))]
      /\ Sown(houses, player, pit, k + 1)
           = [h \in Houses |-> base(h) + Cardinality(T(k + 1, h))]
  BY DEF Sown
<1> HIDE DEF T, base, c
<1>4. \A h \in Houses :
        base(h) + Cardinality(T(k + 1, h))
          = IF h = c THEN (base(h) + Cardinality(T(k, h))) + 1
                     ELSE base(h) + Cardinality(T(k, h))
  BY <1>1, <1>2
<1> QED BY <1>3, <1>4 DEF c

(* Sowing k stones puts k stones on the board that the pit was emptied on. *)
LEMMA SownConserves ==
  ASSUME NEW houses \in [Houses -> Nat], NEW player \in Players,
         NEW pit \in LocalPits, NEW N \in Nat
  PROVE  StonesOnBoard(Sown(houses, player, pit, N))
           = StonesOnBoard(houses) - houses[Pit(player, pit)] + N
<1> DEFINE sown(k) == Sown(houses, player, pit, k)
           sum == StonesOnBoard(houses) - houses[Pit(player, pit)]
           T == {k \in 0 .. N : StonesOnBoard(sown(k)) = sum + k}
<1>1. sum \in Int /\ Pit(player, pit) \in Houses
  BY StonesBeforeDef, PitType, PitsAssumption DEF StonesOnBoard, NumberOfHouses
<1>2. 0 \in T
  <2>1. sown(0) \in [Houses -> Nat]
    BY SownType
  <2>2. /\ sown(0)[Pit(player, pit)] = 0
        /\ \A h \in Houses : h # Pit(player, pit) => sown(0)[h] = houses[h]
    BY <1>1, SownNone
  <2> HIDE DEF sown
  <2>3. StonesOnBoard(sown(0)) = sum + 0
    BY <1>1, <2>1, <2>2, OneHouseChanges
  <2> QED BY <2>3, <1>1
<1>3. ASSUME NEW k \in 0 .. N - 1, k \in T
      PROVE  k + 1 \in T
  <2> DEFINE c == SowHouse(player, pit, k + 1)
  <2>1. /\ k \in Nat /\ k + 1 \in Nat /\ k + 1 \in 0 .. N
        /\ c \in Houses
        /\ sown(k) \in [Houses -> Nat]
        /\ sown(k + 1) \in [Houses -> Nat]
        /\ sown(k)[c] \in Nat
    BY SowHouseType, SownType
  <2>2. /\ sown(k + 1)[c] = sown(k)[c] + 1
        /\ \A h \in Houses : h # c => sown(k + 1)[h] = sown(k)[h]
    <3>1. sown(k + 1) = [sown(k) EXCEPT ![c] = @ + 1]
      <4>1. k \in Nat
        OBVIOUS
      <4> QED BY <4>1, SownOneMore
    <3> HIDE DEF c, sown
    <3> QED BY <2>1, <3>1
  <2> HIDE DEF c, sown, sum
  <2>3. StonesOnBoard(sown(k + 1))
          = StonesOnBoard(sown(k)) - sown(k)[c] + sown(k + 1)[c]
    BY <2>1, <2>2, OneHouseChanges
  <2>4. StonesOnBoard(sown(k)) = sum + k
    BY <1>3
  <2>5. StonesOnBoard(sown(k + 1)) = sum + (k + 1)
    BY <2>1, <2>2, <2>3, <2>4, <1>1
  <2> QED BY <2>1, <2>5
<1>4. 0 .. N \subseteq T
  <2> HIDE DEF T
  <2> QED BY <1>2, <1>3, SetInduction
<1>5. N \in T
  BY <1>4
<1> QED BY <1>5

(* The last stone adds itself to the board, wherever it takes the stolen   *)
(* stones.                                                                 *)
LEMMA DropLastConserves ==
  ASSUME NEW houses \in [Houses -> Nat], NEW player \in Players,
         NEW last \in Houses
  PROVE  /\ DropLast(houses, player, last) \in [Houses -> Nat]
         /\ StonesOnBoard(DropLast(houses, player, last))
              = StonesOnBoard(houses) + 1
<1> DEFINE opp == Opposite(player, last)
           kalaha == Kalaha(player)
           new == DropLast(houses, player, last)
<1>1. kalaha \in Houses /\ StonesOnBoard(houses) \in Nat
  BY Layout, StonesBeforeDef, PitsAssumption DEF StonesOnBoard, NumberOfHouses
<1>2. CASE Steals(houses, player, last)
  <2>1. last \in MyPits(player)
    BY <1>2 DEF Steals
  <2>2. opp \in Houses /\ opp # kalaha
    BY <2>1, OppositeType
  <2>3. new = [houses EXCEPT ![kalaha] = @ + 1 + houses[opp], ![opp] = 0]
    BY <1>2 DEF DropLast
  <2> DEFINE one == [houses EXCEPT ![kalaha] = @ + 1 + houses[opp]]
  <2> HIDE DEF opp, kalaha, new
  <2>4. houses[opp] \in Nat /\ houses[kalaha] \in Nat
    BY <1>1, <2>2
  <2>5. /\ one \in [Houses -> Nat]
        /\ one[kalaha] = houses[kalaha] + 1 + houses[opp]
        /\ one[opp] = houses[opp]
        /\ \A h \in Houses : h # kalaha => one[h] = houses[h]
    BY <1>1, <2>2, <2>4
  <2>6. /\ new \in [Houses -> Nat]
        /\ new[opp] = 0
        /\ \A h \in Houses : h # opp => new[h] = one[h]
    BY <1>1, <2>2, <2>3, <2>4
  <2> HIDE DEF one
  <2>7. StonesOnBoard(one)
          = StonesOnBoard(houses) - houses[kalaha] + one[kalaha]
    BY <1>1, <2>5, OneHouseChanges
  <2>8. StonesOnBoard(new) = StonesOnBoard(one) - one[opp] + new[opp]
    BY <2>2, <2>5, <2>6, OneHouseChanges
  <2>9. StonesOnBoard(new) = StonesOnBoard(houses) + 1
    BY <1>1, <2>4, <2>5, <2>6, <2>7, <2>8
  <2> QED BY <2>6, <2>9 DEF new
<1>3. CASE ~ Steals(houses, player, last)
  <2>1. new = [houses EXCEPT ![last] = @ + 1]
    BY <1>3 DEF DropLast
  <2>2. houses[last] \in Nat
    OBVIOUS
  <2> HIDE DEF new
  <2>3. /\ new \in [Houses -> Nat]
        /\ new[last] = houses[last] + 1
        /\ \A h \in Houses : h # last => new[h] = houses[h]
    BY <2>1, <2>2
  <2>4. StonesOnBoard(new) = StonesOnBoard(houses) - houses[last] + new[last]
    BY <2>3, OneHouseChanges
  <2>5. StonesOnBoard(new) = StonesOnBoard(houses) + 1
    BY <1>1, <2>2, <2>3, <2>4
  <2> QED BY <2>3, <2>5 DEF new
<1> QED BY <1>2, <1>3

(* The sowing of a pit, the last stone included.                           *)
LEMMA AfterSowingConserves ==
  ASSUME NEW houses \in [Houses -> Nat], NEW player \in Players,
         NEW pit \in LocalPits,
         houses[Pit(player, pit)] # 0
  PROVE  /\ AfterSowing(houses, player, pit) \in [Houses -> Nat]
         /\ StonesOnBoard(AfterSowing(houses, player, pit))
              = StonesOnBoard(houses)
<1> DEFINE n == houses[Pit(player, pit)]
           sown == Sown(houses, player, pit, n - 1)
           last == SowHouse(player, pit, n)
<1>1. n \in Nat /\ n - 1 \in Nat /\ StonesOnBoard(houses) \in Nat
  BY PitType, StonesBeforeDef, PitsAssumption DEF StonesOnBoard, NumberOfHouses
<1>2. AfterSowing(houses, player, pit) = DropLast(sown, player, last)
  BY DEF AfterSowing
<1>3. StonesOnBoard(sown) = StonesOnBoard(houses) - n + (n - 1)
  BY <1>1, SownConserves
<1>4. sown \in [Houses -> Nat] /\ last \in Houses
  BY <1>1, SownType, SowHouseType
<1> HIDE DEF n, sown, last
<1>5. /\ DropLast(sown, player, last) \in [Houses -> Nat]
      /\ StonesOnBoard(DropLast(sown, player, last)) = StonesOnBoard(sown) + 1
  BY <1>4, DropLastConserves
<1>6. StonesOnBoard(sown) + 1 = StonesOnBoard(houses)
  BY <1>1, <1>3
<1> QED BY <1>2, <1>5, <1>6

-----------------------------------------------------------------------------
(* The end of the game and its beginning. *)

(* The sweep moves stones, it makes none and loses none.                   *)
LEMMA EndTransferConserves ==
  ASSUME NEW houses \in [Houses -> Nat], NEW player \in Players
  PROVE  /\ EndTransfer(houses, player) \in [Houses -> Nat]
         /\ StonesOnBoard(EndTransfer(houses, player)) = StonesOnBoard(houses)
<1> DEFINE sb == StonesBefore(houses)
           first == FirstPit(player)
           kalaha == Kalaha(player)
           left == StonesInPits(houses, player)
           new == [h \in Houses |->
                     IF h \in MyPits(player) THEN 0
                     ELSE houses[h] + IF h = kalaha THEN left ELSE 0]
           F == [n \in 0 .. NumberOfHouses |->
                   IF n > first /\ n <= kalaha THEN sb[first] ELSE sb[n]]
<1>1. CASE ~ EndGameSweepsBoard
  BY <1>1 DEF EndTransfer
<1>2. CASE EndGameSweepsBoard
  <2>1. EndTransfer(houses, player) = new
    BY <1>2 DEF EndTransfer
  <2>2. left \in Nat
    BY StonesInPitsType
  <2>3. /\ sb \in [0 .. NumberOfHouses -> Nat]
        /\ sb[0] = 0
        /\ \A h \in Houses : sb[h + 1] = sb[h] + houses[h]
    BY StonesBeforeDef
  <2>4. left = sb[kalaha] - sb[first]
    BY DEF StonesInPits
  <2>5. /\ MyPits(player) = first .. kalaha - 1
        /\ Houses = 0 .. NumberOfHouses - 1
        /\ NumberOfHouses \in Nat
        /\ first \in Nat /\ kalaha \in Nat
        /\ first < kalaha /\ kalaha < NumberOfHouses
    BY PitsAssumption DEF MyPits, Houses, NumberOfHouses, FirstPit, Kalaha
  <2> HIDE DEF sb, first, kalaha, left
  <2>6. new \in [Houses -> Nat]
    BY <2>2, <2>5
  <2>7. F[0] = 0
    BY <2>3, <2>5
  <2>8. ASSUME NEW h \in Houses
        PROVE  F[h + 1] = F[h] + new[h]
    <3>1. /\ h \in 0 .. NumberOfHouses
          /\ h + 1 \in 0 .. NumberOfHouses
          /\ h \in Nat
          /\ houses[h] \in Nat
          /\ sb[h] \in Nat /\ sb[first] \in Nat /\ sb[kalaha] \in Nat
      <4>1. houses[h] \in Nat
        OBVIOUS
      <4>2. h \in 0 .. NumberOfHouses - 1
        BY <2>5
      <4>3. /\ h \in 0 .. NumberOfHouses /\ h + 1 \in 0 .. NumberOfHouses
            /\ first \in 0 .. NumberOfHouses /\ kalaha \in 0 .. NumberOfHouses
        BY <4>2, <2>5
      <4> QED BY <4>1, <4>2, <4>3, <2>3
    <3>2. sb[h + 1] = sb[h] + houses[h]
      BY <2>3
    <3>3. /\ F[h] = IF h > first /\ h <= kalaha THEN sb[first] ELSE sb[h]
          /\ F[h + 1] = IF h + 1 > first /\ h + 1 <= kalaha THEN sb[first]
                        ELSE sb[h + 1]
      BY <3>1
    <3>4. CASE h \in MyPits(player)
      <4>1. new[h] = 0
        BY <3>4
      <4>2. h >= first /\ h < kalaha
        BY <3>4, <2>5
      <4> HIDE DEF new, F
      <4> QED BY <3>1, <3>3, <4>1, <4>2, <2>5
    <3>5. CASE h = kalaha
      <4>1. new[h] = houses[h] + left
        BY <3>5, <2>5
      <4>2. F[h] = sb[first] /\ F[h + 1] = sb[h + 1]
        <5> HIDE DEF new, F
        <5> QED BY <3>1, <3>3, <3>5, <2>5
      <4> HIDE DEF new, F
      <4> QED BY <3>1, <3>2, <3>5, <4>1, <4>2, <2>4
    <3>6. CASE h \notin MyPits(player) /\ h # kalaha
      <4>1. new[h] = houses[h]
        BY <3>6
      <4>2. h < first \/ h > kalaha
        BY <3>1, <3>6, <2>5
      <4>3. F[h] = sb[h] /\ F[h + 1] = sb[h + 1]
        <5> HIDE DEF new, F
        <5> QED BY <3>1, <3>3, <4>2, <2>5
      <4> HIDE DEF new, F
      <4> QED BY <3>2, <4>1, <4>3
    <3> QED BY <3>4, <3>5, <3>6
  <2>9. F[NumberOfHouses] = sb[NumberOfHouses]
    BY <2>5
  <2> HIDE DEF new, F
  <2>10. \A n \in 0 .. NumberOfHouses : StonesBefore(new)[n] = F[n]
    BY <2>6, <2>7, <2>8, RunningSum
  <2>11. StonesBefore(new)[NumberOfHouses] = sb[NumberOfHouses]
    BY <2>5, <2>9, <2>10
  <2> QED BY <2>1, <2>6, <2>11 DEF StonesOnBoard, sb
<1> QED BY <1>1, <1>2

(* The stones of a new board.                                              *)
LEMMA InitHousesStones ==
  ASSUME NEW stones \in Nat
  PROVE  /\ InitHouses(stones) \in [Houses -> Nat]
         /\ StonesOnBoard(InitHouses(stones)) = 2 * NUMBER_OF_PITS * stones
<1> DEFINE P == NUMBER_OF_PITS
           N == NumberOfHouses
           pits(n) == IF n <= P THEN n ELSE IF n < N THEN n - 1 ELSE n - 2
           F == [n \in 0 .. N |-> pits(n) * stones]
           new == InitHouses(stones)
<1>1. P \in Nat \ {0} /\ N = 2 * P + 2 /\ Houses = 0 .. N - 1
  BY PitsAssumption DEF NumberOfHouses, Houses
<1>2. new = [h \in Houses |-> IF h = P \/ h = N - 1 THEN 0 ELSE stones]
  BY <1>1 DEF InitHouses, Players, SOUTH, NORTH, Kalaha, FirstPit
<1>3. new \in [Houses -> Nat]
  BY <1>2
<1> HIDE DEF P, N, new
<1>4. F[0] = 0
  BY <1>1
<1>5. ASSUME NEW h \in Houses
      PROVE  F[h + 1] = F[h] + new[h]
  <2>1. h \in 0 .. N /\ h + 1 \in 0 .. N /\ h \in Nat
    BY <1>1
  <2>2. pits(h + 1) = IF h = P \/ h = N - 1 THEN pits(h) ELSE pits(h) + 1
    BY <1>1
  <2>3. pits(h) \in Nat
    BY <1>1
  <2>4. F[h + 1] = pits(h + 1) * stones /\ F[h] = pits(h) * stones
    BY <2>1
  <2> HIDE DEF pits, F
  <2>5. CASE h = P \/ h = N - 1
    <3>1. new[h] = 0
      BY <1>2, <2>5
    <3>2. pits(h) * stones \in Nat
      BY <2>3
    <3> QED BY <2>2, <2>4, <2>5, <3>1, <3>2
  <2>6. CASE ~ (h = P \/ h = N - 1)
    <3>1. new[h] = stones
      BY <1>2, <2>6
    <3>2. (pits(h) + 1) * stones = pits(h) * stones + stones
      BY <2>3
    <3> QED BY <2>2, <2>4, <2>6, <3>1, <3>2
  <2> QED BY <2>5, <2>6
<1>6. F[N] = (2 * P) * stones
  <2>1. N \in 0 .. N /\ pits(N) = 2 * P
    BY <1>1
  <2> QED BY <2>1
<1> HIDE DEF F
<1>7. \A n \in 0 .. N : StonesBefore(new)[n] = F[n]
  BY <1>3, <1>4, <1>5, RunningSum DEF N
<1>8. StonesBefore(new)[N] = F[N]
  BY <1>1, <1>7
<1> QED BY <1>3, <1>6, <1>8 DEF StonesOnBoard, N, P, new

-----------------------------------------------------------------------------
(* What a move does to the kalahas and to the player who comes next. *)

(* Sowing takes stones from no house but the pit, and a lap gives the      *)
(* opponent's kalaha nothing.                                              *)
LEMMA SownOnlyGains ==
  ASSUME NEW houses \in [Houses -> Nat], NEW player \in Players,
         NEW pit \in LocalPits, NEW k \in Nat
  PROVE  /\ \A h \in Houses : h # Pit(player, pit) =>
              Sown(houses, player, pit, k)[h] >= houses[h]
         /\ Sown(houses, player, pit, k)[Kalaha(Opponent(player))]
              = houses[Kalaha(Opponent(player))]
<1> DEFINE T(h) == {j \in 1 .. k : SowHouse(player, pit, j) = h}
           base(h) == IF h = Pit(player, pit) THEN 0 ELSE houses[h]
           other == Kalaha(Opponent(player))
<1>1. ASSUME NEW h \in Houses
      PROVE  Cardinality(T(h)) \in Nat
  <2>1. IsFiniteSet(1 .. k)
    BY FS_Interval
  <2>2. IsFiniteSet(T(h))
    BY <2>1, FS_Subset
  <2> QED BY <2>2, FS_CardinalityType
<1>2. Cardinality(T(other)) = 0
  <2>1. T(other) = {}
    BY SowHouseType
  <2> QED BY <2>1, FS_EmptySet
<1>3. \A h \in Houses : houses[h] \in Nat
  OBVIOUS
<1>4. other \in Houses /\ other # Pit(player, pit)
  BY Layout, PitType
<1>5. Sown(houses, player, pit, k)
        = [h \in Houses |-> base(h) + Cardinality(T(h))]
  BY DEF Sown
<1> HIDE DEF T, other
<1>6. \A h \in Houses : h # Pit(player, pit) =>
        base(h) + Cardinality(T(h)) >= houses[h]
  BY <1>1, <1>3
<1>7. base(other) + Cardinality(T(other)) = houses[other]
  BY <1>2, <1>3, <1>4
<1> HIDE DEF base
<1>8. /\ \A h \in Houses : h # Pit(player, pit) =>
           Sown(houses, player, pit, k)[h] >= houses[h]
      /\ Sown(houses, player, pit, k)[other] = houses[other]
  BY <1>4, <1>5, <1>6, <1>7
<1> QED BY <1>8 DEF other

(* A move only feeds the player's own kalaha.                              *)
LEMMA AfterSowingKalahas ==
  ASSUME NEW houses \in [Houses -> Nat], NEW player \in Players,
         NEW pit \in LocalPits,
         houses[Pit(player, pit)] # 0
  PROVE  LET sown == AfterSowing(houses, player, pit)
         IN  /\ sown[Kalaha(player)] >= houses[Kalaha(player)]
             /\ sown[Kalaha(Opponent(player))]
                  = houses[Kalaha(Opponent(player))]
<1> DEFINE n == houses[Pit(player, pit)]
           sown == Sown(houses, player, pit, n - 1)
           last == SowHouse(player, pit, n)
           mine == Kalaha(player)
           other == Kalaha(Opponent(player))
           new == DropLast(sown, player, last)
<1>1. n - 1 \in Nat /\ n \in Nat
  BY PitType
<1>2. /\ mine \in Houses /\ other \in Houses /\ mine # other
      /\ mine # Pit(player, pit)
  BY Layout, PitType
<1>3. /\ sown \in [Houses -> Nat]
      /\ sown[mine] >= houses[mine]
      /\ sown[other] = houses[other]
  BY <1>1, <1>2, SownType, SownOnlyGains
<1>4. last \in Houses /\ last # other
  BY <1>1, SowHouseType
<1>5. AfterSowing(houses, player, pit) = new
  BY DEF AfterSowing
<1>6. new[mine] >= sown[mine] /\ new[other] = sown[other]
  <2>1. CASE Steals(sown, player, last)
    <3> DEFINE opp == Opposite(player, last)
    <3>1. last \in MyPits(player)
      BY <2>1 DEF Steals
    <3>2. opp \in Houses /\ opp # mine /\ opp # other
      BY <3>1, OppositeType, Layout
    <3>3. new = [sown EXCEPT ![mine] = @ + 1 + sown[opp], ![opp] = 0]
      BY <2>1 DEF DropLast
    <3> HIDE DEF opp, sown, mine, other, new
    <3>4. sown[opp] \in Nat /\ sown[mine] \in Nat
      BY <1>2, <1>3, <3>2
    <3> QED BY <1>2, <1>3, <3>2, <3>3, <3>4
  <2>2. CASE ~ Steals(sown, player, last)
    <3>1. new = [sown EXCEPT ![last] = @ + 1]
      BY <2>2 DEF DropLast
    <3> HIDE DEF sown, mine, other, new, last
    <3>2. sown[mine] \in Nat
      BY <1>2, <1>3
    <3> QED BY <1>2, <1>3, <1>4, <3>1, <3>2
  <2> QED BY <2>1, <2>2
<1>7. houses[mine] \in Nat /\ sown[mine] \in Nat /\ new[mine] \in Nat
  BY <1>2, <1>3, <1>4, DropLastConserves
<1> HIDE DEF sown, new, mine
<1>8. new[mine] >= houses[mine]
  BY <1>3, <1>6, <1>7
<1> QED BY <1>3, <1>5, <1>6, <1>8 DEF mine

(* The sweep takes nothing from a kalaha.                                  *)
LEMMA EndTransferKalahas ==
  ASSUME NEW houses \in [Houses -> Nat], NEW keeper \in Players,
         NEW player \in Players
  PROVE  EndTransfer(houses, keeper)[Kalaha(player)] >= houses[Kalaha(player)]
<1>1. /\ Kalaha(player) \in Houses
      /\ Kalaha(player) \notin MyPits(keeper)
      /\ houses[Kalaha(player)] \in Nat
  BY Layout DEF Players, Opponent, SOUTH, NORTH
<1>2. StonesInPits(houses, keeper) \in Nat
  BY StonesInPitsType
<1> QED BY <1>1, <1>2 DEF EndTransfer

(* If the player who moved is left without stones and neither has another  *)
(* turn nor stole, the last stone gave the opponent something to move.     *)
LEMMA OpponentCanMove ==
  ASSUME NEW houses \in [Houses -> Nat], NEW player \in Players,
         NEW pit \in LocalPits,
         houses[Pit(player, pit)] # 0,
         ~ AllowStealingFromEmptyPit,
         NextPlayer(houses, player, pit) # player,
         ~ CanPlayerMove(AfterSowing(houses, player, pit), player)
  PROVE  CanPlayerMove(AfterSowing(houses, player, pit), Opponent(player))
<1> DEFINE n == houses[Pit(player, pit)]
           sown == Sown(houses, player, pit, n - 1)
           last == SowHouse(player, pit, n)
           new == AfterSowing(houses, player, pit)
<1>1. n - 1 \in Nat /\ n \in Nat
  BY PitType
<1>2. sown \in [Houses -> Nat]
  BY <1>1, SownType
<1>3. /\ last \in Houses
      /\ last # Kalaha(Opponent(player))
      /\ last # Kalaha(player)
  BY <1>1, SowHouseType DEF NextPlayer
<1>4. new = [sown EXCEPT ![last] = @ + 1]
  BY DEF AfterSowing, DropLast, Steals
<1> HIDE DEF sown, last, n
<1>5. new[last] # 0
  BY <1>2, <1>3, <1>4
<1>6. last \notin MyPits(player)
  BY <1>5 DEF CanPlayerMove
<1>7. last \in MyPits(Opponent(player))
  BY <1>3, <1>6, HouseCases
<1> QED BY <1>5, <1>7 DEF CanPlayerMove

-----------------------------------------------------------------------------
(* The kalahas and the whole board. *)

LEMMA KalahasWithinBoard ==
  ASSUME NEW houses \in [Houses -> Nat]
  PROVE  /\ houses[Kalaha(SOUTH)] + houses[Kalaha(NORTH)]
              <= StonesOnBoard(houses)
         /\ ~ CanPlayerMove(houses, SOUTH) /\ ~ CanPlayerMove(houses, NORTH) =>
              houses[Kalaha(SOUTH)] + houses[Kalaha(NORTH)]
                = StonesOnBoard(houses)
<1> DEFINE sb == StonesBefore(houses)
           ks == Kalaha(SOUTH)
           kn == Kalaha(NORTH)
           G(n) == (IF n > ks THEN houses[ks] ELSE 0)
                     + (IF n > kn THEN houses[kn] ELSE 0)
           allEmpty == ~ CanPlayerMove(houses, SOUTH)
                         /\ ~ CanPlayerMove(houses, NORTH)
           T == {n \in 0 .. NumberOfHouses :
                   sb[n] >= G(n) /\ (allEmpty => sb[n] = G(n))}
<1>1. /\ sb \in [0 .. NumberOfHouses -> Nat]
      /\ sb[0] = 0
      /\ \A h \in Houses : sb[h + 1] = sb[h] + houses[h]
  BY StonesBeforeDef
<1>2. /\ Houses = 0 .. NumberOfHouses - 1
      /\ NumberOfHouses \in Nat
      /\ ks \in Nat /\ ks < kn /\ kn = NumberOfHouses - 1
  BY PitsAssumption
     DEF Houses, NumberOfHouses, Kalaha, FirstPit, SOUTH, NORTH
<1>3. ks \in Houses /\ kn \in Houses
  BY <1>2
<1>4. houses[ks] \in Nat /\ houses[kn] \in Nat
  BY <1>3
<1>5. ASSUME allEmpty, NEW h \in Houses, h # ks, h # kn
      PROVE  houses[h] = 0
  <2>1. h \in MyPits(SOUTH) \/ h \in MyPits(NORTH)
    BY <1>5, HouseCases DEF Players, Opponent, SOUTH, NORTH
  <2> QED BY <1>5, <2>1 DEF CanPlayerMove
<1> HIDE DEF sb, ks, kn, allEmpty
<1>6. 0 \in T
  BY <1>1, <1>2
<1>7. ASSUME NEW n \in 0 .. NumberOfHouses - 1, n \in T
      PROVE  n + 1 \in T
  <2>1. n \in Houses /\ n \in Nat /\ n + 1 \in 0 .. NumberOfHouses
    BY <1>2
  <2>2. /\ sb[n + 1] = sb[n] + houses[n]
        /\ sb[n] \in Nat
        /\ houses[n] \in Nat
    <3>1. n \in 0 .. NumberOfHouses
      BY <1>2
    <3>2. houses[n] \in Nat
      BY <2>1
    <3> QED BY <1>1, <2>1, <3>1, <3>2
  <2>3. sb[n] >= G(n) /\ (allEmpty => sb[n] = G(n))
    BY <1>7
  <2>4. allEmpty => (n # ks /\ n # kn => houses[n] = 0)
    BY <1>5, <2>1
  <2>5. G(n + 1) = G(n) + IF n = ks \/ n = kn THEN houses[n] ELSE 0
    BY <2>1, <1>2, <1>4
  <2>6. G(n) \in Nat
    BY <1>4
  <2> HIDE DEF G
  <2>7. sb[n + 1] >= G(n + 1) /\ (allEmpty => sb[n + 1] = G(n + 1))
    BY <2>2, <2>3, <2>4, <2>5, <2>6
  <2> QED BY <2>1, <2>7
<1>8. 0 .. NumberOfHouses \subseteq T
  <2> HIDE DEF T
  <2> QED BY <1>2, <1>6, <1>7, SetInduction
<1>9. NumberOfHouses \in T
  BY <1>2, <1>8
<1>10. G(NumberOfHouses) = houses[ks] + houses[kn]
  BY <1>2, <1>4
<1> QED BY <1>9, <1>10 DEF StonesOnBoard, sb, ks, kn, allEmpty

-----------------------------------------------------------------------------
(* Moves as a whole: the sowing, the next player and the end of the game.  *)

(* What a move of stones that are there leads to.                          *)
LEMMA AfterMoveType ==
  ASSUME NEW houses \in [Houses -> Nat], NEW player \in Players,
         NEW pit \in LocalPits,
         houses[Pit(player, pit)] # 0
  PROVE  /\ AfterMove(houses, player, pit) \in [Houses -> Nat]
         /\ NextPlayer(houses, player, pit) \in Players
         /\ EndsGame(houses, player, pit) \in BOOLEAN
<1> DEFINE sown == AfterSowing(houses, player, pit)
           keeper == LastOwner(sown, player)
<1>1. sown \in [Houses -> Nat]
  BY AfterSowingConserves
<1>2. keeper \in Players /\ NextPlayer(houses, player, pit) \in Players
  BY Layout DEF NextPlayer, LastOwner
<1>3. EndsGame(houses, player, pit) \in BOOLEAN
  BY DEF EndsGame, IsEnd
<1>4. AfterMove(houses, player, pit)
        = IF EndsGame(houses, player, pit) THEN EndTransfer(sown, keeper)
          ELSE sown
  BY DEF AfterMove
<1> HIDE DEF sown, keeper
<1>5. EndTransfer(sown, keeper) \in [Houses -> Nat]
  BY <1>1, <1>2, EndTransferConserves
<1> QED BY <1>1, <1>2, <1>3, <1>4, <1>5

(* Both players have a move in the first position.                         *)
LEMMA InitCanMove ==
  ASSUME NEW stones \in Nat \ {0}, NEW player \in Players
  PROVE  CanPlayerMove(InitHouses(stones), player)
<1>1. FirstPit(player) \in MyPits(player)
  BY PitsAssumption DEF MyPits, Kalaha, FirstPit
<1>2. /\ FirstPit(player) \in Houses
      /\ \A p \in Players : FirstPit(player) # Kalaha(p)
  BY PitsAssumption
     DEF FirstPit, Kalaha, Houses, NumberOfHouses, Players, SOUTH, NORTH
<1>3. InitHouses(stones)[FirstPit(player)] = stones
  BY <1>2 DEF InitHouses
<1> QED BY <1>1, <1>3 DEF CanPlayerMove

(* By rules that sweep the board the move that ends the game leaves both   *)
(* players without a stone in their pits.                                  *)
LEMMA SweptAtTheEnd ==
  ASSUME EndGameSweepsBoard,
         NEW houses \in [Houses -> Nat], NEW mover \in Players,
         NEW pit \in LocalPits,
         EndsGame(houses, mover, pit),
         NEW player \in Players
  PROVE  ~ CanPlayerMove(AfterMove(houses, mover, pit), player)
<1> DEFINE sown == AfterSowing(houses, mover, pit)
           next == NextPlayer(houses, mover, pit)
           keeper == LastOwner(sown, mover)
           after == AfterMove(houses, mover, pit)
<1> SUFFICES ASSUME NEW h \in MyPits(player)
             PROVE  after[h] = 0
  BY DEF CanPlayerMove
<1>1. h \in Houses /\ keeper \in Players
  BY Layout DEF LastOwner
<1>2. IsEnd(sown, mover, next) /\ after = EndTransfer(sown, keeper)
  BY DEF AfterMove, EndsGame
<1>3. ~ CanPlayerMove(sown, Opponent(keeper))
  BY <1>2 DEF IsEnd, LastOwner, Opponent, Players, SOUTH, NORTH
<1> HIDE DEF sown, next, keeper, after
<1>4. CASE player = keeper
  BY <1>1, <1>2, <1>4 DEF EndTransfer
<1>5. CASE player # keeper
  <2>1. player = Opponent(keeper)
    BY <1>1, <1>5 DEF Opponent, Players, SOUTH, NORTH
  <2>2. sown[h] = 0
    BY <1>3, <2>1 DEF CanPlayerMove
  <2>3. h # Kalaha(keeper) /\ h \notin MyPits(keeper)
    BY <1>1, <2>1, PitsAssumption
       DEF Players, SOUTH, NORTH, Opponent, FirstPit, Kalaha, MyPits
  <2> QED BY <1>1, <1>2, <2>2, <2>3 DEF EndTransfer
<1> QED BY <1>4, <1>5

(* All rules but those that let the last stones be stolen and the game go  *)
(* on: DefaultRules and the BjornRules of the tests are among them.        *)
StealingEndsTheGame ==
  AllowStealingFromEmptyPit => EndGameWhenEitherPlayerRunsOutOfStones

(* By these rules a game that goes on has a move for the player whose turn *)
(* comes, whatever the last stone did.                                     *)
LEMMA NextCanMove ==
  ASSUME StealingEndsTheGame,
         NEW houses \in [Houses -> Nat], NEW player \in Players,
         NEW pit \in LocalPits,
         houses[Pit(player, pit)] # 0,
         ~ EndsGame(houses, player, pit)
  PROVE  CanPlayerMove(AfterMove(houses, player, pit),
                       NextPlayer(houses, player, pit))
<1> DEFINE sown == AfterSowing(houses, player, pit)
           next == NextPlayer(houses, player, pit)
<1>1. AfterMove(houses, player, pit) = sown
  BY DEF AfterMove
<1>2. next = player \/ next = Opponent(player)
  BY DEF NextPlayer
<1>3. ~ IsEnd(sown, player, next)
  BY DEF EndsGame
<1>4. CASE CanPlayerMove(sown, player)
  <2>1. CanPlayerMove(sown, Opponent(player))
    BY <1>3, <1>4 DEF IsEnd
  <2> QED BY <1>1, <1>2, <1>4, <2>1
<1>5. CASE ~ CanPlayerMove(sown, player)
  <2>1. next # player /\ ~ EndGameWhenEitherPlayerRunsOutOfStones
    BY <1>3, <1>5 DEF IsEnd
  <2>2. ~ AllowStealingFromEmptyPit
    BY <2>1 DEF StealingEndsTheGame
  <2>3. CanPlayerMove(sown, Opponent(player))
    BY <1>5, <2>1, <2>2, OpponentCanMove
  <2> QED BY <1>1, <1>2, <2>1, <2>3
<1> QED BY <1>4, <1>5
=============================================================================
