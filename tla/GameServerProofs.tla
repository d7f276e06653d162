--------------------------- MODULE GameServerProofs ---------------------------
(***************************************************************************)
(* The theorems about the games on the server, for every set of games,     *)
(* every board and any number of tables, answers and crashes.  In order:   *)
(*                                                                         *)
(*   types, and what each action does;                                     *)
(*   Mapping: the maps of the activator and the tables;                    *)
(*   Positions: what is stored and what is played;                         *)
(*   Answers: the answer to the request of a game;                         *)
(*   Results and Playable: the end of a game, and who can move before it;  *)
(*   the refinement of KalahaBoard by each stored game.                    *)
(***************************************************************************)
EXTENDS GameServer, KalahaRulesProofs

-----------------------------------------------------------------------------
(* Rows, tables and openings are told from the absence of one. *)

LEMMA Absent ==
  /\ NoRow \notin Rows
  /\ NoTable \notin Tables
  /\ \A o \in [game : Games, player : Players, row : Rows] : o # NotOpening
<1>1. NoRow \notin Rows
  BY DEF NoRow, Rows
<1>2. NoTable \notin Tables
  BY DEF NoTable, Tables
<1>3. \A o \in [game : Games, player : Players, row : Rows] : o # NotOpening
  BY GamesAssumption DEF NotOpening
<1> QED BY <1>1, <1>2, <1>3

LEMMA FirstPositionType ==
  ASSUME NEW row \in Rows
  PROVE  /\ FirstPosition(row) \in Rows
         /\ FirstPosition(row).state \in [Houses -> Nat]
         /\ FirstPosition(row).status = row.status
<1>1. InitHouses(InitStones) \in [Houses -> Nat]
  BY StonesAssumption, InitHousesStones
<1>2. CASE row.state = NoState
  <2>1. FirstPosition(row) = [row EXCEPT !.state = InitHouses(InitStones),
                                         !.ownersMove = TRUE]
    BY <1>2 DEF FirstPosition
  <2> QED BY <1>1, <2>1 DEF Rows
<1>3. CASE row.state # NoState
  BY <1>3 DEF FirstPosition, Rows
<1> QED BY <1>2, <1>3

(* The types of the values the actions write.                              *)
LEMMA NewRowsType == NewRows \subseteq Rows
<1>1. InitHouses(InitStones) \in [Houses -> Nat]
  BY StonesAssumption, InitHousesStones
<1> QED BY <1>1 DEF NewRows, Row, Rows

LEMMA TableType ==
  ASSUME NEW g \in Games, NEW row \in Rows,
         row.status \in {"PENDING", "ACTIVE", "CANCELLED"},
         row.state \in [Houses -> Nat]
  PROVE  NewTable(g, row) \in Tables
BY DEF NewTable, Tables, Rows, Players

LEMMA FinishedType ==
  ASSUME NEW row \in Rows, NEW houses \in [Houses -> Nat]
  PROVE  Finished(row, houses) \in Rows
<1> DEFINE winner == IF IsDraw(houses) THEN row.winner
                     ELSE WinningPlayer(houses)
           result == IF IsDraw(houses) THEN "DRAW" ELSE "WIN"
           counted == row.counted + 1
<1>1. winner \in Players \union {NoPlayer}
  BY DEF WinningPlayer, Players, Rows
<1>2. result \in {"none", "WIN", "DRAW"}
  OBVIOUS
<1>3. counted \in Nat
  BY DEF Rows
<1>4. Finished(row, houses)
        = [row EXCEPT !.status = "FINISHED", !.winner = winner,
                      !.result = result, !.counted = counted]
  BY DEF Finished
<1> HIDE DEF winner, result, counted
<1> QED BY <1>1, <1>2, <1>3, <1>4 DEF Rows

-----------------------------------------------------------------------------
(* Type correctness. *)

(* A table is for a stored game; createTable has read one that is not      *)
(* finished, and an id is left for its table.                              *)
GamesExist ==
  /\ \A t \in Live : stored[tables[t].game] # NoRow
  /\ opening # NotOpening =>
       /\ stored[opening.game] # NoRow
       /\ opening.row.status # "FINISHED"
       /\ made < MaxTables

LEMMA TypeInit == Init => TypeOK
<1> SUFFICES ASSUME Init PROVE TypeOK
  OBVIOUS
<1>1. MaxTables \in Nat /\ MaxAnswers \in Nat /\ MaxCrashes \in Nat
  BY BoundsAssumption
<1> QED BY <1>1 DEF Init, TypeOK, NotOpening, None

LEMMA TypeStep == TypeOK /\ GamesExist /\ [Next]_vars => TypeOK'
<1> SUFFICES ASSUME TypeOK, GamesExist, [Next]_vars
             PROVE  TypeOK'
  OBVIOUS
<1>0. MaxTables \in Nat /\ MaxAnswers \in Nat /\ MaxCrashes \in Nat
  BY BoundsAssumption
<1>1. ASSUME NEW g \in Games, NEW row \in NewRows, CreateGame(g, row)
      PROVE  TypeOK'
  <2>1. row \in Rows
    BY NewRowsType
  <2> QED BY <1>1, <2>1 DEF CreateGame, TypeOK, mapping, history
<1>2. ASSUME NEW g \in Games, NEW status \in {"ACCEPTED", "DENIED"},
             Answer(g, status)
      PROVE  TypeOK'
  <2>1. stored[g] \in Rows
    BY <1>2 DEF Answer, TypeOK
  <2>2. stored'[g] \in Rows
    BY <1>2, <2>1 DEF Answer, TypeOK, Rows
  <2>3. stored' \in [Games -> Rows \union {NoRow}]
    BY <1>2, <2>2 DEF Answer, TypeOK
  <2>4. answers' \in [Games -> 0 .. MaxAnswers]
    BY <1>0, <1>2 DEF Answer, TypeOK
  <2> QED BY <1>2, <2>3, <2>4 DEF Answer, TypeOK, mapping
<1>3. ASSUME NEW g \in Games, NEW p \in Players, ReuseTable(g, p)
      PROVE  TypeOK'
  BY <1>3 DEF ReuseTable, getTableForGame, TypeOK, mapping, history
<1>4. ASSUME NEW g \in Games, NEW p \in Players, ReadGame(g, p)
      PROVE  TypeOK'
  <2>1. stored[g] \in Rows
    BY <1>4 DEF ReadGame, TypeOK, NoRow
  <2> QED BY <1>4, <2>1 DEF ReadGame, TypeOK, mapping, history
<1>5. ASSUME CreateTable
      PROVE  TypeOK'
  <2> DEFINE g == opening.game
             row == FirstPosition(opening.row)
             t == made + 1
  <2>1. /\ g \in Games /\ opening.player \in Players /\ opening.row \in Rows
        /\ opening.row.status \in {"PENDING", "ACTIVE", "CANCELLED"}
        /\ t \in TableIds /\ stored[g] \in Rows
    <3>1. opening \in [game : Games, player : Players, row : Rows]
      BY <1>5 DEF CreateTable, TypeOK
    <3>2. stored[g] # NoRow /\ opening.row.status # "FINISHED"
            /\ made < MaxTables
      BY <1>5 DEF CreateTable, GamesExist
    <3>3. t \in TableIds
      BY <1>0, <3>2 DEF TypeOK, TableIds
    <3> QED BY <3>1, <3>2, <3>3 DEF TypeOK, Rows
  <2>2. row \in Rows /\ row.state \in [Houses -> Nat]
          /\ row.status = opening.row.status
    BY <2>1, FirstPositionType
  <2> HIDE DEF g, row, t
  <2>3. NewTable(g, row) \in Tables
    BY <2>1, <2>2, TableType
  <2>4. [row EXCEPT !.request = stored[g].request] \in Rows
    BY <2>1, <2>2 DEF Rows
  <2>5. /\ stored' \in {stored, [stored EXCEPT ![g] =
                                  [row EXCEPT !.request = stored[g].request]]}
        /\ tables' = [tables EXCEPT ![t] = NewTable(g, row)]
        /\ made' = t
        /\ gameToTable' = [gameToTable EXCEPT ![g] = t]
        /\ tableToGame' = [tableToGame EXCEPT ![t] = g]
        /\ told' = [told EXCEPT ![g][opening.player] = t]
    BY <1>5 DEF CreateTable, g, row, t
  <2>6. stored' \in [Games -> Rows \union {NoRow}]
    BY <2>1, <2>4, <2>5 DEF TypeOK
  <2>7. tables' \in [TableIds -> Tables \union {NoTable}]
    BY <2>1, <2>3, <2>5 DEF TypeOK
  <2>8. made' \in 0 .. MaxTables
    BY <1>0, <2>1, <2>5 DEF TableIds
  <2>9. /\ gameToTable' \in [Games -> TableIds \union {None}]
        /\ tableToGame' \in [TableIds -> Games \union {NoGame}]
        /\ told' \in [Games -> [Players -> TableIds \union {None}]]
    BY <2>1, <2>5 DEF TypeOK
  <2> QED BY <1>5, <2>6, <2>7, <2>8, <2>9 DEF CreateTable, TypeOK, history
<1>6. ASSUME NEW g \in Games, NEW p \in Players, Join(g, p)
      PROVE  TypeOK'
  <2> DEFINE t == told[g][p]
  <2>1. tables' \in [TableIds -> Tables \union {NoTable}]
    <3>1. CASE isOpen(t)
      <4>1. t \in TableIds /\ tables[t] \in Tables
        BY <3>1 DEF isOpen, Live, TypeOK
      <4>2. [tables[t] EXCEPT !.seated = @ \union {p}] \in Tables
        BY <4>1 DEF Tables
      <4> QED BY <1>6, <3>1, <4>1, <4>2 DEF Join, TypeOK
    <3>2. CASE ~ isOpen(t)
      BY <1>6, <3>2 DEF Join, TypeOK
    <3> QED BY <3>1, <3>2
  <2>2. told' \in [Games -> [Players -> TableIds \union {None}]]
    BY <1>6 DEF Join, TypeOK
  <2> QED BY <1>6, <2>1, <2>2 DEF Join, TypeOK, mapping, history
<1>7. ASSUME NEW t \in TableIds, NEW p \in Players, Leave(t, p)
      PROVE  TypeOK'
  <2>1. tables[t] \in Tables
    BY <1>7 DEF Leave, Ready, Live, TypeOK
  <2>2. [tables[t] EXCEPT !.seated = @ \ {p}] \in Tables
    BY <2>1 DEF Tables
  <2> QED BY <1>7, <2>2 DEF Leave, TypeOK, mapping, history
<1>8. ASSUME NEW t \in TableIds, NEW p \in Players, NEW pit \in LocalPits,
             Sow(t, p, pit)
      PROVE  TypeOK'
  <2> DEFINE table == tables[t]
             after == AfterAction(table, p, pit)
  <2>1. table \in Tables /\ table.game \in Games
    BY <1>8 DEF Sow, Ready, Live, TypeOK, Tables
  <2>2. table.houses \in [Houses -> Nat] /\ table.houses[Pit(p, pit)] # 0
    BY <1>8, <2>1 DEF Sow, Tables
  <2>3. /\ AfterMove(table.houses, p, pit) \in [Houses -> Nat]
        /\ NextPlayer(table.houses, p, pit) \in Players
        /\ EndsGame(table.houses, p, pit) \in BOOLEAN
    BY <2>2, AfterMoveType
  <2>4. after \in Tables /\ after.houses \in [Houses -> Nat]
    BY <2>1, <2>3 DEF AfterAction, Tables
  <2>5. /\ tables' = [tables EXCEPT ![t] = after]
        /\ stored' = [stored EXCEPT
                        ![table.game].state = after.houses,
                        ![table.game].ownersMove = (after.playerToAct = SOUTH)]
    BY <1>8 DEF Sow
  <2>6. stored[table.game] \in Rows
    BY <1>8, <2>1 DEF Sow, Ready, GamesExist, TypeOK
  <2> HIDE DEF table, after
  <2>7. [stored[table.game] EXCEPT
           !.state = after.houses,
           !.ownersMove = (after.playerToAct = SOUTH)] \in Rows
    BY <2>4, <2>6 DEF Rows
  <2>8. stored' \in [Games -> Rows \union {NoRow}]
    BY <2>1, <2>5, <2>7 DEF TypeOK
  <2> QED BY <1>8, <2>4, <2>5, <2>8 DEF Sow, TypeOK, mapping, history
<1>9. ASSUME NEW t \in TableIds, Finish(t)
      PROVE  TypeOK'
  <2>1. /\ tables[t] \in Tables /\ tables[t].game \in Games
        /\ tables[t].houses \in [Houses -> Nat]
    BY <1>9 DEF Finish, Live, TypeOK, Tables
  <2>2. [tables[t] EXCEPT !.finishing = FALSE] \in Tables
    BY <2>1 DEF Tables
  <2>3. stored[tables[t].game] \in Rows
    BY <1>9, <2>1 DEF Finish, GamesExist, TypeOK
  <2>4. Finished(stored[tables[t].game], tables[t].houses) \in Rows
    BY <2>1, <2>3, FinishedType
  <2>5. stored' \in [Games -> Rows \union {NoRow}]
    BY <1>9, <2>4 DEF Finish, TypeOK
  <2> QED BY <1>9, <2>2, <2>5 DEF Finish, TypeOK, mapping, history
<1>10. ASSUME NEW t \in TableIds, Close(t)
       PROVE  TypeOK'
  <2>1. tables[t] \in Tables
    BY <1>10 DEF Close, Ready, Live, TypeOK
  <2>2. [tables[t] EXCEPT !.state = "CLOSED"] \in Tables
    BY <2>1 DEF Tables
  <2> QED BY <1>10, <2>2 DEF Close, TypeOK, mapping, history
<1>11. ASSUME NEW t \in TableIds, SendClose(t)
       PROVE  TypeOK'
  BY <1>11 DEF SendClose, TypeOK, mapping, history
<1>12. ASSUME NEW t \in TableIds, Unmap(t)
       PROVE  TypeOK'
  BY <1>12 DEF Unmap, removeForTable, TypeOK, history
<1>13. ASSUME Destroy
       PROVE  TypeOK'
  BY <1>13 DEF Destroy, TypeOK, mapping, history
<1>14. ASSUME Crash
       PROVE  TypeOK'
  <2>1. torn' \subseteq Games
    BY <1>14 DEF Crash, TypeOK, Live, Tables
  <2> QED BY <1>0, <1>14, <2>1 DEF Crash, TypeOK, None, NotOpening
<1>15. CASE UNCHANGED vars
  BY <1>15 DEF TypeOK, vars
<1> QED BY <1>1, <1>2, <1>3, <1>4, <1>5, <1>6, <1>7, <1>8, <1>9, <1>10, <1>11,
           <1>12, <1>13, <1>14, <1>15 DEF Next

(* A stored game is never removed.                                         *)
LEMMA RowsStay ==
  ASSUME TypeOK, TypeOK', GamesExist, [Next]_vars,
         NEW g \in Games, stored[g] # NoRow
  PROVE  stored'[g] # NoRow
<1>1. stored[g] \in Rows
  BY DEF TypeOK
<1>2. ASSUME NEW h \in Games, NEW row \in NewRows, CreateGame(h, row)
      PROVE  stored'[g] # NoRow
  BY <1>2 DEF CreateGame, TypeOK
<1>3. ASSUME NEW h \in Games, NEW status \in {"ACCEPTED", "DENIED"},
             Answer(h, status)
      PROVE  stored'[g] # NoRow
  <2>1. [stored[g] EXCEPT !.request = status,
                          !.status = IF status = "ACCEPTED" THEN "ACTIVE"
                                     ELSE "CANCELLED"] \in Rows
    BY <1>1 DEF Rows
  <2> QED BY <1>3, <2>1, Absent DEF Answer, TypeOK
<1>4. ASSUME CreateTable
      PROVE  stored'[g] # NoRow
  <2>1. opening.row \in Rows
    BY <1>4 DEF CreateTable, TypeOK
  <2>2. FirstPosition(opening.row) \in Rows
    BY <2>1, FirstPositionType
  <2>3. [FirstPosition(opening.row) EXCEPT !.request = stored[g].request]
          \in Rows
    BY <1>1, <2>2 DEF Rows
  <2>4. stored'[g] \in {stored[g], [FirstPosition(opening.row) EXCEPT
                                     !.request = stored[g].request]}
    BY <1>4 DEF CreateTable, TypeOK
  <2> QED BY <2>3, <2>4, Absent
<1>5. ASSUME NEW t \in TableIds, NEW p \in Players, NEW pit \in LocalPits,
             Sow(t, p, pit)
      PROVE  stored'[g] # NoRow
  <2>1. stored'[g].status = stored[g].status
    BY <1>1, <1>5 DEF Sow, TypeOK, Rows
  <2> QED BY <1>1, <2>1 DEF NoRow, Rows
<1>6. ASSUME NEW t \in TableIds, Finish(t)
      PROVE  stored'[g] # NoRow
  <2>1. stored'[g].status \in {stored[g].status, "FINISHED"}
    BY <1>1, <1>6 DEF Finish, Finished, TypeOK, Rows
  <2> QED BY <1>1, <2>1 DEF NoRow, Rows
<1>7. CASE UNCHANGED stored
  BY <1>7
<1> QED BY <1>2, <1>3, <1>4, <1>5, <1>6, <1>7
        DEF Next, vars, ReuseTable, ReadGame, Join, Leave, Close, SendClose,
            Unmap, Destroy, Crash

LEMMA GamesExistStep ==
  TypeOK /\ TypeOK' /\ GamesExist /\ [Next]_vars => GamesExist'
<1> SUFFICES ASSUME TypeOK, TypeOK', GamesExist, [Next]_vars
             PROVE  GamesExist'
  OBVIOUS
<1>0. \A g \in Games : stored[g] # NoRow => stored'[g] # NoRow
  BY RowsStay
<1>1. ASSUME NEW g \in Games, NEW p \in Players, ReadGame(g, p)
      PROVE  GamesExist'
  <2>1. stored[g] # NoRow
    BY <1>1 DEF ReadGame, NoRow
  <2> QED BY <1>1, <2>1 DEF ReadGame, GamesExist, Live
<1>2. ASSUME CreateTable
      PROVE  GamesExist'
  <2>1. opening.game \in Games /\ stored[opening.game] # NoRow
    BY <1>2 DEF CreateTable, TypeOK, GamesExist
  <2>2. tables' = [tables EXCEPT ![made + 1] =
                     NewTable(opening.game, FirstPosition(opening.row))]
    BY <1>2 DEF CreateTable
  <2>3. ASSUME NEW t \in Live'
        PROVE  stored[tables'[t].game] # NoRow /\ tables'[t].game \in Games
    <3>1. CASE t = made + 1
      BY <2>1, <2>2, <3>1 DEF NewTable, Live, TypeOK
    <3>2. CASE t # made + 1
      BY <2>2, <3>2 DEF Live, TypeOK, GamesExist, Tables
    <3> QED BY <3>1, <3>2
  <2>4. opening' = NotOpening
    BY <1>2 DEF CreateTable
  <2> QED BY <1>0, <2>3, <2>4 DEF GamesExist
<1>3. ASSUME UNCHANGED <<opening, made>> \/ Crash,
             \A t \in TableIds : tables'[t] # NoTable =>
               tables[t] # NoTable /\ tables'[t].game = tables[t].game
      PROVE  GamesExist'
  <2>1. \A t \in Live : tables[t].game \in Games
    BY DEF Live, TypeOK, Tables
  <2>2. opening' # NotOpening =>
          UNCHANGED <<opening, made>> /\ opening.game \in Games
    BY <1>3 DEF Crash, TypeOK
  <2> QED BY <1>0, <1>3, <2>1, <2>2 DEF GamesExist, Live
<1>4. ASSUME UNCHANGED <<opening, made, tables>>
      PROVE  GamesExist'
  BY <1>3, <1>4
<1>5. ASSUME NEW g \in Games, NEW p \in Players, Join(g, p)
      PROVE  GamesExist'
  BY <1>3, <1>5 DEF Join, isOpen, Live, TypeOK, Tables
<1>6. ASSUME NEW t \in TableIds, NEW p \in Players, Leave(t, p)
      PROVE  GamesExist'
  BY <1>3, <1>6 DEF Leave, Ready, Live, TypeOK, Tables
<1>7. ASSUME NEW t \in TableIds, NEW p \in Players, NEW pit \in LocalPits,
             Sow(t, p, pit)
      PROVE  GamesExist'
  BY <1>3, <1>7 DEF Sow, AfterAction, Ready, Live, TypeOK, Tables
<1>8. ASSUME NEW t \in TableIds, Finish(t)
      PROVE  GamesExist'
  BY <1>3, <1>8 DEF Finish, Live, TypeOK, Tables
<1>9. ASSUME NEW t \in TableIds, Close(t)
      PROVE  GamesExist'
  BY <1>3, <1>9 DEF Close, Ready, Live, TypeOK, Tables
<1>10. ASSUME Destroy
       PROVE  GamesExist'
  BY <1>3, <1>10 DEF Destroy, TypeOK
<1>11. ASSUME Crash
       PROVE  GamesExist'
  BY <1>3, <1>11 DEF Crash
<1> QED BY <1>1, <1>2, <1>4, <1>5, <1>6, <1>7, <1>8, <1>9, <1>10, <1>11
        DEF Next, vars, CreateGame, Answer, ReuseTable, SendClose, Unmap

LEMMA TypesHold == Spec => [](TypeOK /\ GamesExist)
<1>1. Init => TypeOK /\ GamesExist
  BY TypeInit DEF Init, GamesExist, Live
<1> QED BY <1>1, TypeStep, GamesExistStep, PTL DEF Spec

(* The state of the server has its types: in particular no table is made   *)
(* without an id, no result is stored for a game that does not exist, and  *)
(* no board is anything but houses with stones.                            *)
THEOREM TypeCorrect == Spec => []TypeOK
BY TypesHold, PTL

-----------------------------------------------------------------------------
(* The mapping of the activator.  A game and its table know each other     *)
(* from createTable to removeForTable: open tables are mapped, ids are     *)
(* used once, a game whose table is being made has none, and the table     *)
(* that is being destroyed is closed and not mapped any more.              *)

Mapping ==
  /\ MapsAgree
  /\ \A t \in TableIds : tableToGame[t] # NoGame =>
       t \in Live /\ tables[t].game = tableToGame[t]
  /\ \A t \in Live : tables[t].state = "OPEN" => tableToGame[t] = tables[t].game
  /\ \A t \in Live : t <= made
  /\ \A t \in Live : tables[t].seated # {} \/ tables[t].finishing =>
       tables[t].state = "OPEN"
  /\ opening # NotOpening => gameToTable[opening.game] = None
  /\ destroying # None =>
       /\ destroying \in Live
       /\ tables[destroying].state = "CLOSED"
       /\ tableToGame[destroying] = NoGame

LEMMA MappingInit == Init => Mapping
BY GamesAssumption DEF Init, Mapping, MapsAgree, Live, None, TableIds

LEMMA MappingStep ==
  TypeOK /\ TypeOK' /\ GamesExist /\ Mapping /\ [Next]_vars => Mapping'
<1> SUFFICES ASSUME TypeOK, TypeOK', GamesExist, Mapping, [Next]_vars
             PROVE  Mapping'
  OBVIOUS
<1>0. /\ MaxTables \in Nat
      /\ \A t \in Live : t \in TableIds /\ tables[t] \in Tables
  BY BoundsAssumption DEF Live, TypeOK
<1>1. ASSUME NEW g \in Games, NEW p \in Players, ReadGame(g, p)
      PROVE  Mapping'
  BY <1>1 DEF ReadGame, getTableForGame, Mapping, MapsAgree, mapping, Live
<1>2. ASSUME CreateTable
      PROVE  Mapping'
  <2> DEFINE g == opening.game
             t == made + 1
             table == NewTable(g, FirstPosition(opening.row))
  <2>1. /\ g \in Games /\ gameToTable[g] = None
        /\ t \in TableIds /\ t \notin Live /\ made \in Nat
    BY <1>0, <1>2 DEF CreateTable, Mapping, GamesExist, TypeOK, TableIds
  <2>2. /\ table.game = g /\ table.state = "OPEN"
        /\ table.seated = {} /\ ~ table.finishing
    BY DEF NewTable
  <2> HIDE DEF table
  <2>3. /\ tables' = [tables EXCEPT ![t] = table]
        /\ made' = t /\ t = made + 1
        /\ gameToTable' = [gameToTable EXCEPT ![g] = t]
        /\ tableToGame' = [tableToGame EXCEPT ![t] = g]
        /\ opening' = NotOpening
        /\ destroying' = destroying
    BY <1>2 DEF CreateTable, table
  <2> HIDE DEF g, t
  <2>4. tableToGame[t] = NoGame
    BY <2>1 DEF Mapping
  <2>5. g # NoGame /\ t # None
    BY <2>1, GamesAssumption DEF TableIds, None
  <2>6. Live' = Live \union {t}
    <3>1. table # NoTable
      BY <2>2 DEF NoTable
    <3>2. \A u \in TableIds :
            tables'[u] = IF u = t THEN table ELSE tables[u]
      BY <2>1, <2>3 DEF TypeOK
    <3> QED BY <2>1, <3>1, <3>2 DEF Live
  <2>7. MapsAgree'
    <3> SUFFICES ASSUME NEW h \in Games, NEW u \in TableIds
                 PROVE  gameToTable'[h] = u <=> tableToGame'[u] = h
      BY DEF MapsAgree
    <3>1. gameToTable[h] = u <=> tableToGame[u] = h
      BY DEF Mapping, MapsAgree
    <3>2. u # None /\ h # NoGame
      BY GamesAssumption DEF TableIds, None
    <3>3. /\ gameToTable'[h] = IF h = g THEN t ELSE gameToTable[h]
          /\ tableToGame'[u] = IF u = t THEN g ELSE tableToGame[u]
      BY <2>1, <2>3 DEF TypeOK
    <3> QED BY <2>1, <2>4, <3>1, <3>2, <3>3
  <2>8. \A u \in TableIds : tableToGame'[u] # NoGame =>
          u \in Live' /\ tables'[u].game = tableToGame'[u]
    BY <2>1, <2>2, <2>3, <2>6 DEF Mapping, TypeOK
  <2>9. \A u \in Live' :
          tables'[u].state = "OPEN" => tableToGame'[u] = tables'[u].game
    BY <1>0, <2>1, <2>2, <2>3, <2>6 DEF Mapping, TypeOK
  <2>10. \A u \in Live' : u <= made'
    BY <1>0, <2>1, <2>3, <2>6 DEF Mapping, TypeOK, TableIds
  <2>11. \A u \in Live' : tables'[u].seated # {} \/ tables'[u].finishing =>
           tables'[u].state = "OPEN"
    BY <1>0, <2>1, <2>2, <2>3, <2>6 DEF Mapping, TypeOK
  <2>12. destroying' # None =>
           /\ destroying' \in Live'
           /\ tables'[destroying'].state = "CLOSED"
           /\ tableToGame'[destroying'] = NoGame
    BY <1>0, <2>1, <2>3, <2>6 DEF Mapping, TypeOK
  <2> QED BY <2>3, <2>7, <2>8, <2>9, <2>10, <2>11, <2>12 DEF Mapping
<1>3. ASSUME NEW t \in TableIds, Unmap(t)
      PROVE  Mapping'
  <2>1. /\ t \in Live /\ tables[t].state = "CLOSED" /\ opening = NotOpening
        /\ destroying' = t /\ opening' = opening
        /\ tables' = tables /\ made' = made /\ Live' = Live
        /\ tableToGame' = [tableToGame EXCEPT ![t] = NoGame]
        /\ gameToTable' = IF tableToGame[t] # NoGame
                          THEN [gameToTable EXCEPT ![tableToGame[t]] = None]
                          ELSE gameToTable
    BY <1>3 DEF Unmap, removeForTable, Live
  <2>2. MapsAgree'
    <3> SUFFICES ASSUME NEW g \in Games, NEW u \in TableIds
                 PROVE  gameToTable'[g] = u <=> tableToGame'[u] = g
      BY DEF MapsAgree
    <3>1. gameToTable[g] = u <=> tableToGame[u] = g
      BY DEF Mapping, MapsAgree
    <3>2. g # NoGame /\ u # None
      BY GamesAssumption DEF TableIds, None
    <3> QED BY <2>1, <3>1, <3>2 DEF TypeOK, Mapping, MapsAgree
  <2> QED BY <2>1, <2>2, GamesAssumption DEF Mapping, TypeOK
<1>4. ASSUME Destroy
      PROVE  Mapping'
  <2>1. /\ destroying \in Live /\ tables[destroying].state = "CLOSED"
        /\ tableToGame[destroying] = NoGame /\ destroying' = None
        /\ tables' = [tables EXCEPT ![destroying] = NoTable]
        /\ Live' = Live \ {destroying}
        /\ UNCHANGED <<made, opening, gameToTable, tableToGame>>
    BY <1>4 DEF Destroy, Mapping, mapping, TypeOK, Live
  <2>2. MapsAgree'
    BY <2>1 DEF Mapping, MapsAgree
  <2> QED BY <1>0, <2>1, <2>2 DEF Mapping, TypeOK
<1>5. ASSUME Crash
      PROVE  Mapping'
  BY <1>5, GamesAssumption
     DEF Crash, Mapping, MapsAgree, Live, None, TableIds
<1>6. ASSUME UNCHANGED <<made, opening, destroying, mapping>>,
             NEW t \in Live, NEW table \in Tables,
             tables' = [tables EXCEPT ![t] = table],
             table.game = tables[t].game,
             table.state = "OPEN" => tables[t].state = "OPEN",
             table.seated # {} \/ table.finishing => table.state = "OPEN"
      PROVE  Mapping'
  <2>1. Live' = Live
    BY <1>6, <1>0, Absent DEF Live, TypeOK
  <2>2. MapsAgree'
    BY <1>6 DEF Mapping, MapsAgree, mapping
  <2>3. \A u \in TableIds :
          IF u = t THEN tables'[u] = table ELSE tables'[u] = tables[u]
    BY <1>6 DEF TypeOK
  <2>4. table.state \in {"OPEN", "CLOSED"}
    BY DEF Tables
  <2> QED BY <1>0, <1>6, <2>1, <2>2, <2>3, <2>4 DEF Mapping, mapping
<1>7. ASSUME UNCHANGED <<made, opening, destroying, mapping, tables>>
      PROVE  Mapping'
  BY <1>7 DEF Mapping, MapsAgree, mapping, Live
<1>8. ASSUME NEW g \in Games, NEW p \in Players, Join(g, p)
      PROVE  Mapping'
  <2> DEFINE t == told[g][p]
             table == [tables[t] EXCEPT !.seated = @ \union {p}]
  <2>1. CASE isOpen(t)
    <3>1. t \in Live /\ tables[t].state = "OPEN" /\ tables[t] \in Tables
      BY <1>0, <2>1 DEF isOpen
    <3>2. table \in Tables /\ table.game = tables[t].game
            /\ table.state = "OPEN"
      BY <3>1 DEF Tables
    <3>3. tables' = [tables EXCEPT ![t] = table]
      BY <1>8, <2>1 DEF Join
    <3> HIDE DEF t, table
    <3> QED BY <1>6, <1>8, <3>1, <3>2, <3>3 DEF Join
  <2>2. CASE ~ isOpen(t)
    BY <1>7, <1>8, <2>2 DEF Join
  <2> QED BY <2>1, <2>2
<1>9. ASSUME NEW t \in TableIds, NEW p \in Players, Leave(t, p)
      PROVE  Mapping'
  <2> DEFINE table == [tables[t] EXCEPT !.seated = @ \ {p}]
  <2>1. t \in Live /\ tables[t] \in Tables /\ tables[t].state = "OPEN"
    BY <1>0, <1>9 DEF Leave, Ready, Mapping
  <2>2. table \in Tables /\ table.game = tables[t].game
          /\ table.state = "OPEN"
    BY <2>1 DEF Tables
  <2>3. tables' = [tables EXCEPT ![t] = table]
    BY <1>9 DEF Leave
  <2> HIDE DEF table
  <2> QED BY <1>6, <1>9, <2>1, <2>2, <2>3 DEF Leave
<1>10. ASSUME NEW t \in TableIds, NEW p \in Players, NEW pit \in LocalPits,
             Sow(t, p, pit)
       PROVE  Mapping'
  <2> DEFINE table == AfterAction(tables[t], p, pit)
  <2>1. t \in Live /\ tables[t] \in Tables /\ tables[t].state = "OPEN"
    BY <1>0, <1>10 DEF Sow, Ready, Mapping
  <2>2. tables[t].houses \in [Houses -> Nat]
          /\ tables[t].houses[Pit(p, pit)] # 0
    BY <1>10, <2>1 DEF Sow, Tables
  <2>3. /\ AfterMove(tables[t].houses, p, pit) \in [Houses -> Nat]
        /\ NextPlayer(tables[t].houses, p, pit) \in Players
        /\ EndsGame(tables[t].houses, p, pit) \in BOOLEAN
    BY <2>2, AfterMoveType
  <2>4. table \in Tables /\ table.game = tables[t].game
          /\ table.state = "OPEN"
    BY <2>1, <2>3 DEF AfterAction, Tables
  <2>5. tables' = [tables EXCEPT ![t] = table]
    BY <1>10 DEF Sow
  <2> HIDE DEF table
  <2> QED BY <1>6, <1>10, <2>1, <2>4, <2>5 DEF Sow
<1>11. ASSUME NEW t \in TableIds, Finish(t)
       PROVE  Mapping'
  <2> DEFINE table == [tables[t] EXCEPT !.finishing = FALSE]
  <2>1. t \in Live /\ tables[t] \in Tables /\ tables[t].state = "OPEN"
    BY <1>0, <1>11 DEF Finish, Mapping
  <2>2. table \in Tables /\ table.game = tables[t].game
          /\ table.state = "OPEN"
    BY <2>1 DEF Tables
  <2>3. tables' = [tables EXCEPT ![t] = table]
    BY <1>11 DEF Finish
  <2> HIDE DEF table
  <2> QED BY <1>6, <1>11, <2>1, <2>2, <2>3 DEF Finish
<1>12. ASSUME NEW t \in TableIds, Close(t)
       PROVE  Mapping'
  <2> DEFINE table == [tables[t] EXCEPT !.state = "CLOSED"]
  <2>1. t \in Live /\ tables[t] \in Tables /\ ~ tables[t].finishing
    BY <1>0, <1>12 DEF Close, Ready
  <2>2. CASE haveSeated(t)
    BY <1>7, <1>12, <2>2 DEF Close
  <2>3. CASE ~ haveSeated(t)
    <3>1. table \in Tables /\ table.game = tables[t].game
            /\ table.state = "CLOSED" /\ table.seated = {}
            /\ ~ table.finishing
      BY <2>1, <2>3 DEF Tables, haveSeated
    <3>2. tables' = [tables EXCEPT ![t] = table]
      BY <1>12, <2>3 DEF Close
    <3> HIDE DEF table
    <3> QED BY <1>6, <1>12, <2>1, <3>1, <3>2 DEF Close
  <2> QED BY <2>2, <2>3
<1> QED BY <1>1, <1>2, <1>3, <1>4, <1>5, <1>7, <1>8, <1>9, <1>10, <1>11,
           <1>12
        DEF Next, vars, mapping, CreateGame, Answer, ReuseTable, SendClose

LEMMA MappingHolds == Spec => []Mapping
BY MappingInit, MappingStep, TypesHold, PTL DEF Spec

(* The two maps of ActivatorMapping are each other's inverse, whatever     *)
(* tables are made, destroyed and lost.                                    *)
THEOREM MapsAlwaysAgree == Spec => []MapsAgree
<1>1. Mapping => MapsAgree
  BY DEF Mapping
<1> QED BY <1>1, MappingHolds, PTL

(* The players of a game meet at the one open table the activator knows.   *)
THEOREM PlayersAlwaysMeet == Spec => []PlayersMeet
<1>1. TypeOK /\ Mapping => PlayersMeet
  BY DEF Mapping, MapsAgree, PlayersMeet, TypeOK, Live, Tables
<1> QED BY <1>1, TypesHold, MappingHolds, PTL

(* No game is played at two open tables.                                   *)
THEOREM NoGameIsForked == Spec => []OneOpenTable
<1>1. TypeOK /\ Mapping => OneOpenTable
  <2> SUFFICES ASSUME TypeOK, Mapping,
                      NEW t \in Live, NEW u \in Live,
                      tables[t].state = "OPEN", tables[u].state = "OPEN",
                      tables[t].game = tables[u].game
               PROVE  t = u
    BY DEF OneOpenTable
  <2>1. t \in TableIds /\ u \in TableIds /\ tables[t].game \in Games
    BY DEF Live, TypeOK, Tables
  <2>2. /\ gameToTable[tables[t].game] = t
        /\ gameToTable[tables[t].game] = u
    BY <2>1 DEF Mapping, MapsAgree
  <2> QED BY <2>2
<1> QED BY <1>1, TypesHold, MappingHolds, PTL

(* A table with a player at it is neither closed nor destroyed.            *)
THEOREM SeatedTablesStay == Spec => SeatedTableStays
<1> DEFINE Stays == crashes' = crashes =>
             \A t \in Live : tables[t].seated # {} =>
               tables'[t] # NoTable /\ tables'[t].state = "OPEN"
<1>1. TypeOK /\ TypeOK' /\ Mapping /\ [Next]_vars => Stays
  <2> SUFFICES ASSUME TypeOK, TypeOK', Mapping, [Next]_vars,
                      crashes' = crashes,
                      NEW t \in Live, tables[t].seated # {}
               PROVE  tables'[t] # NoTable /\ tables'[t].state = "OPEN"
    OBVIOUS
  <2>1. /\ t \in TableIds /\ tables[t] \in Tables /\ tables[t] # NoTable
        /\ tables[t].state = "OPEN"
    BY DEF Live, TypeOK, Mapping
  <2> SUFFICES tables'[t].state = "OPEN"
    BY DEF NoTable
  <2>2. CASE CreateTable
    <3>1. t # made + 1
      BY <2>1 DEF Mapping, TypeOK
    <3> QED BY <2>1, <2>2, <3>1 DEF CreateTable, TypeOK
  <2>3. ASSUME NEW g \in Games, NEW p \in Players, Join(g, p)
        PROVE  tables'[t].state = "OPEN"
    BY <2>1, <2>3 DEF Join, TypeOK, Tables
  <2>4. ASSUME NEW u \in TableIds, NEW p \in Players, Leave(u, p)
        PROVE  tables'[t].state = "OPEN"
    BY <2>1, <2>4 DEF Leave, TypeOK, Tables
  <2>5. ASSUME NEW u \in TableIds, NEW p \in Players, NEW pit \in LocalPits,
               Sow(u, p, pit)
        PROVE  tables'[t].state = "OPEN"
    BY <2>1, <2>5 DEF Sow, AfterAction, TypeOK, Tables
  <2>6. ASSUME NEW u \in TableIds, Finish(u)
        PROVE  tables'[t].state = "OPEN"
    BY <2>1, <2>6 DEF Finish, TypeOK, Tables
  <2>7. ASSUME NEW u \in TableIds, Close(u)
        PROVE  tables'[t].state = "OPEN"
    BY <2>1, <2>7 DEF Close, haveSeated, TypeOK, Tables
  <2>8. CASE Destroy
    BY <2>1, <2>8 DEF Destroy, Mapping, TypeOK
  <2>9. CASE Crash
    BY <2>9 DEF Crash, TypeOK
  <2>10. CASE UNCHANGED tables
    BY <2>1, <2>10
  <2> QED BY <2>2, <2>3, <2>4, <2>5, <2>6, <2>7, <2>8, <2>9, <2>10
          DEF Next, vars, CreateGame, Answer, ReuseTable, ReadGame, SendClose,
              Unmap
<1> QED BY <1>1, TypesHold, MappingHolds, PTL DEF Spec, SeatedTableStays

-----------------------------------------------------------------------------
(* What the other invariants are about is changed by few actions: games    *)
(* made and answered, read and opened, moves and finished games.  All      *)
(* other steps are quiet: boards stay as they are, tables are only closed  *)
(* or lost, and a table is only lost between updateGame and finishGame in  *)
(* a crash, which "torn" remembers.                                        *)

SameBoard(t) ==
  /\ tables'[t].game = tables[t].game
  /\ tables'[t].houses = tables[t].houses
  /\ tables'[t].playerToAct = tables[t].playerToAct
  /\ tables'[t].gameEnded = tables[t].gameEnded
  /\ tables'[t].madeFor = tables[t].madeFor
  /\ tables'[t].finishing = tables[t].finishing
  /\ tables'[t].state = "OPEN" => tables[t].state = "OPEN"

Quiet ==
  /\ UNCHANGED <<stored, answers, raced>>
  /\ opening' \in {opening, NotOpening}
  /\ \A t \in Live' : t \in Live /\ SameBoard(t)
  /\ torn \subseteq torn'
  /\ \A t \in Live : tables[t].finishing =>
       tables[t].game \in torn' \/ (t \in Live' /\ tables'[t].finishing)

LEMMA QuietSteps ==
  ASSUME TypeOK, TypeOK', Mapping, [Next]_vars
  PROVE  \/ \E g \in Games, row \in NewRows : CreateGame(g, row)
         \/ \E g \in Games, status \in {"ACCEPTED", "DENIED"} :
              Answer(g, status)
         \/ \E g \in Games, p \in Players : ReadGame(g, p)
         \/ CreateTable
         \/ \E t \in TableIds, p \in Players, pit \in LocalPits :
              Sow(t, p, pit)
         \/ \E t \in TableIds : Finish(t)
         \/ Quiet
<1>0. \A t \in Live : t \in TableIds /\ tables[t] \in Tables
  BY DEF Live, TypeOK
<1>1. ASSUME UNCHANGED <<stored, answers, raced, opening, torn, tables>>
      PROVE  Quiet
  BY <1>1 DEF Quiet, Live, SameBoard
<1>2. ASSUME UNCHANGED <<stored, answers, raced, opening, torn>>,
             NEW t \in Live, NEW table \in Tables,
             tables' = [tables EXCEPT ![t] = table],
             table.game = tables[t].game, table.houses = tables[t].houses,
             table.playerToAct = tables[t].playerToAct,
             table.gameEnded = tables[t].gameEnded,
             table.madeFor = tables[t].madeFor,
             table.finishing = tables[t].finishing,
             table.state = "OPEN" => tables[t].state = "OPEN"
      PROVE  Quiet
  <2>1. Live' = Live
    BY <1>0, <1>2, Absent DEF Live, TypeOK
  <2>2. \A u \in Live : tables'[u] = IF u = t THEN table ELSE tables[u]
    BY <1>0, <1>2 DEF TypeOK
  <2>3. \A u \in Live : SameBoard(u)
    BY <1>2, <2>2 DEF SameBoard
  <2> QED BY <1>2, <2>1, <2>3 DEF Quiet, SameBoard
<1>3. ASSUME NEW g \in Games, NEW p \in Players, Join(g, p)
      PROVE  Quiet
  <2> DEFINE t == told[g][p]
             table == [tables[t] EXCEPT !.seated = @ \union {p}]
  <2>1. CASE isOpen(t)
    <3>1. t \in Live /\ tables[t] \in Tables
      BY <1>0, <2>1 DEF isOpen
    <3>2. /\ table \in Tables
          /\ table.game = tables[t].game /\ table.houses = tables[t].houses
          /\ table.playerToAct = tables[t].playerToAct
          /\ table.gameEnded = tables[t].gameEnded
          /\ table.madeFor = tables[t].madeFor
          /\ table.finishing = tables[t].finishing
          /\ table.state = tables[t].state
      BY <3>1 DEF Tables
    <3>3. tables' = [tables EXCEPT ![t] = table]
      BY <1>3, <2>1 DEF Join
    <3> HIDE DEF t, table
    <3> QED BY <1>2, <1>3, <3>1, <3>2, <3>3 DEF Join, history
  <2>2. CASE ~ isOpen(t)
    BY <1>1, <1>3, <2>2 DEF Join, history
  <2> QED BY <2>1, <2>2
<1>4. ASSUME NEW t \in TableIds, NEW p \in Players, Leave(t, p)
      PROVE  Quiet
  <2> DEFINE table == [tables[t] EXCEPT !.seated = @ \ {p}]
  <2>1. t \in Live /\ tables[t] \in Tables
    BY <1>0, <1>4 DEF Leave, Ready
  <2>2. /\ table \in Tables
        /\ table.game = tables[t].game /\ table.houses = tables[t].houses
        /\ table.playerToAct = tables[t].playerToAct
        /\ table.gameEnded = tables[t].gameEnded
        /\ table.madeFor = tables[t].madeFor
        /\ table.finishing = tables[t].finishing
        /\ table.state = tables[t].state
    BY <2>1 DEF Tables
  <2>3. tables' = [tables EXCEPT ![t] = table]
    BY <1>4 DEF Leave
  <2> HIDE DEF table
  <2> QED BY <1>2, <1>4, <2>1, <2>2, <2>3 DEF Leave, history
<1>5. ASSUME NEW t \in TableIds, Close(t)
      PROVE  Quiet
  <2> DEFINE table == [tables[t] EXCEPT !.state = "CLOSED"]
  <2>1. t \in Live /\ tables[t] \in Tables
    BY <1>0, <1>5 DEF Close, Ready
  <2>2. CASE haveSeated(t)
    BY <1>1, <1>5, <2>2 DEF Close, history
  <2>3. CASE ~ haveSeated(t)
    <3>1. /\ table \in Tables
          /\ table.game = tables[t].game /\ table.houses = tables[t].houses
          /\ table.playerToAct = tables[t].playerToAct
          /\ table.gameEnded = tables[t].gameEnded
          /\ table.madeFor = tables[t].madeFor
          /\ table.finishing = tables[t].finishing
          /\ table.state = "CLOSED"
      BY <2>1 DEF Tables
    <3>2. tables' = [tables EXCEPT ![t] = table]
      BY <1>5, <2>3 DEF Close
    <3> HIDE DEF table
    <3> QED BY <1>2, <1>5, <2>1, <3>1, <3>2 DEF Close, history
  <2> QED BY <2>2, <2>3
<1>6. ASSUME Destroy
      PROVE  Quiet
  <2>1. /\ destroying \in Live /\ ~ tables[destroying].finishing
        /\ Live' = Live \ {destroying}
        /\ \A t \in Live' : tables'[t] = tables[t]
    BY <1>6 DEF Destroy, Mapping, TypeOK, Live
  <2> QED BY <1>6, <2>1 DEF Destroy, Quiet, SameBoard, history
<1>7. ASSUME Crash
      PROVE  Quiet
  <2>1. Live' = {}
    BY <1>7 DEF Crash, Live
  <2>2. /\ torn \subseteq torn'
        /\ \A t \in Live : tables[t].finishing => tables[t].game \in torn'
    BY <1>7 DEF Crash
  <2> QED BY <1>7, <2>1, <2>2 DEF Crash, Quiet
<1> QED BY <1>1, <1>3, <1>4, <1>5, <1>6, <1>7
        DEF Next, vars, history, ReuseTable, SendClose, Unmap

-----------------------------------------------------------------------------
(* The actions that are not quiet, in terms of what they change.           *)

(* No table is open for the game that gets one.                            *)
LEMMA OpeningHasNoTable ==
  ASSUME TypeOK, Mapping, opening # NotOpening
  PROVE  /\ opening.game \in Games /\ opening.row \in Rows
         /\ \A t \in Live : tables[t].state = "OPEN" =>
              tables[t].game # opening.game
BY DEF TypeOK, Mapping, MapsAgree, Live, TableIds, None, Tables

LEMMA NewRowsFacts ==
  ASSUME NEW row \in NewRows
  PROVE  /\ row.ownersMove = TRUE /\ row.counted = 0 /\ row.winner = NoPlayer
         /\ row.result = "none"
         /\ \/ row.request = "PENDING" /\ row.status = "PENDING"
            \/ row.request = "none" /\ row.status = "ACTIVE"
         /\ row.state \in {NoState, InitHouses(InitStones)}
BY DEF NewRows, Row

LEMMA AnswerFacts ==
  ASSUME TypeOK, NEW g \in Games, NEW status \in {"ACCEPTED", "DENIED"},
         Answer(g, status)
  PROVE  /\ stored[g] \in Rows /\ stored[g] # NoRow
         /\ stored[g].request # "none"
         /\ stored'[g].request = status
         /\ stored'[g].status = IF status = "ACCEPTED" THEN "ACTIVE"
                                ELSE "CANCELLED"
         /\ stored'[g].state = stored[g].state
         /\ stored'[g].ownersMove = stored[g].ownersMove
         /\ stored'[g].result = stored[g].result
         /\ stored'[g].winner = stored[g].winner
         /\ stored'[g].counted = stored[g].counted
         /\ \A h \in Games : h # g => stored'[h] = stored[h]
         /\ answers'[g] = answers[g] + 1 /\ answers[g] \in Nat
         /\ \A h \in Games : h # g => answers'[h] = answers[h]
         /\ raced \subseteq raced'
         /\ opening.game = g => g \in raced'
         /\ UNCHANGED <<tables, opening, torn>> /\ Live' = Live
<1>1. stored[g] \in Rows /\ stored[g] # NoRow /\ stored[g].request # "none"
  BY DEF Answer, TypeOK
<1>2. /\ stored'[g].request = status
      /\ stored'[g].status = IF status = "ACCEPTED" THEN "ACTIVE"
                             ELSE "CANCELLED"
      /\ stored'[g].state = stored[g].state
      /\ stored'[g].ownersMove = stored[g].ownersMove
      /\ stored'[g].result = stored[g].result
      /\ stored'[g].winner = stored[g].winner
      /\ stored'[g].counted = stored[g].counted
      /\ \A h \in Games : h # g => stored'[h] = stored[h]
  BY <1>1 DEF Answer, TypeOK, Rows
<1>3. /\ answers'[g] = answers[g] + 1 /\ answers[g] \in Nat
      /\ \A h \in Games : h # g => answers'[h] = answers[h]
  BY BoundsAssumption DEF Answer, TypeOK
<1> QED BY <1>1, <1>2, <1>3 DEF Answer, Live

LEMMA SowFacts ==
  ASSUME TypeOK, TypeOK', GamesExist, Mapping,
         NEW t \in TableIds, NEW p \in Players, NEW pit \in LocalPits,
         Sow(t, p, pit)
  PROVE  LET g == tables[t].game
             houses == tables[t].houses
         IN  /\ t \in Live /\ tables[t].state = "OPEN"
             /\ ~ tables[t].gameEnded /\ ~ tables[t].finishing
             /\ tables[t].playerToAct = p
             /\ g \in Games /\ stored[g] \in Rows /\ stored[g] # NoRow
             /\ houses \in [Houses -> Nat] /\ houses[Pit(p, pit)] # 0
             /\ Live' = Live
             /\ \A u \in Live : u # t => tables'[u] = tables[u]
             /\ \A u \in Live :
                  tables[u].state = "OPEN" /\ tables[u].game = g => u = t
             /\ opening # NotOpening => opening.game # g
             /\ tables'[t].game = g
             /\ tables'[t].state = "OPEN"
             /\ tables'[t].madeFor = tables[t].madeFor
             /\ tables'[t].houses = AfterMove(houses, p, pit)
             /\ tables'[t].playerToAct = NextPlayer(houses, p, pit)
             /\ tables'[t].gameEnded = EndsGame(houses, p, pit)
             /\ tables'[t].finishing = EndsGame(houses, p, pit)
             /\ \A h \in Games : h # g => stored'[h] = stored[h]
             /\ stored'[g].state = AfterMove(houses, p, pit)
             /\ stored'[g].ownersMove = (NextPlayer(houses, p, pit) = SOUTH)
             /\ stored'[g].request = stored[g].request
             /\ stored'[g].status = stored[g].status
             /\ stored'[g].result = stored[g].result
             /\ stored'[g].winner = stored[g].winner
             /\ stored'[g].counted = stored[g].counted
             /\ AfterMove(houses, p, pit) \in [Houses -> Nat]
             /\ UNCHANGED <<opening, answers, raced, torn>>
<1> DEFINE g == tables[t].game
           houses == tables[t].houses
           table == AfterAction(tables[t], p, pit)
<1>1. /\ t \in Live /\ tables[t] \in Tables /\ tables[t].state = "OPEN"
      /\ ~ tables[t].gameEnded /\ ~ tables[t].finishing
      /\ tables[t].playerToAct = p
  BY DEF Sow, Ready, Live, TypeOK, Mapping
<1>2. /\ g \in Games /\ stored[g] \in Rows /\ stored[g] # NoRow
      /\ houses \in [Houses -> Nat] /\ houses[Pit(p, pit)] # 0
  BY <1>1 DEF Sow, Tables, TypeOK, GamesExist
<1>3. AfterMove(houses, p, pit) \in [Houses -> Nat]
  BY <1>2, AfterMoveType
<1>4. /\ table.game = g /\ table.state = "OPEN"
      /\ table.madeFor = tables[t].madeFor
      /\ table.houses = AfterMove(houses, p, pit)
      /\ table.playerToAct = NextPlayer(houses, p, pit)
      /\ table.gameEnded = EndsGame(houses, p, pit)
      /\ table.finishing = EndsGame(houses, p, pit)
  BY <1>1 DEF AfterAction, Tables
<1>5. /\ tables' = [tables EXCEPT ![t] = table]
      /\ stored' = [stored EXCEPT
                      ![g].state = table.houses,
                      ![g].ownersMove = (table.playerToAct = SOUTH)]
      /\ UNCHANGED <<opening, answers, raced, torn>>
  BY DEF Sow, history
<1>6. /\ \A u \in Live :
           tables[u].state = "OPEN" /\ tables[u].game = g => u = t
      /\ opening # NotOpening => opening.game # g
  <2>1. \A u \in Live : u \in TableIds /\ tables[u].game \in Games
    BY DEF Live, TypeOK, Tables
  <2> QED BY <1>1, <2>1, OpeningHasNoTable DEF Mapping, MapsAgree
<1> HIDE DEF g, houses, table
<1>7. /\ stored'[g].state = table.houses
      /\ stored'[g].ownersMove = (table.playerToAct = SOUTH)
      /\ stored'[g].request = stored[g].request
      /\ stored'[g].status = stored[g].status
      /\ stored'[g].result = stored[g].result
      /\ stored'[g].winner = stored[g].winner
      /\ stored'[g].counted = stored[g].counted
      /\ \A h \in Games : h # g => stored'[h] = stored[h]
  BY <1>2, <1>5 DEF TypeOK, Rows
<1>8. table # NoTable
  BY <1>4 DEF NoTable
<1>9. /\ tables'[t] = table /\ Live' = Live
      /\ \A u \in Live : u # t => tables'[u] = tables[u]
  BY <1>1, <1>5, <1>8 DEF TypeOK, Live
<1> QED BY <1>1, <1>2, <1>3, <1>4, <1>5, <1>6, <1>7, <1>9 DEF g, houses

LEMMA FinishFacts ==
  ASSUME TypeOK, TypeOK', GamesExist, Mapping,
         NEW t \in TableIds, Finish(t)
  PROVE  LET g == tables[t].game
             houses == tables[t].houses
         IN  /\ t \in Live /\ tables[t].state = "OPEN" /\ tables[t].finishing
             /\ g \in Games /\ stored[g] \in Rows /\ stored[g] # NoRow
             /\ houses \in [Houses -> Nat]
             /\ Live' = Live
             /\ \A u \in Live : u # t => tables'[u] = tables[u]
             /\ \A u \in Live :
                  tables[u].state = "OPEN" /\ tables[u].game = g => u = t
             /\ opening # NotOpening => opening.game # g
             /\ tables'[t].game = g
             /\ tables'[t].state = "OPEN"
             /\ tables'[t].madeFor = tables[t].madeFor
             /\ tables'[t].houses = houses
             /\ tables'[t].playerToAct = tables[t].playerToAct
             /\ tables'[t].gameEnded = tables[t].gameEnded
             /\ tables'[t].finishing = FALSE
             /\ \A h \in Games : h # g => stored'[h] = stored[h]
             /\ stored'[g] # NoRow
             /\ stored'[g].state = stored[g].state
             /\ stored'[g].ownersMove = stored[g].ownersMove
             /\ stored'[g].request = stored[g].request
             /\ stored'[g].status = "FINISHED"
             /\ stored'[g].result = IF IsDraw(houses) THEN "DRAW" ELSE "WIN"
             /\ stored'[g].winner = IF IsDraw(houses) THEN stored[g].winner
                                    ELSE WinningPlayer(houses)
             /\ stored'[g].counted = stored[g].counted + 1
             /\ UNCHANGED <<opening, answers, raced, torn>>
<1> DEFINE g == tables[t].game
           houses == tables[t].houses
           table == [tables[t] EXCEPT !.finishing = FALSE]
           row == Finished(stored[g], houses)
<1>1. /\ t \in Live /\ tables[t] \in Tables /\ tables[t].state = "OPEN"
      /\ tables[t].finishing
  BY DEF Finish, Live, TypeOK, Mapping
<1>2. /\ g \in Games /\ stored[g] \in Rows /\ stored[g] # NoRow
      /\ houses \in [Houses -> Nat]
  BY <1>1 DEF Tables, TypeOK, GamesExist
<1>3. /\ table.game = g /\ table.state = "OPEN"
      /\ table.madeFor = tables[t].madeFor
      /\ table.houses = houses
      /\ table.playerToAct = tables[t].playerToAct
      /\ table.gameEnded = tables[t].gameEnded
      /\ table.finishing = FALSE
  BY <1>1 DEF Tables
<1>4. /\ row.state = stored[g].state
      /\ row.ownersMove = stored[g].ownersMove
      /\ row.request = stored[g].request
      /\ row.status = "FINISHED"
      /\ row.result = IF IsDraw(houses) THEN "DRAW" ELSE "WIN"
      /\ row.winner = IF IsDraw(houses) THEN stored[g].winner
                      ELSE WinningPlayer(houses)
      /\ row.counted = stored[g].counted + 1
  BY <1>2 DEF Finished, Rows
<1>5. /\ tables' = [tables EXCEPT ![t] = table]
      /\ stored' = [stored EXCEPT ![g] = row]
      /\ UNCHANGED <<opening, answers, raced, torn>>
  BY DEF Finish, history
<1>6. /\ \A u \in Live :
           tables[u].state = "OPEN" /\ tables[u].game = g => u = t
      /\ opening # NotOpening => opening.game # g
  <2>1. \A u \in Live : u \in TableIds /\ tables[u].game \in Games
    BY DEF Live, TypeOK, Tables
  <2> QED BY <1>1, <2>1, OpeningHasNoTable DEF Mapping, MapsAgree
<1> HIDE DEF g, houses, table, row
<1>7. row # NoRow /\ table # NoTable
  BY <1>3, <1>4 DEF NoRow, NoTable
<1>8. /\ stored'[g] = row
      /\ \A h \in Games : h # g => stored'[h] = stored[h]
  BY <1>2, <1>5 DEF TypeOK
<1>9. /\ tables'[t] = table /\ Live' = Live
      /\ \A u \in Live : u # t => tables'[u] = tables[u]
  BY <1>1, <1>5, <1>7 DEF TypeOK, Live
<1> QED BY <1>1, <1>2, <1>3, <1>4, <1>5, <1>6, <1>7, <1>8, <1>9
        DEF g, houses

-----------------------------------------------------------------------------
(* The stored position.  createTable works on a row that was read before:  *)
(* the position in it is still the stored one, because a game that has no  *)
(* table in the mapping has no open table and nobody moves in it.          *)

Positions ==
  /\ StoredIsPlayed
  /\ opening # NotOpening =>
       /\ stored[opening.game].state = opening.row.state
       /\ stored[opening.game].ownersMove = opening.row.ownersMove
  /\ \A g \in Games :
       stored[g] # NoRow /\ stored[g].state = NoState => stored[g].ownersMove

LEMMA NoStateIsNoPosition == NoState \notin [Houses -> Nat]
<1>1. 0 \in Houses
  BY PitsAssumption DEF Houses, NumberOfHouses
<1>2. DOMAIN NoState = {}
  BY DEF NoState
<1> QED BY <1>1, <1>2

(* What CreateTable does, in terms of the row that was read.               *)
LEMMA CreateTableFacts ==
  ASSUME TypeOK, TypeOK', GamesExist, Mapping, Positions, CreateTable
  PROVE  LET g == opening.game
             row == FirstPosition(opening.row)
         IN  /\ g \in Games /\ made + 1 \in TableIds /\ opening' = NotOpening
             /\ row \in Rows /\ row.state \in [Houses -> Nat]
             /\ Live' = Live \union {made + 1} /\ made + 1 \notin Live
             /\ tables'[made + 1] = NewTable(g, row)
             /\ \A t \in Live : tables'[t] = tables[t] /\ t # made + 1
             /\ \A h \in Games : h # g => stored'[h] = stored[h]
             /\ stored'[g].state = row.state
             /\ stored'[g].ownersMove = row.ownersMove
             /\ stored'[g].request = stored[g].request
             /\ \/ opening.row.state # NoState /\ row = opening.row
                    /\ stored' = stored
                \/ /\ opening.row.state = NoState
                   /\ row.state = InitHouses(InitStones) /\ row.ownersMove
                   /\ stored'[g].status = opening.row.status
                   /\ stored'[g].result = opening.row.result
                   /\ stored'[g].winner = opening.row.winner
                   /\ stored'[g].counted = opening.row.counted
<1> DEFINE g == opening.game
           row == FirstPosition(opening.row)
           t == made + 1
<1>1. g \in Games /\ opening.row \in Rows /\ opening # NotOpening
  BY OpeningHasNoTable DEF CreateTable
<1>2. row \in Rows /\ row.state \in [Houses -> Nat] /\ row.state # NoState
  BY <1>1, FirstPositionType, NoStateIsNoPosition
<1>3. /\ stored[g] \in Rows
      /\ stored[g].state = opening.row.state
      /\ stored[g].ownersMove = opening.row.ownersMove
  BY <1>1 DEF GamesExist, Positions, TypeOK
<1>4. t \in TableIds /\ t \notin Live /\ opening' = NotOpening
  BY <1>1, BoundsAssumption
     DEF CreateTable, Mapping, GamesExist, TypeOK, TableIds
<1>5. /\ stored' = IF row = opening.row THEN stored
                   ELSE [stored EXCEPT
                           ![g] = [row EXCEPT !.request = stored[g].request]]
      /\ tables' = [tables EXCEPT ![t] = NewTable(g, row)]
  BY DEF CreateTable
<1>6. \/ /\ opening.row.state # NoState
         /\ row = opening.row
      \/ /\ opening.row.state = NoState /\ row # opening.row
         /\ row = [opening.row EXCEPT !.state = InitHouses(InitStones),
                                      !.ownersMove = TRUE]
  BY <1>2 DEF FirstPosition
<1>7. NewTable(g, row) # NoTable
  BY DEF NewTable, NoTable
<1>8. /\ tables'[t] = NewTable(g, row)
      /\ \A u \in TableIds \ {t} : tables'[u] = tables[u]
      /\ Live' = Live \union {t}
  <2> HIDE DEF t, row, g
  <2>1. tables'[t] = NewTable(g, row)
        /\ \A u \in TableIds \ {t} : tables'[u] = tables[u]
    BY <1>4, <1>5 DEF TypeOK
  <2> QED BY <1>4, <1>7, <2>1 DEF Live
<1>9. \A h \in Games : h # g => stored'[h] = stored[h]
  BY <1>5 DEF TypeOK
<1>10. CASE opening.row.state # NoState
  <2>1. row = opening.row /\ stored' = stored
    BY <1>5, <1>6, <1>10
  <2> QED BY <1>1, <1>2, <1>3, <1>4, <1>8, <1>9, <1>10, <2>1 DEF Live
<1>11. CASE opening.row.state = NoState
  <2>1. /\ row = [opening.row EXCEPT !.state = InitHouses(InitStones),
                                     !.ownersMove = TRUE]
        /\ stored'[g] = [row EXCEPT !.request = stored[g].request]
    BY <1>1, <1>5, <1>6, <1>11 DEF TypeOK
  <2>2. /\ row.state = InitHouses(InitStones) /\ row.ownersMove = TRUE
        /\ row.status = opening.row.status /\ row.result = opening.row.result
        /\ row.winner = opening.row.winner
        /\ row.counted = opening.row.counted
    BY <1>1, <2>1 DEF Rows
  <2> HIDE DEF row
  <2>3. /\ stored'[g].state = row.state
        /\ stored'[g].ownersMove = row.ownersMove
        /\ stored'[g].request = stored[g].request
        /\ stored'[g].status = row.status /\ stored'[g].result = row.result
        /\ stored'[g].winner = row.winner
        /\ stored'[g].counted = row.counted
    BY <1>2, <2>1 DEF Rows
  <2> QED BY <1>1, <1>2, <1>3, <1>4, <1>8, <1>9, <1>11, <2>2, <2>3
          DEF Live, row
<1> QED BY <1>10, <1>11

LEMMA PositionsStep ==
  /\ TypeOK /\ TypeOK' /\ GamesExist /\ Mapping /\ Mapping' /\ Positions
  /\ [Next]_vars
  => Positions'
<1> SUFFICES ASSUME TypeOK, TypeOK', GamesExist, Mapping, Mapping', Positions,
                    [Next]_vars
             PROVE  Positions'
  OBVIOUS
<1>0. \A t \in Live : /\ t \in TableIds /\ tables[t] \in Tables
                      /\ tables[t].game \in Games
                      /\ stored[tables[t].game] # NoRow
  BY DEF Live, TypeOK, Tables, GamesExist
<1>1. ASSUME NEW g \in Games, NEW row \in NewRows, CreateGame(g, row)
      PROVE  Positions'
  <2>1. row.ownersMove = TRUE
    BY NewRowsFacts
  <2> QED BY <1>0, <1>1, <2>1, OpeningHasNoTable
          DEF CreateGame, Positions, StoredIsPlayed, GamesExist, TypeOK, Live
<1>2. ASSUME NEW g \in Games, NEW status \in {"ACCEPTED", "DENIED"},
             Answer(g, status)
      PROVE  Positions'
  <2>2. \A h \in Games : /\ stored'[h] # NoRow => stored[h] # NoRow
                         /\ stored'[h].state = stored[h].state
                         /\ stored'[h].ownersMove = stored[h].ownersMove
    BY <1>2, AnswerFacts
  <2>3. UNCHANGED <<tables, opening>> /\ Live' = Live
    BY <1>2 DEF Answer, Live
  <2>4. StoredIsPlayed'
    <3> SUFFICES ASSUME NEW t \in Live, tables[t].state = "OPEN"
                 PROVE  /\ stored'[tables[t].game].state = tables[t].houses
                        /\ stored'[tables[t].game].ownersMove
                             = (tables[t].playerToAct = SOUTH)
      BY <2>3 DEF StoredIsPlayed
    <3>1. /\ stored[tables[t].game].state = tables[t].houses
          /\ stored[tables[t].game].ownersMove
               = (tables[t].playerToAct = SOUTH)
      BY DEF Positions, StoredIsPlayed
    <3> QED BY <1>0, <2>2, <3>1
  <2>5. opening # NotOpening =>
          /\ stored'[opening.game].state = opening.row.state
          /\ stored'[opening.game].ownersMove = opening.row.ownersMove
    BY <2>2, OpeningHasNoTable DEF Positions
  <2>6. \A h \in Games : stored'[h] # NoRow /\ stored'[h].state = NoState =>
          stored'[h].ownersMove
    BY <2>2 DEF Positions
  <2> QED BY <2>3, <2>4, <2>5, <2>6 DEF Positions
<1>3. ASSUME NEW g \in Games, NEW p \in Players, ReadGame(g, p)
      PROVE  Positions'
  BY <1>3 DEF ReadGame, Positions, StoredIsPlayed, Live
<1>4. ASSUME CreateTable
      PROVE  Positions'
  <2> DEFINE g == opening.game
             row == FirstPosition(opening.row)
             u == made + 1
  <2>1. /\ g \in Games /\ opening' = NotOpening
        /\ Live' = Live \union {u}
        /\ tables'[u] = NewTable(g, row)
        /\ \A t \in Live : tables'[t] = tables[t]
        /\ \A h \in Games : h # g => stored'[h] = stored[h]
        /\ stored'[g].state = row.state
        /\ stored'[g].ownersMove = row.ownersMove
        /\ row.state # NoState /\ row.ownersMove \in BOOLEAN
    BY <1>4, CreateTableFacts, NoStateIsNoPosition DEF Rows
  <2>2. /\ NewTable(g, row).game = g /\ NewTable(g, row).houses = row.state
        /\ NewTable(g, row).playerToAct = IF row.ownersMove THEN SOUTH ELSE NORTH
    BY DEF NewTable
  <2>3. opening # NotOpening
    BY <1>4 DEF CreateTable
  <2> HIDE DEF g, row, u
  <2>4. StoredIsPlayed'
    <3> SUFFICES ASSUME NEW t \in Live', tables'[t].state = "OPEN"
                 PROVE  /\ stored'[tables'[t].game].state = tables'[t].houses
                        /\ stored'[tables'[t].game].ownersMove
                             = (tables'[t].playerToAct = SOUTH)
      BY DEF StoredIsPlayed
    <3>1. CASE t = u
      BY <2>1, <2>2, <3>1 DEF SOUTH, NORTH
    <3>2. CASE t \in Live
      <4>1. tables[t].game # opening.game
        BY <2>1, <2>3, <3>2, OpeningHasNoTable
      <4> QED BY <1>0, <2>1, <3>2, <4>1 DEF Positions, StoredIsPlayed, g
    <3> QED BY <2>1, <3>1, <3>2
  <2> QED BY <2>1, <2>4 DEF Positions
<1>5. ASSUME NEW t \in TableIds, NEW p \in Players, NEW pit \in LocalPits,
             Sow(t, p, pit)
      PROVE  Positions'
  <2> DEFINE g == tables[t].game
             houses == AfterMove(tables[t].houses, p, pit)
             player == NextPlayer(tables[t].houses, p, pit)
  <2>1. /\ t \in Live /\ g \in Games /\ Live' = Live /\ opening' = opening
        /\ tables'[t].game = g /\ tables'[t].houses = houses
        /\ tables'[t].playerToAct = player
        /\ \A u \in Live : u # t => tables'[u] = tables[u]
        /\ \A u \in Live :
             tables[u].state = "OPEN" /\ tables[u].game = g => u = t
        /\ stored'[g].state = houses /\ stored'[g].ownersMove = (player = SOUTH)
        /\ \A h \in Games : h # g => stored'[h] = stored[h]
        /\ opening # NotOpening => opening.game # g
        /\ houses # NoState
    BY <1>5, SowFacts, NoStateIsNoPosition
  <2> HIDE DEF g, houses, player
  <2>2. StoredIsPlayed'
    <3> SUFFICES ASSUME NEW u \in Live', tables'[u].state = "OPEN"
                 PROVE  /\ stored'[tables'[u].game].state = tables'[u].houses
                        /\ stored'[tables'[u].game].ownersMove
                             = (tables'[u].playerToAct = SOUTH)
      BY DEF StoredIsPlayed
    <3>1. CASE u = t
      BY <2>1, <3>1
    <3>2. CASE u # t
      BY <1>0, <2>1, <3>2 DEF Positions, StoredIsPlayed
    <3> QED BY <3>1, <3>2
  <2>3. opening # NotOpening =>
          /\ stored'[opening.game].state = opening.row.state
          /\ stored'[opening.game].ownersMove = opening.row.ownersMove
    BY <2>1, OpeningHasNoTable DEF Positions
  <2>4. \A h \in Games : stored'[h] # NoRow /\ stored'[h].state = NoState =>
          stored'[h].ownersMove
    BY <2>1 DEF Positions
  <2> QED BY <2>1, <2>2, <2>3, <2>4 DEF Positions
<1>6. ASSUME NEW t \in TableIds, Finish(t)
      PROVE  Positions'
  <2>1. \A h \in Games : /\ stored'[h] # NoRow => stored[h] # NoRow
                         /\ stored'[h].state = stored[h].state
                         /\ stored'[h].ownersMove = stored[h].ownersMove
    BY <1>6, FinishFacts
  <2>2. /\ Live' = Live /\ opening' = opening
        /\ \A u \in Live : /\ tables'[u].state = tables[u].state
                           /\ tables'[u].game = tables[u].game
                           /\ tables'[u].houses = tables[u].houses
                           /\ tables'[u].playerToAct = tables[u].playerToAct
    <3>1. /\ Live' = Live /\ opening' = opening
          /\ \A u \in Live : u # t => tables'[u] = tables[u]
      BY <1>6, FinishFacts
    <3>2. /\ tables'[t].state = tables[t].state
          /\ tables'[t].game = tables[t].game
          /\ tables'[t].houses = tables[t].houses
          /\ tables'[t].playerToAct = tables[t].playerToAct
      BY <1>6, FinishFacts
    <3> QED BY <3>1, <3>2
  <2>3. StoredIsPlayed'
    <3> SUFFICES ASSUME NEW u \in Live', tables'[u].state = "OPEN"
                 PROVE  /\ stored'[tables'[u].game].state = tables'[u].houses
                        /\ stored'[tables'[u].game].ownersMove
                             = (tables'[u].playerToAct = SOUTH)
      BY DEF StoredIsPlayed
    <3>1. /\ stored[tables[u].game].state = tables[u].houses
          /\ stored[tables[u].game].ownersMove
               = (tables[u].playerToAct = SOUTH)
      BY <2>2 DEF Positions, StoredIsPlayed
    <3> QED BY <1>0, <2>1, <2>2, <3>1
  <2>4. opening # NotOpening =>
          /\ stored'[opening.game].state = opening.row.state
          /\ stored'[opening.game].ownersMove = opening.row.ownersMove
    BY <2>1, OpeningHasNoTable DEF Positions
  <2>5. \A h \in Games : stored'[h] # NoRow /\ stored'[h].state = NoState =>
          stored'[h].ownersMove
    BY <2>1 DEF Positions
  <2> QED BY <2>2, <2>3, <2>4, <2>5 DEF Positions
<1>7. CASE Quiet
  BY <1>0, <1>7, OpeningHasNoTable
     DEF Quiet, SameBoard, Positions, StoredIsPlayed
<1> QED BY <1>1, <1>2, <1>3, <1>4, <1>5, <1>6, <1>7, QuietSteps

LEMMA PositionsHold == Spec => []Positions
<1>1. Init => Positions
  BY DEF Init, Positions, StoredIsPlayed, Live, NoRow
<1> QED BY <1>1, PositionsStep, TypesHold, MappingHolds, PTL DEF Spec

(* Whatever table is destroyed or lost, the stored game has the position   *)
(* of its open table.                                                      *)
THEOREM StoredAlwaysIsPlayed == Spec => []StoredIsPlayed
<1>1. Positions => StoredIsPlayed
  BY DEF Positions
<1> QED BY <1>1, PositionsHold, PTL

-----------------------------------------------------------------------------
(* The answer to a request.  Who has read the game before the answer came  *)
(* writes or plays an old status: for createTable "raced" remembers it,    *)
(* and a table that can be played is made after the answer.                *)

Playing(t) == ~ tables[t].gameEnded \/ tables[t].finishing

Answers ==
  /\ AnswerStands
  /\ \A g \in Games :
       /\ stored[g] = NoRow => answers[g] = 0
       /\ stored[g] # NoRow /\ stored[g].request = "PENDING" => answers[g] = 0
       /\ stored[g] # NoRow /\ stored[g].request \in {"ACCEPTED", "DENIED"} =>
            answers[g] > 0
  /\ opening # NotOpening /\ opening.game \notin raced =>
       stored[opening.game].status = opening.row.status
  /\ \A t \in Live :
       Playing(t) /\ answers[tables[t].game] <= 1 /\ tables[t].game \notin raced
       => stored[tables[t].game].request \in {"none", "ACCEPTED"}

LEMMA AnswersStep ==
  /\ TypeOK /\ TypeOK' /\ GamesExist /\ Mapping /\ Positions /\ Answers
  /\ [Next]_vars
  => Answers'
<1> SUFFICES ASSUME TypeOK, TypeOK', GamesExist, Mapping, Positions, Answers,
                    [Next]_vars
             PROVE  Answers'
  OBVIOUS
<1>0. /\ \A t \in Live : tables[t].game \in Games /\ stored[tables[t].game] # NoRow
      /\ \A g \in Games : answers[g] \in Nat
      /\ \A g \in Games : stored[g] # NoRow => stored[g] \in Rows
  BY BoundsAssumption DEF Live, TypeOK, Tables, GamesExist
<1>1. ASSUME NEW g \in Games, NEW row \in NewRows, CreateGame(g, row)
      PROVE  Answers'
  <2>1. /\ stored[g] = NoRow /\ stored'[g] = row
        /\ \A h \in Games : h # g => stored'[h] = stored[h]
        /\ UNCHANGED <<tables, opening, answers, raced>> /\ Live' = Live
    BY <1>1 DEF CreateGame, TypeOK, history, Live
  <2>2. /\ row # NoRow
        /\ \/ row.request = "PENDING" /\ row.status = "PENDING"
           \/ row.request = "none" /\ row.status = "ACTIVE"
    BY NewRowsFacts, NewRowsType, Absent
  <2>3. opening # NotOpening => opening.game # g /\ opening.game \in Games
    BY <2>1, OpeningHasNoTable DEF GamesExist
  <2>4. AnswerStands'
    BY <1>0, <2>1, <2>2 DEF Answers, AnswerStands
  <2>5. \A h \in Games :
          /\ stored'[h] = NoRow => answers'[h] = 0
          /\ stored'[h] # NoRow /\ stored'[h].request = "PENDING" =>
               answers'[h] = 0
          /\ stored'[h] # NoRow /\ stored'[h].request \in {"ACCEPTED", "DENIED"}
               => answers'[h] > 0
    BY <1>0, <2>1, <2>2 DEF Answers
  <2> QED BY <1>0, <2>1, <2>3, <2>4, <2>5 DEF Answers, Playing
<1>2. ASSUME NEW g \in Games, NEW status \in {"ACCEPTED", "DENIED"},
             Answer(g, status)
      PROVE  Answers'
  <2>1. /\ stored[g] \in Rows /\ stored[g] # NoRow
        /\ stored[g].request \in {"PENDING", "ACCEPTED", "DENIED"}
        /\ stored'[g] # NoRow
        /\ stored'[g].request = status
        /\ stored'[g].status = IF status = "ACCEPTED" THEN "ACTIVE"
                               ELSE "CANCELLED"
        /\ \A h \in Games : h # g => stored'[h] = stored[h]
        /\ answers'[g] = answers[g] + 1 /\ answers[g] \in Nat
        /\ \A h \in Games : h # g => answers'[h] = answers[h]
        /\ raced \subseteq raced' /\ (opening.game = g => g \in raced')
        /\ UNCHANGED <<tables, opening>> /\ Live' = Live
    BY <1>2, AnswerFacts DEF Rows, NoRow
  <2>2. AnswerStands'
    BY <1>0, <2>1 DEF Answers, AnswerStands
  <2>3. \A h \in Games :
          /\ stored'[h] = NoRow => answers'[h] = 0
          /\ stored'[h] # NoRow /\ stored'[h].request = "PENDING" =>
               answers'[h] = 0
          /\ stored'[h] # NoRow /\ stored'[h].request \in {"ACCEPTED", "DENIED"}
               => answers'[h] > 0
    BY <1>0, <2>1 DEF Answers
  <2>4. opening # NotOpening /\ opening.game \notin raced' =>
          stored'[opening.game].status = opening.row.status
    BY <2>1, OpeningHasNoTable DEF Answers
  <2>5. ASSUME NEW t \in Live, Playing(t), answers'[tables[t].game] <= 1,
               tables[t].game \notin raced'
        PROVE  stored'[tables[t].game].request \in {"none", "ACCEPTED"}
    <3>1. CASE tables[t].game = g
      <4>1. answers[g] = 0
        BY <2>1, <2>5, <3>1
      <4>2. stored[g].request = "PENDING"
        BY <2>1, <4>1 DEF Answers
      <4> QED BY <2>1, <2>5, <3>1, <4>1, <4>2 DEF Answers
    <3>2. CASE tables[t].game # g
      BY <1>0, <2>1, <2>5, <3>2 DEF Answers
    <3> QED BY <3>1, <3>2
  <2> QED BY <2>1, <2>2, <2>3, <2>4, <2>5 DEF Answers, Playing
<1>3. ASSUME NEW g \in Games, NEW p \in Players, ReadGame(g, p)
      PROVE  Answers'
  BY <1>3 DEF ReadGame, Answers, AnswerStands, Playing, history, Live
<1>4. ASSUME CreateTable
      PROVE  Answers'
  <2> DEFINE g == opening.game
             row == FirstPosition(opening.row)
             u == made + 1
  <2>1. /\ g \in Games /\ opening' = NotOpening /\ opening # NotOpening
        /\ stored[g] \in Rows /\ stored[g] # NoRow
        /\ Live' = Live \union {u}
        /\ tables'[u] = NewTable(g, row)
        /\ \A t \in Live : tables'[t] = tables[t]
        /\ \A h \in Games : h # g => stored'[h] = stored[h]
        /\ stored'[g].request = stored[g].request
        /\ stored'[g].status \in {stored[g].status, opening.row.status}
        /\ stored'[g] # NoRow
    BY <1>4, CreateTableFacts, RowsStay DEF CreateTable, TypeOK, GamesExist
  <2>2. UNCHANGED <<answers, raced>>
    BY <1>4 DEF CreateTable, history
  <2>3. /\ NewTable(g, row).game = g /\ ~ NewTable(g, row).finishing
        /\ ~ NewTable(g, row).gameEnded => opening.row.status = "ACTIVE"
    BY <2>1, OpeningHasNoTable, FirstPositionType DEF NewTable
  <2>4. g \notin raced => /\ stored[g].status = opening.row.status
                          /\ stored'[g].status = stored[g].status
    BY <2>1 DEF Answers
  <2> HIDE DEF g, row, u
  <2>5. AnswerStands'
    BY <1>0, <2>1, <2>2, <2>4 DEF Answers, AnswerStands
  <2>6. \A h \in Games :
          /\ stored'[h] = NoRow => answers'[h] = 0
          /\ stored'[h] # NoRow /\ stored'[h].request = "PENDING" =>
               answers'[h] = 0
          /\ stored'[h] # NoRow /\ stored'[h].request \in {"ACCEPTED", "DENIED"}
               => answers'[h] > 0
    BY <2>1, <2>2 DEF Answers
  <2>7. ASSUME NEW t \in Live', Playing(t)', answers[tables'[t].game] <= 1,
               tables'[t].game \notin raced
        PROVE  stored'[tables'[t].game].request \in {"none", "ACCEPTED"}
    <3>1. CASE t = u
      <4>1. stored[g].status = "ACTIVE" /\ answers[g] <= 1 /\ g \notin raced
        BY <2>1, <2>3, <2>4, <2>7, <3>1 DEF Playing
      <4>2. stored[g].request \notin {"PENDING", "DENIED"}
        BY <2>1, <4>1 DEF Answers, AnswerStands
      <4>3. stored[g].request \in {"none", "PENDING", "ACCEPTED", "DENIED"}
        BY <2>1 DEF Rows
      <4> QED BY <2>1, <2>3, <3>1, <4>2, <4>3
    <3>2. CASE t \in Live
      BY <1>0, <2>1, <2>7, <3>2 DEF Answers, Playing
    <3> QED BY <2>1, <3>1, <3>2
  <2> QED BY <2>1, <2>2, <2>5, <2>6, <2>7 DEF Answers
<1>5. ASSUME NEW t \in TableIds, NEW p \in Players, NEW pit \in LocalPits,
             Sow(t, p, pit)
      PROVE  Answers'
  <2>1. /\ t \in Live /\ Playing(t)
        /\ Live' = Live /\ opening' = opening
        /\ UNCHANGED <<answers, raced>>
        /\ tables'[t].game = tables[t].game
        /\ \A u \in Live : u # t => tables'[u] = tables[u]
    BY <1>5, SowFacts DEF Playing
  <2>2. \A h \in Games : stored[h] # NoRow => stored'[h] # NoRow
    BY RowsStay
  <2>3. \A h \in Games : /\ stored[h] = NoRow => stored'[h] = NoRow
                         /\ stored'[h].request = stored[h].request
                         /\ stored'[h].status = stored[h].status
    BY <1>5, SowFacts
  <2>4. AnswerStands'
    BY <2>1, <2>2, <2>3 DEF Answers, AnswerStands
  <2>5. \A h \in Games :
          /\ stored'[h] = NoRow => answers[h] = 0
          /\ stored'[h] # NoRow /\ stored'[h].request = "PENDING" =>
               answers[h] = 0
          /\ stored'[h] # NoRow /\ stored'[h].request \in {"ACCEPTED", "DENIED"}
               => answers[h] > 0
    BY <2>2, <2>3 DEF Answers
  <2>6. opening # NotOpening /\ opening.game \notin raced =>
          stored'[opening.game].status = opening.row.status
    BY <2>3, OpeningHasNoTable DEF Answers
  <2>7. ASSUME NEW u \in Live, Playing(u)', answers[tables'[u].game] <= 1,
               tables'[u].game \notin raced
        PROVE  stored'[tables'[u].game].request \in {"none", "ACCEPTED"}
    <3>1. tables'[u].game = tables[u].game /\ Playing(u)
      BY <2>1, <2>7 DEF Playing
    <3> QED BY <1>0, <2>3, <2>7, <3>1 DEF Answers
  <2> QED BY <2>1, <2>4, <2>5, <2>6, <2>7 DEF Answers
<1>6. ASSUME NEW t \in TableIds, Finish(t)
      PROVE  Answers'
  <2> DEFINE g == tables[t].game
  <2>1. /\ t \in Live /\ Playing(t) /\ g \in Games
        /\ stored[g] # NoRow /\ stored'[g] # NoRow
        /\ stored'[g].request = stored[g].request
        /\ stored'[g].status = "FINISHED"
        /\ \A h \in Games : h # g => stored'[h] = stored[h]
    BY <1>6, FinishFacts DEF Playing
  <2>2. /\ Live' = Live /\ UNCHANGED <<opening, answers, raced>>
        /\ opening # NotOpening => opening.game # g
        /\ tables'[t].game = tables[t].game
        /\ \A u \in Live : u # t => tables'[u] = tables[u]
    BY <1>6, FinishFacts
  <2>3. answers[g] <= 1 /\ g \notin raced =>
          stored[g].request \in {"none", "ACCEPTED"}
    BY <2>1 DEF Answers
  <2> HIDE DEF g
  <2>4. AnswerStands'
    BY <2>1, <2>2, <2>3 DEF Answers, AnswerStands
  <2>5. \A h \in Games :
          /\ stored'[h] = NoRow => answers[h] = 0
          /\ stored'[h] # NoRow /\ stored'[h].request = "PENDING" =>
               answers[h] = 0
          /\ stored'[h] # NoRow /\ stored'[h].request \in {"ACCEPTED", "DENIED"}
               => answers[h] > 0
    BY <2>1 DEF Answers
  <2>6. opening # NotOpening /\ opening.game \notin raced =>
          stored'[opening.game].status = opening.row.status
    BY <2>1, <2>2, OpeningHasNoTable DEF Answers
  <2>7. ASSUME NEW u \in Live, Playing(u)', answers[tables'[u].game] <= 1,
               tables'[u].game \notin raced
        PROVE  stored'[tables'[u].game].request \in {"none", "ACCEPTED"}
    <3>1. tables'[u].game = tables[u].game /\ Playing(u)
      BY <2>1, <2>2, <2>7 DEF Playing
    <3> QED BY <1>0, <2>1, <2>7, <3>1 DEF Answers
  <2> QED BY <2>2, <2>4, <2>5, <2>6, <2>7 DEF Answers
<1>7. CASE Quiet
  BY <1>0, <1>7, OpeningHasNoTable
     DEF Quiet, SameBoard, Answers, AnswerStands, Playing
<1> QED BY <1>1, <1>2, <1>3, <1>4, <1>5, <1>6, <1>7, QuietSteps

LEMMA AnswersHold == Spec => []Answers
<1>1. Init => Answers
  BY DEF Init, Answers, AnswerStands, Live, NoRow
<1> QED BY <1>1, AnswersStep, TypesHold, MappingHolds, PositionsHold, PTL
        DEF Spec

(* The one answer to a request decides the game: a denied game is never    *)
(* played, an accepted one waits for its players until it is finished.     *)
THEOREM TheAnswerStands == Spec => []AnswerStands
<1>1. Answers => AnswerStands
  BY DEF Answers
<1> QED BY <1>1, AnswersHold, PTL

-----------------------------------------------------------------------------
(* Only a game without a request, or with an answer to it, is played.      *)

Answered(g) == stored[g].request = "none" \/ answers[g] > 0

Played ==
  /\ \A g \in Games :
       stored[g] # NoRow /\ stored[g].status = "ACTIVE" => Answered(g)
  /\ opening # NotOpening /\ opening.row.status = "ACTIVE" =>
       Answered(opening.game)
  /\ \A t \in Live : Playing(t) => Answered(tables[t].game)

(* A game once answered stays so.                                          *)
LEMMA AnsweredStays ==
  ASSUME TypeOK, TypeOK', GamesExist, Mapping, Positions, [Next]_vars,
         NEW g \in Games, stored[g] # NoRow, Answered(g)
  PROVE  Answered(g)'
<1>0. answers[g] \in Nat
  BY BoundsAssumption DEF TypeOK
<1>1. ASSUME NEW h \in Games, NEW row \in NewRows, CreateGame(h, row)
      PROVE  Answered(g)'
  BY <1>1 DEF CreateGame, TypeOK, history, Answered
<1>2. ASSUME NEW h \in Games, NEW status \in {"ACCEPTED", "DENIED"},
             Answer(h, status)
      PROVE  Answered(g)'
  <2>1. IF g = h THEN answers'[g] = answers[g] + 1
        ELSE stored'[g] = stored[g] /\ answers'[g] = answers[g]
    BY <1>2, AnswerFacts
  <2> QED BY <1>0, <2>1 DEF Answered
<1>3. ASSUME stored'[g].request = stored[g].request, answers' = answers
      PROVE  Answered(g)'
  BY <1>3 DEF Answered
<1>4. ASSUME NEW h \in Games, NEW p \in Players, ReadGame(h, p)
      PROVE  Answered(g)'
  BY <1>3, <1>4 DEF ReadGame, history
<1>5. CASE CreateTable
  <2>1. stored'[g].request = stored[g].request
    BY <1>5, CreateTableFacts
  <2> QED BY <1>3, <1>5, <2>1 DEF CreateTable, history
<1>6. ASSUME NEW t \in TableIds, NEW p \in Players, NEW pit \in LocalPits,
             Sow(t, p, pit)
      PROVE  Answered(g)'
  <2>1. stored'[g].request = stored[g].request /\ answers' = answers
    BY <1>6, SowFacts
  <2> QED BY <1>3, <2>1
<1>7. ASSUME NEW t \in TableIds, Finish(t)
      PROVE  Answered(g)'
  <2>1. stored'[g].request = stored[g].request /\ answers' = answers
    BY <1>7, FinishFacts
  <2> QED BY <1>3, <2>1
<1>8. CASE Quiet
  BY <1>3, <1>8 DEF Quiet
<1> QED BY <1>1, <1>2, <1>4, <1>5, <1>6, <1>7, <1>8, QuietSteps

LEMMA PlayedStep ==
  /\ TypeOK /\ TypeOK' /\ GamesExist /\ Mapping /\ Positions /\ Played
  /\ [Next]_vars
  => Played'
<1> SUFFICES ASSUME TypeOK, TypeOK', GamesExist, Mapping, Positions, Played,
                    [Next]_vars
             PROVE  Played'
  OBVIOUS
<1>0. /\ \A t \in Live : tables[t].game \in Games /\ stored[tables[t].game] # NoRow
      /\ \A g \in Games : stored[g] # NoRow /\ Answered(g) => Answered(g)'
      /\ opening # NotOpening =>
           opening.game \in Games /\ stored[opening.game] # NoRow
  BY AnsweredStays, OpeningHasNoTable DEF Live, TypeOK, Tables, GamesExist
(* A step that makes no game ACTIVE, reads none and lets no table play.    *)
<1>1. ASSUME \A g \in Games :
               stored'[g] # NoRow /\ stored'[g].status = "ACTIVE" =>
                 Answered(g)',
             opening' \in {opening, NotOpening},
             \A t \in Live' : /\ t \in Live /\ tables'[t].game = tables[t].game
                              /\ Playing(t)' => Playing(t)
      PROVE  Played'
  BY <1>0, <1>1 DEF Played
<1>2. ASSUME NEW g \in Games, NEW row \in NewRows, CreateGame(g, row)
      PROVE  Played'
  <2>1. /\ stored[g] = NoRow /\ stored'[g] = row
        /\ \A h \in Games : h # g => stored'[h] = stored[h]
        /\ UNCHANGED <<tables, opening>> /\ Live' = Live
    BY <1>2 DEF CreateGame, TypeOK, Live
  <2>2. row.status = "ACTIVE" => row.request = "none"
    BY NewRowsFacts
  <2>3. \A h \in Games : stored'[h] # NoRow /\ stored'[h].status = "ACTIVE" =>
          Answered(h)'
    BY <1>0, <2>1, <2>2 DEF Played, Answered
  <2> QED BY <1>1, <2>1, <2>3 DEF Playing
<1>3. ASSUME NEW g \in Games, NEW status \in {"ACCEPTED", "DENIED"},
             Answer(g, status)
      PROVE  Played'
  <2>1. /\ answers'[g] > 0
        /\ \A h \in Games : h # g => stored'[h] = stored[h]
        /\ UNCHANGED <<tables, opening>> /\ Live' = Live
    BY <1>3, AnswerFacts
  <2>2. \A h \in Games : stored'[h] # NoRow /\ stored'[h].status = "ACTIVE" =>
          Answered(h)'
    BY <1>0, <2>1 DEF Played, Answered
  <2> QED BY <1>1, <2>1, <2>2 DEF Playing
<1>4. ASSUME NEW g \in Games, NEW p \in Players, ReadGame(g, p)
      PROVE  Played'
  <2>1. /\ opening' = [game |-> g, player |-> p, row |-> stored[g]]
        /\ UNCHANGED <<stored, answers, tables>> /\ stored[g] # NoRow
    BY <1>4 DEF ReadGame, history, NoRow
  <2> QED BY <2>1 DEF Played, Playing, Answered, Live
<1>5. ASSUME CreateTable
      PROVE  Played'
  <2>0. PICK g \in Games : g = opening.game
    BY <1>5, OpeningHasNoTable DEF CreateTable
  <2> DEFINE row == FirstPosition(opening.row)
             u == made + 1
  <2>1. /\ opening' = NotOpening /\ opening # NotOpening
        /\ Live' = Live \union {u}
        /\ tables'[u] = NewTable(g, row)
        /\ \A t \in Live : tables'[t] = tables[t]
        /\ \A h \in Games : h # g => stored'[h] = stored[h]
        /\ stored'[g].status \in {stored[g].status, opening.row.status}
    BY <1>5, <2>0, CreateTableFacts DEF CreateTable
  <2>2. /\ NewTable(g, row).game = g /\ ~ NewTable(g, row).finishing
        /\ ~ NewTable(g, row).gameEnded => opening.row.status = "ACTIVE"
    BY <2>1, OpeningHasNoTable, FirstPositionType DEF NewTable
  <2>3. opening.row.status = "ACTIVE" => Answered(g)'
    BY <1>0, <2>0, <2>1 DEF Played
  <2>4. stored[g].status = "ACTIVE" => Answered(g)'
    BY <1>0, <2>0, <2>1 DEF Played
  <2> HIDE DEF row, u
  <2>5. \A h \in Games : stored'[h] # NoRow /\ stored'[h].status = "ACTIVE" =>
          Answered(h)'
    BY <1>0, <2>1, <2>3, <2>4 DEF Played
  <2>6. ASSUME NEW t \in Live', Playing(t)'
        PROVE  Answered(tables[t].game)'
    <3>1. CASE t = u
      BY <2>1, <2>2, <2>3, <2>6, <3>1 DEF Playing, Answered
    <3>2. CASE t \in Live
      <4>1. tables'[t] = tables[t] /\ Playing(t)
        BY <2>1, <2>6, <3>2 DEF Playing
      <4> QED BY <1>0, <3>2, <4>1 DEF Played, Answered
    <3> QED BY <2>1, <3>1, <3>2
  <2> QED BY <2>1, <2>5, <2>6 DEF Played
<1>6. ASSUME NEW t \in TableIds, NEW p \in Players, NEW pit \in LocalPits,
             Sow(t, p, pit)
      PROVE  Played'
  <2>1. \A h \in Games : stored'[h] # NoRow /\ stored'[h].status = "ACTIVE" =>
          Answered(h)'
    <3>1. \A h \in Games : /\ stored[h] = NoRow => stored'[h] = NoRow
                           /\ stored'[h].status = stored[h].status
      BY <1>6, SowFacts
    <3> QED BY <1>0, <3>1 DEF Played
  <2>2. /\ Live' = Live /\ opening' = opening /\ Playing(t)
        /\ tables'[t].game = tables[t].game
        /\ \A u \in Live : u # t => tables'[u] = tables[u]
    BY <1>6, SowFacts DEF Playing
  <2> QED BY <1>1, <2>1, <2>2 DEF Playing
<1>7. ASSUME NEW t \in TableIds, Finish(t)
      PROVE  Played'
  <2>1. \A h \in Games : stored'[h] # NoRow /\ stored'[h].status = "ACTIVE" =>
          Answered(h)'
    <3>1. \A h \in Games : stored'[h] = stored[h] \/ stored'[h].status = "FINISHED"
      BY <1>7, FinishFacts
    <3> QED BY <1>0, <3>1 DEF Played
  <2>2. /\ Live' = Live /\ opening' = opening /\ Playing(t)
        /\ tables'[t].game = tables[t].game
        /\ \A u \in Live : u # t => tables'[u] = tables[u]
    BY <1>7, FinishFacts DEF Playing
  <2> QED BY <1>1, <2>1, <2>2 DEF Playing
<1>8. CASE Quiet
  <2>1. \A h \in Games : stored'[h] # NoRow /\ stored'[h].status = "ACTIVE" =>
          Answered(h)'
    BY <1>0, <1>8 DEF Quiet, Played
  <2> QED BY <1>1, <1>8, <2>1 DEF Quiet, SameBoard, Playing
<1> QED BY <1>2, <1>3, <1>4, <1>5, <1>6, <1>7, <1>8, QuietSteps

LEMMA PlayedHold == Spec => []Played
<1>1. Init => Played
  BY DEF Init, Played, Live, NoRow
<1> QED BY <1>1, PlayedStep, TypesHold, MappingHolds, PositionsHold, PTL
        DEF Spec

-----------------------------------------------------------------------------
(* Results.  By rules that sweep the board a game that was counted for its *)
(* players has a position in which nobody can move, so that no table can   *)
(* count it again; and between updateGame and finishGame it has not been   *)
(* counted.                                                                *)

NobodyMoves(houses) == \A p \in Players : ~ CanPlayerMove(houses, p)

Uncounted(row) ==
  /\ row.counted = 0
  /\ row.winner = NoPlayer
  /\ row.status # "FINISHED"

WithResult(row) ==
  /\ row.counted = 1
  /\ row.state # NoState
  /\ row.winner = WinningPlayer(row.state)
  /\ row.result = "DRAW" <=> IsDraw(row.state)
  /\ NobodyMoves(row.state)

Results ==
  /\ \A g \in Games : stored[g] # NoRow =>
       \/ Uncounted(stored[g])
       \/ /\ WithResult(stored[g])
          /\ Answered(g)
          /\ stored[g].status = "FINISHED" \/ answers[g] > 1
  /\ opening # NotOpening =>
       /\ stored[opening.game].counted = opening.row.counted
       /\ stored[opening.game].winner = opening.row.winner
  /\ \A t \in Live : tables[t].finishing =>
       /\ tables[t].gameEnded
       /\ NobodyMoves(tables[t].houses)
       /\ Uncounted(stored[tables[t].game])

(* The mover's stones are there to be moved.                               *)
LEMMA MoverMoves ==
  ASSUME NEW houses \in [Houses -> Nat], NEW p \in Players,
         NEW pit \in LocalPits, houses[Pit(p, pit)] # 0
  PROVE  ~ NobodyMoves(houses)
BY PitType DEF NobodyMoves, CanPlayerMove

LEMMA DrawHasNoWinner ==
  ASSUME NEW houses \in [Houses -> Nat], IsDraw(houses)
  PROVE  WinningPlayer(houses) = NoPlayer
BY Layout DEF IsDraw, WinningPlayer, Players

LEMMA ResultsStep ==
  ASSUME EndGameSweepsBoard
  PROVE  /\ TypeOK /\ TypeOK' /\ GamesExist /\ Mapping /\ Positions /\ Played
         /\ Results /\ [Next]_vars
         => Results'
<1> SUFFICES ASSUME TypeOK, TypeOK', GamesExist, Mapping, Positions, Played,
                    Results, [Next]_vars
             PROVE  Results'
  OBVIOUS
<1>0. /\ \A t \in Live : tables[t].game \in Games /\ stored[tables[t].game] # NoRow
      /\ \A g \in Games : stored[g] # NoRow /\ Answered(g) => Answered(g)'
      /\ \A g \in Games : answers[g] \in Nat
      /\ opening # NotOpening =>
           opening.game \in Games /\ stored[opening.game] # NoRow
  BY AnsweredStays, OpeningHasNoTable, BoundsAssumption
     DEF Live, TypeOK, Tables, GamesExist
<1>1. ASSUME NEW g \in Games, NEW row \in NewRows, CreateGame(g, row)
      PROVE  Results'
  <2>1. /\ stored[g] = NoRow /\ stored'[g] = row
        /\ \A h \in Games : h # g => stored'[h] = stored[h]
        /\ UNCHANGED <<tables, opening, answers>> /\ Live' = Live
    BY <1>1 DEF CreateGame, TypeOK, Live, history
  <2>2. Uncounted(row)
    BY NewRowsFacts DEF Uncounted
  <2>3. \A h \in Games : h # g /\ Answered(h) => Answered(h)'
    BY <2>1 DEF Answered
  <2> QED BY <1>0, <2>1, <2>2, <2>3 DEF Results
<1>2. ASSUME NEW g \in Games, NEW status \in {"ACCEPTED", "DENIED"},
             Answer(g, status)
      PROVE  Results'
  <2>1. /\ stored[g] # NoRow /\ stored[g].request # "none"
        /\ stored'[g].status # "FINISHED"
        /\ stored'[g].state = stored[g].state
        /\ stored'[g].result = stored[g].result
        /\ stored'[g].winner = stored[g].winner
        /\ stored'[g].counted = stored[g].counted
        /\ \A h \in Games : h # g => stored'[h] = stored[h]
        /\ answers'[g] = answers[g] + 1
        /\ \A h \in Games : h # g => answers'[h] = answers[h]
        /\ UNCHANGED <<tables, opening>> /\ Live' = Live
    BY <1>2, AnswerFacts
  <2>2. Uncounted(stored[g]) => Uncounted(stored'[g])
    BY <2>1 DEF Uncounted
  <2>3. WithResult(stored[g]) => WithResult(stored'[g])
    BY <2>1 DEF WithResult
  <2>4. Answered(g) => answers'[g] > 1 /\ Answered(g)'
    BY <1>0, <2>1 DEF Answered
  <2>5. \A h \in Games : stored'[h] # NoRow =>
          \/ Uncounted(stored'[h])
          \/ /\ WithResult(stored'[h])
             /\ Answered(h)'
             /\ stored'[h].status = "FINISHED" \/ answers'[h] > 1
    BY <1>0, <2>1, <2>2, <2>3, <2>4 DEF Results
  <2>6. opening # NotOpening =>
          /\ stored'[opening.game].counted = opening.row.counted
          /\ stored'[opening.game].winner = opening.row.winner
    BY <1>0, <2>1 DEF Results
  <2>7. \A t \in Live : tables[t].finishing =>
          /\ tables[t].gameEnded
          /\ NobodyMoves(tables[t].houses)
          /\ Uncounted(stored'[tables[t].game])
    BY <1>0, <2>1, <2>2 DEF Results
  <2> QED BY <2>1, <2>5, <2>6, <2>7 DEF Results
<1>3. ASSUME NEW g \in Games, NEW p \in Players, ReadGame(g, p)
      PROVE  Results'
  <2>1. /\ opening' = [game |-> g, player |-> p, row |-> stored[g]]
        /\ UNCHANGED <<stored, answers, tables>> /\ Live' = Live
    BY <1>3 DEF ReadGame, history, Live
  <2> QED BY <2>1 DEF Results, Answered
<1>4. ASSUME CreateTable
      PROVE  Results'
  <2>0. PICK g \in Games : g = opening.game
    BY <1>4, OpeningHasNoTable DEF CreateTable
  <2> DEFINE row == FirstPosition(opening.row)
             u == made + 1
  <2>1. /\ opening' = NotOpening /\ opening # NotOpening
        /\ stored[g] # NoRow /\ stored'[g] # NoRow
        /\ Live' = Live \union {u}
        /\ tables'[u] = NewTable(g, row)
        /\ \A t \in Live : tables'[t] = tables[t]
        /\ \A h \in Games : h # g => stored'[h] = stored[h]
        /\ \/ opening.row.state # NoState /\ stored' = stored
           \/ /\ opening.row.state = NoState
              /\ stored'[g].status = opening.row.status
              /\ stored'[g].winner = opening.row.winner
              /\ stored'[g].counted = opening.row.counted
    BY <1>4, <2>0, CreateTableFacts, RowsStay DEF CreateTable, GamesExist
  <2>2. answers' = answers /\ ~ NewTable(g, row).finishing
    BY <1>4 DEF CreateTable, history, NewTable
  <2> HIDE DEF row, u
  <2>3. CASE stored' = stored
    <3>1. \A h \in Games : stored[h] # NoRow /\ Answered(h) => Answered(h)'
      BY <1>0
    <3> QED BY <2>1, <2>2, <2>3, <3>1 DEF Results
  <2>4. CASE opening.row.state = NoState /\ stored' # stored
    <3>1. stored[g].state = NoState
      BY <2>0, <2>1, <2>4 DEF Positions
    <3>2. Uncounted(stored[g])
      BY <2>1, <3>1 DEF Results, WithResult
    <3>3. /\ stored'[g].winner = NoPlayer /\ stored'[g].counted = 0
          /\ stored'[g].status # "FINISHED"
      BY <2>0, <2>1, <2>4, <3>2 DEF Results, Uncounted, GamesExist
    <3>4. Uncounted(stored'[g])
      BY <3>3 DEF Uncounted
    <3> QED BY <1>0, <2>1, <2>2, <3>4 DEF Results
  <2> QED BY <2>1, <2>3, <2>4
<1>5. ASSUME NEW t \in TableIds, NEW p \in Players, NEW pit \in LocalPits,
             Sow(t, p, pit)
      PROVE  Results'
  <2>0. PICK g \in Games : g = tables[t].game
    BY <1>5, SowFacts
  <2> DEFINE houses == AfterMove(tables[t].houses, p, pit)
             ends == EndsGame(tables[t].houses, p, pit)
  <2>1. /\ t \in Live /\ tables[t].state = "OPEN"
        /\ stored[g] # NoRow
        /\ tables[t].houses \in [Houses -> Nat]
        /\ tables[t].houses[Pit(p, pit)] # 0
        /\ stored'[g].status = stored[g].status
        /\ stored'[g].winner = stored[g].winner
        /\ stored'[g].counted = stored[g].counted
        /\ \A h \in Games : h # g => stored'[h] = stored[h]
    BY <1>5, <2>0, SowFacts
  <2>2. /\ Live' = Live
        /\ \A u \in Live : u # t => tables'[u] = tables[u]
        /\ \A u \in Live :
             tables[u].state = "OPEN" /\ tables[u].game = g => u = t
        /\ opening # NotOpening => opening.game # g
        /\ tables'[t].game = g
        /\ tables'[t].houses = houses
        /\ tables'[t].gameEnded = ends
        /\ tables'[t].finishing = ends
        /\ UNCHANGED <<opening, answers>>
    BY <1>5, <2>0, SowFacts
  <2>3. ends => NobodyMoves(houses)
    BY <2>1, SweptAtTheEnd DEF NobodyMoves
  <2>4. ~ NobodyMoves(stored[g].state)
    BY <2>0, <2>1, MoverMoves DEF Positions, StoredIsPlayed
  <2>5. Uncounted(stored[g])
    BY <2>1, <2>4 DEF Results, WithResult
  <2>6. Uncounted(stored'[g])
    BY <2>1, <2>5 DEF Uncounted
  <2> HIDE DEF houses, ends
  <2>7. \A u \in Live : tables'[u].finishing =>
          /\ tables'[u].gameEnded
          /\ NobodyMoves(tables'[u].houses)
          /\ Uncounted(stored'[tables'[u].game])
    <3> SUFFICES ASSUME NEW u \in Live, tables'[u].finishing
                 PROVE  /\ tables'[u].gameEnded
                        /\ NobodyMoves(tables'[u].houses)
                        /\ Uncounted(stored'[tables'[u].game])
      OBVIOUS
    <3>1. CASE u = t
      BY <2>2, <2>3, <2>6, <3>1
    <3>2. CASE u # t
      <4>1. tables'[u] = tables[u]
        BY <2>2, <3>2
      <4> QED BY <1>0, <2>1, <2>6, <4>1 DEF Results
    <3> QED BY <3>1, <3>2
  <2>8. \A h \in Games : h # g => stored'[h] = stored[h] /\ (Answered(h) => Answered(h)')
    BY <2>1, <2>2 DEF Answered
  <2> QED BY <1>0, <2>1, <2>2, <2>6, <2>7, <2>8 DEF Results
<1>6. ASSUME NEW t \in TableIds, Finish(t)
      PROVE  Results'
  <2>0. PICK g \in Games : g = tables[t].game
    BY <1>6, FinishFacts
  <2>1. /\ t \in Live /\ tables[t].state = "OPEN" /\ tables[t].finishing
        /\ stored[g] # NoRow
        /\ tables[t].houses \in [Houses -> Nat]
        /\ stored'[g].state = stored[g].state
        /\ stored'[g].status = "FINISHED"
        /\ stored'[g].result = IF IsDraw(tables[t].houses) THEN "DRAW" ELSE "WIN"
        /\ stored'[g].winner = IF IsDraw(tables[t].houses) THEN stored[g].winner
                               ELSE WinningPlayer(tables[t].houses)
        /\ stored'[g].counted = stored[g].counted + 1
        /\ \A h \in Games : h # g => stored'[h] = stored[h]
    BY <1>6, <2>0, FinishFacts
  <2>2. /\ Live' = Live
        /\ \A u \in Live : u # t => tables'[u] = tables[u]
        /\ \A u \in Live :
             tables[u].state = "OPEN" /\ tables[u].game = g => u = t
        /\ opening # NotOpening => opening.game # g
        /\ tables'[t].finishing = FALSE
        /\ UNCHANGED <<opening, answers>>
    BY <1>6, <2>0, FinishFacts
  <2>3. stored[g].state = tables[t].houses
    BY <2>0, <2>1 DEF Positions, StoredIsPlayed
  <2>4. NobodyMoves(tables[t].houses) /\ Uncounted(stored[g])
    BY <2>0, <2>1 DEF Results
  <2>5. WithResult(stored'[g])
    BY <2>1, <2>3, <2>4, NoStateIsNoPosition, DrawHasNoWinner
       DEF WithResult, Uncounted
  <2>6. Answered(g)'
    BY <1>0, <2>0, <2>1 DEF Played, Playing
  <2>7. \A u \in Live : tables'[u].finishing =>
          /\ tables'[u].gameEnded
          /\ NobodyMoves(tables'[u].houses)
          /\ Uncounted(stored'[tables'[u].game])
    <3> SUFFICES ASSUME NEW u \in Live, tables'[u].finishing
                 PROVE  /\ tables'[u].gameEnded
                        /\ NobodyMoves(tables'[u].houses)
                        /\ Uncounted(stored'[tables'[u].game])
      OBVIOUS
    <3>1. u # t /\ tables'[u] = tables[u]
      BY <2>2
    <3>2. tables[u].game # g
      BY <2>2, <3>1 DEF Mapping
    <3> QED BY <1>0, <2>1, <3>1, <3>2 DEF Results
  <2>8. \A h \in Games : h # g => stored'[h] = stored[h] /\ (Answered(h) => Answered(h)')
    BY <2>1, <2>2 DEF Answered
  <2> QED BY <1>0, <2>1, <2>2, <2>5, <2>6, <2>7, <2>8 DEF Results
<1>7. CASE Quiet
  <2>1. \A h \in Games : Answered(h) => Answered(h)'
    BY <1>7 DEF Quiet, Answered
  <2> QED BY <1>0, <1>7, <2>1 DEF Quiet, SameBoard, Results
<1> QED BY <1>1, <1>2, <1>3, <1>4, <1>5, <1>6, <1>7, QuietSteps

LEMMA ResultsHold ==
  ASSUME EndGameSweepsBoard
  PROVE  Spec => []Results
<1>1. Init => Results
  BY DEF Init, Results, Live, NoRow, Uncounted
<1>2. /\ TypeOK /\ TypeOK' /\ GamesExist /\ Mapping /\ Positions /\ Played
      /\ Results /\ [Next]_vars
      => Results'
  BY ResultsStep
<1> QED BY <1>1, <1>2, TypesHold, MappingHolds, PositionsHold, PlayedHold, PTL
        DEF Spec

(* By rules that sweep the board, as DefaultRules do, a finished game has  *)
(* the result of its last position and is counted once for its players,    *)
(* even when an answer delivered again reopens it.                         *)
THEOREM GamesFinishOnce == EndGameSweepsBoard => (Spec => []FinishedOnce)
<1> SUFFICES ASSUME EndGameSweepsBoard
             PROVE  Spec => []FinishedOnce
  OBVIOUS
<1>1. TypeOK /\ Results => FinishedOnce
  BY DEF TypeOK, Results, FinishedOnce, Uncounted, WithResult, NobodyMoves
<1> QED BY <1>1, TypesHold, ResultsHold, PTL

-----------------------------------------------------------------------------
(* The player to act.  By rules that sweep the board, and end the game     *)
(* with the stones of one player if the last of them can be stolen, the    *)
(* stored position of a game that is not counted gives a move to the       *)
(* player whose turn is stored, but for the time between updateGame and    *)
(* finishGame: a table is at that point, or a crash was ("torn").          *)

Turn(row) == IF row.ownersMove THEN SOUTH ELSE NORTH

Playable ==
  /\ \A g \in Games :
       /\ stored[g] # NoRow /\ stored[g].state # NoState
       /\ stored[g].counted = 0 /\ g \notin torn
       /\ \A t \in Live : tables[t].finishing => tables[t].game # g
       => CanPlayerMove(stored[g].state, Turn(stored[g]))
  /\ \A t \in Live :
       /\ tables[t].state = "OPEN" /\ tables[t].madeFor = "ACTIVE"
       /\ tables[t].gameEnded /\ ~ tables[t].finishing
       => stored[tables[t].game].counted # 0

LEMMA PlayableStep ==
  ASSUME EndGameSweepsBoard, StealingEndsTheGame
  PROVE  /\ TypeOK /\ TypeOK' /\ GamesExist /\ Mapping /\ Positions
         /\ Results /\ Playable /\ [Next]_vars
         => Playable'
<1> SUFFICES ASSUME TypeOK, TypeOK', GamesExist, Mapping, Positions,
                    Results, Playable, [Next]_vars
             PROVE  Playable'
  OBVIOUS
<1>0. \A t \in Live : tables[t].game \in Games /\ stored[tables[t].game] # NoRow
  BY DEF Live, TypeOK, Tables, GamesExist
<1>1. ASSUME NEW g \in Games, NEW row \in NewRows, CreateGame(g, row)
      PROVE  Playable'
  <2>1. /\ stored[g] = NoRow /\ stored'[g] = row
        /\ \A h \in Games : h # g => stored'[h] = stored[h]
        /\ UNCHANGED <<tables, torn>> /\ Live' = Live
    BY <1>1 DEF CreateGame, TypeOK, Live, history
  <2>2. row.state # NoState => CanPlayerMove(row.state, Turn(row))
    BY NewRowsFacts, InitCanMove, StonesAssumption DEF Turn, Players
  <2> QED BY <1>0, <2>1, <2>2 DEF Playable
<1>2. ASSUME NEW g \in Games, NEW status \in {"ACCEPTED", "DENIED"},
             Answer(g, status)
      PROVE  Playable'
  <2>1. /\ stored[g] # NoRow
        /\ stored'[g].state = stored[g].state
        /\ stored'[g].ownersMove = stored[g].ownersMove
        /\ stored'[g].counted = stored[g].counted
        /\ \A h \in Games : h # g => stored'[h] = stored[h]
        /\ UNCHANGED <<tables, torn>> /\ Live' = Live
    BY <1>2, AnswerFacts
  <2>2. Turn(stored'[g]) = Turn(stored[g])
    BY <2>1 DEF Turn
  <2> QED BY <1>0, <2>1, <2>2 DEF Playable
<1>3. ASSUME NEW g \in Games, NEW p \in Players, ReadGame(g, p)
      PROVE  Playable'
  BY <1>3 DEF ReadGame, Playable, history, Live
<1>4. ASSUME CreateTable
      PROVE  Playable'
  <2>0. PICK g \in Games : g = opening.game
    BY <1>4, OpeningHasNoTable DEF CreateTable
  <2> DEFINE row == FirstPosition(opening.row)
             u == made + 1
  <2>1. /\ opening # NotOpening /\ stored[g] # NoRow
        /\ Live' = Live \union {u} /\ u \notin Live
        /\ tables'[u] = NewTable(g, row)
        /\ \A t \in Live : tables'[t] = tables[t]
        /\ \A h \in Games : h # g => stored'[h] = stored[h]
        /\ \/ stored' = stored
           \/ /\ opening.row.state = NoState
              /\ stored'[g].state = InitHouses(InitStones)
              /\ stored'[g].ownersMove
              /\ stored'[g].counted = opening.row.counted
    BY <1>4, <2>0, CreateTableFacts DEF CreateTable, GamesExist
  <2>2. /\ torn' = torn
        /\ ~ NewTable(g, row).finishing
        /\ NewTable(g, row).madeFor = "ACTIVE" => ~ NewTable(g, row).gameEnded
    BY <1>4 DEF CreateTable, history, NewTable
  <2> HIDE DEF row, u
  <2>3. stored' = stored \/ CanPlayerMove(stored'[g].state, Turn(stored'[g]))
    BY <2>1, InitCanMove, StonesAssumption DEF Turn, Players
  <2>4. stored'[g].counted = stored[g].counted
    BY <2>0, <2>1 DEF Results
  <2>5. \A h \in Games :
          /\ stored'[h] # NoRow /\ stored'[h].state # NoState
          /\ stored'[h].counted = 0 /\ h \notin torn
          /\ \A t \in Live' : tables'[t].finishing => tables'[t].game # h
          => CanPlayerMove(stored'[h].state, Turn(stored'[h]))
    BY <2>1, <2>3 DEF Playable
  <2>6. \A t \in Live' :
          /\ tables'[t].state = "OPEN" /\ tables'[t].madeFor = "ACTIVE"
          /\ tables'[t].gameEnded /\ ~ tables'[t].finishing
          => stored'[tables'[t].game].counted # 0
    BY <1>0, <2>1, <2>2, <2>4 DEF Playable
  <2> QED BY <2>2, <2>5, <2>6 DEF Playable
<1>5. ASSUME NEW t \in TableIds, NEW p \in Players, NEW pit \in LocalPits,
             Sow(t, p, pit)
      PROVE  Playable'
  <2>0. PICK g \in Games : g = tables[t].game
    BY <1>5, SowFacts
  <2> DEFINE houses == AfterMove(tables[t].houses, p, pit)
             player == NextPlayer(tables[t].houses, p, pit)
             ends == EndsGame(tables[t].houses, p, pit)
  <2>1. /\ t \in Live
        /\ tables[t].houses \in [Houses -> Nat]
        /\ tables[t].houses[Pit(p, pit)] # 0
        /\ stored[g] # NoRow
        /\ stored'[g].state = houses
        /\ stored'[g].ownersMove = (player = SOUTH)
        /\ stored'[g].counted = stored[g].counted
        /\ \A h \in Games : h # g => stored'[h] = stored[h]
    BY <1>5, <2>0, SowFacts
  <2>2. /\ Live' = Live
        /\ \A u \in Live : u # t => tables'[u] = tables[u]
        /\ tables'[t].game = g
        /\ tables'[t].gameEnded = ends
        /\ tables'[t].finishing = ends
        /\ torn' = torn
    BY <1>5, <2>0, SowFacts
  <2>3. player \in Players
    BY <2>1, AfterMoveType
  <2>4. Turn(stored'[g]) = player
    BY <2>1, <2>3 DEF Turn, Players, SOUTH, NORTH
  <2>5. ends \/ CanPlayerMove(stored'[g].state, Turn(stored'[g]))
    BY <2>1, <2>4, NextCanMove
  <2> HIDE DEF houses, player, ends
  <2>6. ASSUME NEW h \in Games,
               stored'[h] # NoRow, stored'[h].state # NoState,
               stored'[h].counted = 0, h \notin torn,
               \A u \in Live : tables'[u].finishing => tables'[u].game # h
        PROVE  CanPlayerMove(stored'[h].state, Turn(stored'[h]))
    <3>1. CASE h = g
      BY <2>1, <2>2, <2>5, <2>6, <3>1
    <3>2. CASE h # g
      <4>1. \A u \in Live : tables[u].finishing => tables[u].game # h
        BY <2>0, <2>2, <2>6, <3>2
      <4> QED BY <2>1, <2>6, <3>2, <4>1 DEF Playable
    <3> QED BY <3>1, <3>2
  <2>7. \A u \in Live :
          /\ tables'[u].state = "OPEN" /\ tables'[u].madeFor = "ACTIVE"
          /\ tables'[u].gameEnded /\ ~ tables'[u].finishing
          => stored'[tables'[u].game].counted # 0
    BY <1>0, <2>1, <2>2 DEF Playable
  <2> QED BY <2>2, <2>6, <2>7 DEF Playable
<1>6. ASSUME NEW t \in TableIds, Finish(t)
      PROVE  Playable'
  <2>0. PICK g \in Games : g = tables[t].game
    BY <1>6, FinishFacts
  <2>1. /\ t \in Live /\ tables[t].finishing
        /\ stored'[g].counted = stored[g].counted + 1
        /\ \A h \in Games : h # g => stored'[h] = stored[h]
        /\ Live' = Live
        /\ \A u \in Live : u # t => tables'[u] = tables[u]
        /\ tables'[t].game = g
        /\ torn' = torn
    BY <1>6, <2>0, FinishFacts
  <2>2. stored'[g].counted # 0
    BY <2>0, <2>1 DEF Results, Uncounted
  <2>3. ASSUME NEW h \in Games,
               stored'[h] # NoRow, stored'[h].state # NoState,
               stored'[h].counted = 0, h \notin torn,
               \A u \in Live : tables'[u].finishing => tables'[u].game # h
        PROVE  CanPlayerMove(stored'[h].state, Turn(stored'[h]))
    <3>1. h # g /\ stored'[h] = stored[h]
      BY <2>1, <2>2, <2>3
    <3>2. \A u \in Live : tables[u].finishing => tables[u].game # h
      BY <2>0, <2>1, <2>3, <3>1
    <3> QED BY <2>3, <3>1, <3>2 DEF Playable
  <2>4. \A u \in Live :
          /\ tables'[u].state = "OPEN" /\ tables'[u].madeFor = "ACTIVE"
          /\ tables'[u].gameEnded /\ ~ tables'[u].finishing
          => stored'[tables'[u].game].counted # 0
    BY <1>0, <2>1, <2>2 DEF Playable
  <2> QED BY <2>1, <2>3, <2>4 DEF Playable
<1>7. CASE Quiet
  <2>1. ASSUME NEW h \in Games, h \notin torn',
               \A t \in Live' : tables'[t].finishing => tables'[t].game # h
        PROVE  h \notin torn
               /\ \A t \in Live : tables[t].finishing => tables[t].game # h
    BY <1>7, <2>1 DEF Quiet, SameBoard
  <2>2. stored' = stored
    BY <1>7 DEF Quiet
  <2>3. \A t \in Live' :
          /\ tables'[t].state = "OPEN" /\ tables'[t].madeFor = "ACTIVE"
          /\ tables'[t].gameEnded /\ ~ tables'[t].finishing
          => stored[tables'[t].game].counted # 0
    BY <1>7 DEF Quiet, SameBoard, Playable
  <2> QED BY <2>1, <2>2, <2>3 DEF Playable
<1> QED BY <1>1, <1>2, <1>3, <1>4, <1>5, <1>6, <1>7, QuietSteps

(* By rules that sweep the board and end the game when a player has no     *)
(* stones left, as DefaultRules do, the player to act at the open table of *)
(* an ACTIVE game has a move, with the three exceptions of the property.   *)
THEOREM ActiveGamesArePlayable ==
  EndGameSweepsBoard /\ StealingEndsTheGame => (Spec => []ActiveIsPlayable)
<1> SUFFICES ASSUME EndGameSweepsBoard, StealingEndsTheGame
             PROVE  Spec => []ActiveIsPlayable
  OBVIOUS
<1>1. Init => Playable
  BY DEF Init, Playable, Live, NoRow
<1>2. /\ TypeOK /\ TypeOK' /\ GamesExist /\ Mapping /\ Positions
      /\ Results /\ Playable /\ [Next]_vars
      => Playable'
  BY PlayableStep
<1>3. TypeOK /\ GamesExist /\ Mapping /\ Positions /\ Results /\ Playable
      => ActiveIsPlayable
  <2> SUFFICES ASSUME TypeOK, GamesExist, Mapping, Positions, Results, Playable,
                      NEW t \in Live, NEW g \in Games, g = tables[t].game,
                      tables[t].state = "OPEN", stored[g].status = "ACTIVE",
                      tables[t].madeFor = "ACTIVE",
                      g \notin torn, answers[g] <= 1, ~ tables[t].finishing
               PROVE  /\ ~ tables[t].gameEnded
                      /\ CanPlayerMove(tables[t].houses, tables[t].playerToAct)
    BY DEF ActiveIsPlayable, Live, TypeOK, Tables
  <2>1. /\ t \in TableIds /\ tables[t].houses \in [Houses -> Nat]
        /\ tables[t].playerToAct \in Players
    BY DEF Live, TypeOK, Tables
  <2>2. stored[g] # NoRow /\ answers[g] \in Nat
    BY BoundsAssumption DEF GamesExist, TypeOK
  <2>3. Uncounted(stored[g])
    BY <2>2 DEF Results
  <2>4. /\ stored[g].state = tables[t].houses
        /\ Turn(stored[g]) = tables[t].playerToAct
    BY <2>1 DEF Positions, StoredIsPlayed, Turn, Players, SOUTH, NORTH
  <2>5. \A u \in Live : tables[u].finishing => tables[u].game # g
    BY <2>1 DEF Mapping, MapsAgree, Live
  <2> QED BY <2>1, <2>2, <2>3, <2>4, <2>5, NoStateIsNoPosition
          DEF Playable, Uncounted
<1> QED BY <1>1, <1>2, <1>3, TypesHold, MappingHolds, PositionsHold,
           ResultsHold, PTL DEF Spec

-----------------------------------------------------------------------------
(* The stored game is one game by the rules: SavedGame implements          *)
(* KalahaBoard.  Its rules are those of the server; the instance has its   *)
(* own copy of each operator, for the prover another one.                  *)

LEMMA SameRules ==
  ASSUME NEW g
  PROVE  /\ SavedGame(g)!Players = Players
         /\ SavedGame(g)!LocalPits = LocalPits
         /\ SavedGame(g)!InitHouses(InitStones) = InitHouses(InitStones)
         /\ \A houses, p, pit :
              /\ SavedGame(g)!Pit(p, pit) = Pit(p, pit)
              /\ SavedGame(g)!AfterMove(houses, p, pit) = AfterMove(houses, p, pit)
              /\ SavedGame(g)!NextPlayer(houses, p, pit)
                   = NextPlayer(houses, p, pit)
              /\ SavedGame(g)!EndsGame(houses, p, pit) = EndsGame(houses, p, pit)
<1>1. /\ SavedGame(g)!SOUTH = SOUTH /\ SavedGame(g)!NORTH = NORTH
      /\ SavedGame(g)!Players = Players
      /\ SavedGame(g)!LocalPits = LocalPits
      /\ SavedGame(g)!NumberOfHouses = NumberOfHouses
      /\ SavedGame(g)!Houses = Houses
      /\ SavedGame(g)!Lap = Lap
  BY DEF SavedGame!SOUTH, SOUTH, SavedGame!NORTH, NORTH,
         SavedGame!Players, Players, SavedGame!LocalPits, LocalPits,
         SavedGame!NumberOfHouses, NumberOfHouses, SavedGame!Houses, Houses,
         SavedGame!Lap, Lap
<1>2. \A p : SavedGame(g)!FirstPit(p) = FirstPit(p)
  BY <1>1 DEF SavedGame!FirstPit, FirstPit
<1>3. \A p : SavedGame(g)!Kalaha(p) = Kalaha(p)
  BY <1>2 DEF SavedGame!Kalaha, Kalaha
<1>4. \A p, pit : SavedGame(g)!Pit(p, pit) = Pit(p, pit)
  BY <1>2 DEF SavedGame!Pit, Pit
<1>5. \A p : SavedGame(g)!MyPits(p) = MyPits(p)
  BY <1>2, <1>3 DEF SavedGame!MyPits, MyPits
<1>6. \A p : SavedGame(g)!Opponent(p) = Opponent(p)
  BY <1>1 DEF SavedGame!Opponent, Opponent
<1>7. \A p, h : SavedGame(g)!Opposite(p, h) = Opposite(p, h)
  BY <1>2, <1>4, <1>6 DEF SavedGame!Opposite, Opposite
<1>8. \A houses : SavedGame(g)!StonesBefore(houses) = StonesBefore(houses)
  BY <1>1 DEF SavedGame!StonesBefore, StonesBefore
<1>9. \A houses, p :
        SavedGame(g)!StonesInPits(houses, p) = StonesInPits(houses, p)
  BY <1>2, <1>3, <1>8 DEF SavedGame!StonesInPits, StonesInPits
<1>10. \A houses, p :
         SavedGame(g)!CanPlayerMove(houses, p) = CanPlayerMove(houses, p)
  BY <1>5 DEF SavedGame!CanPlayerMove, CanPlayerMove
<1>11. SavedGame(g)!InitHouses(InitStones) = InitHouses(InitStones)
  BY <1>1, <1>3 DEF SavedGame!InitHouses, InitHouses
<1>12. \A p, pit, k : SavedGame(g)!SowHouse(p, pit, k) = SowHouse(p, pit, k)
  BY <1>1, <1>2 DEF SavedGame!SowHouse, SowHouse
<1>13. \A houses, p, pit, k :
         SavedGame(g)!Sown(houses, p, pit, k) = Sown(houses, p, pit, k)
  <2> TAKE houses, p, pit, k
  <2> DEFINE mine(h) == {j \in 1 .. k : SavedGame(g)!SowHouse(p, pit, j) = h}
             theirs(h) == {j \in 1 .. k : SowHouse(p, pit, j) = h}
  <2>1. \A h : mine(h) = theirs(h)
    BY <1>12
  <2>2. \A S : SavedGame(g)!Cardinality(S) = Cardinality(S)
    BY DEF SavedGame!Cardinality, Cardinality
  <2>3. SavedGame(g)!Sown(houses, p, pit, k)
          = [h \in SavedGame(g)!Houses |->
               (IF h = SavedGame(g)!Pit(p, pit) THEN 0 ELSE houses[h])
                 + SavedGame(g)!Cardinality(mine(h))]
    BY DEF SavedGame!Sown
  <2>4. Sown(houses, p, pit, k)
          = [h \in Houses |->
               (IF h = Pit(p, pit) THEN 0 ELSE houses[h])
                 + Cardinality(theirs(h))]
    BY DEF Sown
  <2> HIDE DEF mine, theirs
  <2> QED BY <1>1, <1>4, <2>1, <2>2, <2>3, <2>4
<1>14. \A houses, p, last :
         SavedGame(g)!Steals(houses, p, last) = Steals(houses, p, last)
  BY <1>5, <1>7 DEF SavedGame!Steals, Steals
<1>15. \A houses, p, last :
         SavedGame(g)!DropLast(houses, p, last) = DropLast(houses, p, last)
  BY <1>3, <1>7, <1>14 DEF SavedGame!DropLast, DropLast
<1>16. \A houses, p, pit :
         SavedGame(g)!AfterSowing(houses, p, pit) = AfterSowing(houses, p, pit)
  BY <1>4, <1>12, <1>13, <1>15 DEF SavedGame!AfterSowing, AfterSowing
<1>17. \A houses, p, pit :
         SavedGame(g)!NextPlayer(houses, p, pit) = NextPlayer(houses, p, pit)
  BY <1>3, <1>4, <1>6, <1>12 DEF SavedGame!NextPlayer, NextPlayer
<1>18. \A houses, p, toAct :
         SavedGame(g)!IsEnd(houses, p, toAct) = IsEnd(houses, p, toAct)
  BY <1>6, <1>10 DEF SavedGame!IsEnd, IsEnd
<1>19. \A houses, p : SavedGame(g)!LastOwner(houses, p) = LastOwner(houses, p)
  BY <1>6, <1>10 DEF SavedGame!LastOwner, LastOwner
<1>20. \A houses, p :
         SavedGame(g)!EndTransfer(houses, p) = EndTransfer(houses, p)
  BY <1>1, <1>3, <1>5, <1>9 DEF SavedGame!EndTransfer, EndTransfer
<1>21. \A houses, p, pit :
         SavedGame(g)!EndsGame(houses, p, pit) = EndsGame(houses, p, pit)
  BY <1>16, <1>17, <1>18 DEF SavedGame!EndsGame, EndsGame
<1>22. \A houses, p, pit :
         SavedGame(g)!AfterMove(houses, p, pit) = AfterMove(houses, p, pit)
  BY <1>16, <1>19, <1>20, <1>21 DEF SavedGame!AfterMove, AfterMove
<1> QED BY <1>1, <1>4, <1>11, <1>17, <1>21, <1>22

(* The stored turn of a game, SOUTH's before there is a row.               *)
StoredTurn(g) ==
  IF stored[g] = NoRow \/ stored[g].ownersMove THEN SOUTH ELSE NORTH

LEMMA SavedGameStays ==
  ASSUME NEW g \in Games,
         Position(g)' = Position(g), StoredTurn(g)' = StoredTurn(g)
  PROVE  UNCHANGED SavedGame(g)!vars
<1>1. (\A p \in Players : ~ CanPlayerMove(Position(g), p))'
        = \A p \in Players : ~ CanPlayerMove(Position(g), p)
  OBVIOUS
<1> QED BY <1>1 DEF SavedGame!vars, StoredTurn

(* What doKalahaAction saves is a move of the saved game.                  *)
LEMMA SowIsMove ==
  ASSUME EndGameSweepsBoard, StealingEndsTheGame,
         TypeOK, TypeOK', GamesExist, Mapping, Positions,
         NEW t \in TableIds, NEW p \in Players, NEW pit \in LocalPits,
         Sow(t, p, pit),
         NEW g \in Games, g = tables[t].game
  PROVE  SavedGame(g)!MoveStones(pit, p)
<1> DEFINE houses == tables[t].houses
           after == AfterMove(houses, p, pit)
           next == NextPlayer(houses, p, pit)
           ends == EndsGame(houses, p, pit)
<1>1. /\ t \in Live /\ tables[t].state = "OPEN" /\ tables[t].playerToAct = p
      /\ stored[g] # NoRow
      /\ houses \in [Houses -> Nat] /\ houses[Pit(p, pit)] # 0
      /\ stored'[g].state = after /\ stored'[g].ownersMove = (next = SOUTH)
      /\ after \in [Houses -> Nat]
  BY SowFacts
<1>2. stored'[g] # NoRow
  BY <1>1, RowsStay DEF Next
<1>3. next \in Players /\ ends \in BOOLEAN
  BY <1>1, AfterMoveType
<1>4. ends => NobodyMoves(after)
  BY <1>1, SweptAtTheEnd DEF NobodyMoves
<1>5. ~ ends => ~ NobodyMoves(after)
  BY <1>1, <1>3, NextCanMove DEF NobodyMoves
<1>6. ~ NobodyMoves(houses)
  BY <1>1, MoverMoves
<1>7. stored[g].state = houses /\ stored[g].ownersMove = (p = SOUTH)
  BY <1>1 DEF Positions, StoredIsPlayed
<1> HIDE DEF houses, after, next, ends
<1>8. Position(g) = houses /\ StoredTurn(g) = p
  BY <1>1, <1>7, NoStateIsNoPosition
     DEF Position, StoredTurn, Players, SOUTH, NORTH
<1>9. Position(g)' = after /\ StoredTurn(g)' = next
  BY <1>1, <1>2, <1>3, NoStateIsNoPosition
     DEF Position, StoredTurn, Players, SOUTH, NORTH
<1>10. ~ \A q \in Players : ~ CanPlayerMove(Position(g), q)
  BY <1>6, <1>8 DEF NobodyMoves
<1>11. (\A q \in Players : ~ CanPlayerMove(Position(g), q))' = ends
  BY <1>3, <1>4, <1>5, <1>9 DEF NobodyMoves
<1>12. /\ SavedGame(g)!Pit(p, pit) = Pit(p, pit)
       /\ SavedGame(g)!AfterMove(houses, p, pit) = after
       /\ SavedGame(g)!NextPlayer(houses, p, pit) = next
       /\ SavedGame(g)!EndsGame(houses, p, pit) = ends
  BY SameRules DEF after, next, ends
<1>13. /\ houses[Pit(p, pit)] # 0
       /\ (IF stored[g] = NoRow \/ stored[g].ownersMove THEN SOUTH ELSE NORTH) = p
       /\ (IF stored'[g] = NoRow \/ stored'[g].ownersMove THEN SOUTH ELSE NORTH)
            = next
  BY <1>1, <1>8, <1>9 DEF StoredTurn, houses
<1> QED BY <1>8, <1>9, <1>10, <1>11, <1>12, <1>13 DEF SavedGame!MoveStones

LEMMA SavedGameStep ==
  ASSUME EndGameSweepsBoard, StealingEndsTheGame,
         TypeOK, TypeOK', GamesExist, Mapping, Positions, [Next]_vars,
         NEW g \in Games
  PROVE  [SavedGame(g)!Next]_(SavedGame(g)!vars)
<1>1. ASSUME NEW h \in Games, NEW row \in NewRows, CreateGame(h, row)
      PROVE  Position(g)' = Position(g) /\ StoredTurn(g)' = StoredTurn(g)
  <2>1. /\ stored[h] = NoRow /\ stored'[h] = row
        /\ \A k \in Games : k # h => stored'[k] = stored[k]
    BY <1>1 DEF CreateGame, TypeOK
  <2> QED BY <2>1, NewRowsFacts DEF Position, StoredTurn
<1>2. ASSUME NEW h \in Games, NEW status \in {"ACCEPTED", "DENIED"},
             Answer(h, status)
      PROVE  Position(g)' = Position(g) /\ StoredTurn(g)' = StoredTurn(g)
  <2>1. /\ stored[h] # NoRow
        /\ stored'[h].state = stored[h].state
        /\ stored'[h].ownersMove = stored[h].ownersMove
        /\ \A k \in Games : k # h => stored'[k] = stored[k]
    BY <1>2, AnswerFacts
  <2>2. stored'[h] # NoRow
    BY <2>1, RowsStay
  <2> QED BY <2>1, <2>2 DEF Position, StoredTurn
<1>3. ASSUME NEW h \in Games, NEW p \in Players, ReadGame(h, p)
      PROVE  Position(g)' = Position(g) /\ StoredTurn(g)' = StoredTurn(g)
  BY <1>3 DEF ReadGame, Position, StoredTurn
<1>4. ASSUME CreateTable
      PROVE  Position(g)' = Position(g) /\ StoredTurn(g)' = StoredTurn(g)
  <2>0. PICK h \in Games : h = opening.game
    BY <1>4, OpeningHasNoTable DEF CreateTable
  <2>1. /\ opening # NotOpening
        /\ stored[h] # NoRow
        /\ stored[h].state = opening.row.state
        /\ stored[h].ownersMove = opening.row.ownersMove
        /\ \A k \in Games : k # h => stored'[k] = stored[k]
        /\ \/ stored' = stored
           \/ /\ opening.row.state = NoState
              /\ stored'[h].state = InitHouses(InitStones)
              /\ stored'[h].ownersMove
    BY <1>4, <2>0, CreateTableFacts DEF CreateTable, GamesExist, Positions
  <2>2. stored'[h] # NoRow
    BY <2>1, RowsStay
  <2> QED BY <2>1, <2>2 DEF Positions, Position, StoredTurn
<1>5. ASSUME NEW t \in TableIds, NEW p \in Players, NEW pit \in LocalPits,
             Sow(t, p, pit)
      PROVE  [SavedGame(g)!Next]_(SavedGame(g)!vars)
  <2>1. CASE g = tables[t].game
    <3>1. SavedGame(g)!MoveStones(pit, p)
      BY <1>5, <2>1, SowIsMove
    <3> QED BY <3>1, SameRules DEF SavedGame!Next
  <2>2. CASE g # tables[t].game
    <3>1. stored'[g] = stored[g]
      BY <1>5, <2>2, SowFacts
    <3>2. Position(g)' = Position(g) /\ StoredTurn(g)' = StoredTurn(g)
      BY <3>1 DEF Position, StoredTurn
    <3> QED BY <3>2, SavedGameStays
  <2> QED BY <2>1, <2>2
<1>6. ASSUME NEW t \in TableIds, Finish(t)
      PROVE  Position(g)' = Position(g) /\ StoredTurn(g)' = StoredTurn(g)
  <2>0. PICK h \in Games : h = tables[t].game
    BY <1>6, FinishFacts
  <2>1. /\ stored[h] # NoRow
        /\ stored'[h].state = stored[h].state
        /\ stored'[h].ownersMove = stored[h].ownersMove
        /\ \A k \in Games : k # h => stored'[k] = stored[k]
    BY <1>6, <2>0, FinishFacts
  <2>2. stored'[h] # NoRow
    BY <2>1, RowsStay
  <2> QED BY <2>1, <2>2 DEF Position, StoredTurn
<1>7. CASE Quiet
  BY <1>7, SavedGameStays DEF Quiet, Position, StoredTurn
<1> QED BY <1>1, <1>2, <1>3, <1>4, <1>5, <1>6, <1>7, QuietSteps, SavedGameStays

(* By the same rules each saved game, over all its tables and the crashes  *)
(* between, is played by the rules: the server implements KalahaBoard.     *)
THEOREM SavedGamesFollowTheRules ==
  EndGameSweepsBoard /\ StealingEndsTheGame => (Spec => SavedGamesByTheRules)
<1> SUFFICES ASSUME EndGameSweepsBoard, StealingEndsTheGame
             PROVE  Spec => SavedGamesByTheRules
  OBVIOUS
<1>1. Init => \A g \in Games : SavedGame(g)!Init
  <2> SUFFICES ASSUME Init, NEW g \in Games
               PROVE  SavedGame(g)!Init
    OBVIOUS
  <2>1. Position(g) = InitHouses(InitStones) /\ stored[g] = NoRow
    BY DEF Init, Position
  <2>2. CanPlayerMove(Position(g), SOUTH)
    BY <2>1, InitCanMove, StonesAssumption DEF Players
  <2> QED BY <2>1, <2>2, SameRules DEF SavedGame!Init, Players
<1>2. TypeOK /\ TypeOK' /\ GamesExist /\ Mapping /\ Positions /\ [Next]_vars
      => [\A g \in Games : [SavedGame(g)!Next]_(SavedGame(g)!vars)]_vars
  BY SavedGameStep
<1> QED BY <1>1, <1>2, TypesHold, MappingHolds, PositionsHold, PTL
        DEF Spec, SavedGamesByTheRules

=============================================================================
