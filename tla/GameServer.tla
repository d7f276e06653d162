------------------------------ MODULE GameServer ------------------------------
(***************************************************************************)
(* Games on the server: the stored games (GameManagerImpl), the tables on  *)
(* which they are played (Processor, TableInterceptorImpl) and the         *)
(* activator that makes tables for games and destroys them (ActivatorImpl, *)
(* ActivatorMapping, its TableTask).                                       *)
(*                                                                         *)
(* The events of one table are handled one at a time; the activator, its   *)
(* task, the web and the other tables go on meanwhile.  Tables, mapping    *)
(* and messages live in memory and are lost when the server stops; the     *)
(* stored games are not.  Each call of GameManager is a transaction.       *)
(***************************************************************************)
EXTENDS KalahaRules

CONSTANTS
  Games,          \* the games
  InitStones,     \* KalahaBoard.getInitState(6): 6 in the code
  MaxTables,      \* bound: tables made
  MaxAnswers,     \* bound: answers delivered to the request of a game
  MaxCrashes      \* bound: crashes of the server

ASSUME StonesAssumption == InitStones \in Nat \ {0}
ASSUME BoundsAssumption == {MaxTables, MaxAnswers, MaxCrashes} \subseteq Nat

VARIABLES
  stored,        \* the row of each game in the database
  tables,        \* the tables, by id; ids are used once
  made,          \* the number of tables made
  gameToTable,   \* ActivatorMapping,
  tableToGame,   \*   both of its maps
  opening,       \* createTable at work, with the row it read, or NotOpening
  closing,       \* tables with a Close action on its way
  destroying,    \* the table TableTask has unmapped and is about to destroy
  told,          \* the table id a player's client got from GetTableResponse
  crashes,       \* history: how often the server stopped,
  answers,       \*   how many answers came to the request of each game
  torn,          \* history: games whose server stopped inside doKalahaAction,
                 \*   after updateGame and before finishGame
  raced          \* history: games answered while createTable was at work

vars == <<stored, tables, made, gameToTable, tableToGame, opening, closing,
          destroying, told, crashes, answers, torn, raced>>
mapping == <<gameToTable, tableToGame>>
history == <<crashes, answers, torn, raced>>

TableIds == 1 .. MaxTables
None == 0             \* no table: the -1 of getTableForGame
NoGame == "no game"
NoRow == [status |-> "none"]
NoTable == [state |-> "none"]
NoState == << >>      \* a stored game without a GameState
NotOpening == [game |-> NoGame]

ASSUME GamesAssumption == NoGame \notin Games

Init ==
  /\ stored = [g \in Games |-> NoRow]
  /\ tables = [t \in TableIds |-> NoTable]
  /\ made = 0
  /\ gameToTable = [g \in Games |-> None]
  /\ tableToGame = [t \in TableIds |-> NoGame]
  /\ opening = NotOpening
  /\ closing = {}
  /\ destroying = None
  /\ told = [g \in Games |-> [p \in Players |-> None]]
  /\ crashes = 0
  /\ answers = [g \in Games |-> 0]
  /\ torn = {}
  /\ raced = {}

Live == {t \in TableIds : tables[t] # NoTable}
Ready(t) == t \in Live /\ ~ tables[t].finishing

-----------------------------------------------------------------------------
(* The web, and the first half of handleCreateGame: games are made and the *)
(* invitee answers the request.                                            *)

(* A row of a new game with the status of its request; "counted" is how    *)
(* often updateStats counted it for its players.                           *)
Row(request, status, state) ==
  [request |-> request, status |-> status, state |-> state,
   ownersMove |-> TRUE, result |-> "none", winner |-> NoPlayer, counted |-> 0]

(* From a challenge or an invitation; to be played at once, by GameCreator *)
(* with no position and by handleCreateGame with the first one.            *)
NewRows ==
  {Row("PENDING", "PENDING", NoState), Row("none", "ACTIVE", NoState),
   Row("none", "ACTIVE", InitHouses(InitStones))}

CreateGame(g, row) ==
  /\ stored[g] = NoRow
  /\ stored' = [stored EXCEPT ![g] = row]
  /\ UNCHANGED <<tables, made, mapping, opening, closing, destroying, told,
                 history>>

(* updateRequest, whatever came of the request and the game before: a link *)
(* followed again delivers the answer again.                               *)
Answer(g, status) ==
  /\ stored[g] # NoRow
  /\ stored[g].request # "none"
  /\ answers[g] < MaxAnswers
  /\ stored' = [stored EXCEPT
                  ![g].request = status,
                  ![g].status = IF status = "ACCEPTED" THEN "ACTIVE"
                                ELSE "CANCELLED"]
  /\ answers' = [answers EXCEPT ![g] = @ + 1]
  /\ raced' = IF opening.game = g THEN raced \union {g} ELSE raced
  /\ UNCHANGED <<tables, made, mapping, opening, closing, destroying, told,
                 crashes, torn>>

-----------------------------------------------------------------------------
(* The activator: a client asks for the table of its game.  "opening" is   *)
(* also the monitor of the mapping, held through createTable.              *)

(* Mutant of getTableForGame: no table is found.                           *)
getNoTableForGame(g) == None

getTableForGame(g) == gameToTable[g]

(* The game has a table in the mapping, or else ...                        *)
ReuseTable(g, player) ==
  /\ opening = NotOpening
  /\ getTableForGame(g) # None
  /\ told' = [told EXCEPT ![g][player] = getTableForGame(g)]
  /\ UNCHANGED <<stored, tables, made, mapping, opening, closing, destroying,
                 history>>

(* ... createTable reads the game.  A finished game gets no table and the  *)
(* client no answer.                                                       *)
ReadGame(g, player) ==
  /\ opening = NotOpening
  /\ getTableForGame(g) = None
  /\ stored[g].status \notin {"none", "FINISHED"}
  /\ made < MaxTables
  /\ opening' = [game |-> g, player |-> player, row |-> stored[g]]
  /\ UNCHANGED <<stored, tables, made, mapping, closing, destroying, told,
                 history>>

(* Mutant of NewTable: South is always to act.                             *)
NewTableSouthActs(g, row) ==
  [state |-> "OPEN", game |-> g, seated |-> {}, finishing |-> FALSE,
   houses |-> row.state, playerToAct |-> SOUTH,
   gameEnded |-> row.status # "ACTIVE", madeFor |-> row.status]

(* new KalahaBoard(game) at a new, open table; "madeFor" is the status the *)
(* game had.                                                               *)
NewTable(g, row) ==
  [state |-> "OPEN", game |-> g, seated |-> {}, finishing |-> FALSE,
   houses |-> row.state,
   playerToAct |-> IF row.ownersMove THEN SOUTH ELSE NORTH,
   gameEnded |-> row.status # "ACTIVE", madeFor |-> row.status]

(* Mutant of FirstPosition: the game is made ACTIVE with it.               *)
FirstPositionActive(row) ==
  IF row.state = NoState
  THEN [row EXCEPT !.state = InitHouses(InitStones), !.ownersMove = TRUE,
                   !.status = "ACTIVE"]
  ELSE row

(* The row with the first position, if it has none.                        *)
FirstPosition(row) ==
  IF row.state = NoState
  THEN [row EXCEPT !.state = InitHouses(InitStones), !.ownersMove = TRUE]
  ELSE row

(* The rest of createTable.  A game without a position gets the first one: *)
(* updateGame finds the row that was read in its EntityManager and writes  *)
(* all of the row's columns, over an answer that came between.  The table  *)
(* is made from that row as well.                                          *)
CreateTable ==
  /\ opening # NotOpening
  /\ LET g == opening.game
         row == FirstPosition(opening.row)
         t == made + 1
     IN  /\ stored' = IF row = opening.row THEN stored
                      ELSE [stored EXCEPT
                              ![g] = [row EXCEPT !.request = stored[g].request]]
         /\ tables' = [tables EXCEPT ![t] = NewTable(g, row)]
         /\ made' = t
         /\ gameToTable' = [gameToTable EXCEPT ![g] = t]
         /\ tableToGame' = [tableToGame EXCEPT ![t] = g]
         /\ told' = [told EXCEPT ![g][opening.player] = t]
  /\ opening' = NotOpening
  /\ UNCHANGED <<closing, destroying, history>>

-----------------------------------------------------------------------------
(* The events of a table. *)

(* Mutant of isOpen: the state of the table is not looked at.              *)
isOpenAlways(t) == t \in Live

isOpen(t) == t \in Live /\ tables[t].state = "OPEN"

(* allowJoin: a player of the game is seated at an open table, a closed    *)
(* one refuses with TABLE_CLOSED; the client then has to ask again.        *)
Join(g, player) ==
  LET t == told[g][player]
  IN  /\ t # None
      /\ (t \in Live => Ready(t))
      /\ told' = [told EXCEPT ![g][player] = None]
      /\ tables' = IF isOpen(t)
                   THEN [tables EXCEPT ![t].seated = @ \union {player}]
                   ELSE tables
      /\ UNCHANGED <<stored, made, mapping, opening, closing, destroying,
                     history>>

Leave(t, player) ==
  /\ Ready(t)
  /\ player \in tables[t].seated
  /\ tables' = [tables EXCEPT ![t].seated = @ \ {player}]
  /\ UNCHANGED <<stored, made, mapping, opening, closing, destroying, told,
                 history>>

(* Mutant of AfterAction: the end is read before the move is performed.    *)
AfterActionReadEarly(table, player, pit) ==
  [table EXCEPT !.houses = AfterMove(table.houses, player, pit),
                !.playerToAct = NextPlayer(table.houses, player, pit),
                !.gameEnded = EndsGame(table.houses, player, pit),
                !.finishing = table.gameEnded]

(* The table after perform and isGameEnded.                                *)
AfterAction(table, player, pit) ==
  [table EXCEPT !.houses = AfterMove(table.houses, player, pit),
                !.playerToAct = NextPlayer(table.houses, player, pit),
                !.gameEnded = EndsGame(table.houses, player, pit),
                !.finishing = EndsGame(table.houses, player, pit)]

(* doKalahaAction up to updateGame: the move on the table's board, then    *)
(* the stored position.  An IllegalMoveException changes nothing.          *)
Sow(t, player, pit) ==
  /\ Ready(t)
  /\ LET table == tables[t]
         after == AfterAction(table, player, pit)
     IN  /\ player \in table.seated
         /\ ~ table.gameEnded
         /\ table.playerToAct = player
         /\ table.houses[Pit(player, pit)] # 0
         /\ tables' = [tables EXCEPT ![t] = after]
         /\ stored' = [stored EXCEPT
                         ![table.game].state = after.houses,
                         ![table.game].ownersMove = (after.playerToAct = SOUTH)]
  /\ UNCHANGED <<made, mapping, opening, closing, destroying, told, history>>

(* Mutant of Finished: a draw is stored as a win.                          *)
FinishedAsWin(row, houses) ==
  [row EXCEPT !.status = "FINISHED", !.winner = WinningPlayer(houses),
              !.result = "WIN", !.counted = @ + 1]

(* finishGame with the result of the board, and updateStats in it.         *)
Finished(row, houses) ==
  [row EXCEPT !.status = "FINISHED",
              !.winner = IF IsDraw(houses) THEN @ ELSE WinningPlayer(houses),
              !.result = IF IsDraw(houses) THEN "DRAW" ELSE "WIN",
              !.counted = @ + 1]

(* The rest of doKalahaAction when the move ended the game: finishGame, a  *)
(* transaction of its own.                                                 *)
Finish(t) ==
  /\ t \in Live
  /\ tables[t].finishing
  /\ tables' = [tables EXCEPT ![t].finishing = FALSE]
  /\ stored' = [stored EXCEPT
                  ![tables[t].game] = Finished(@, tables[t].houses)]
  /\ UNCHANGED <<made, mapping, opening, closing, destroying, told, history>>

(* Mutant of haveSeated: nobody is seen.                                   *)
haveSeatedNobody(t) == FALSE

haveSeated(t) == tables[t].seated # {}

(* tryClose: the Close action closes the table unless somebody has come.   *)
Close(t) ==
  /\ t \in closing
  /\ Ready(t)
  /\ closing' = closing \ {t}
  /\ tables' = IF haveSeated(t) THEN tables
               ELSE [tables EXCEPT ![t].state = "CLOSED"]
  /\ UNCHANGED <<stored, made, mapping, opening, destroying, told, history>>

-----------------------------------------------------------------------------
(* TableTask, on a thread of the activator. *)

(* closeOldEndEmpty: the lobby shows an empty table; how old it is is left *)
(* open.  The Close action reaches the table later.                        *)
SendClose(t) ==
  /\ destroying = None
  /\ t \in Live
  /\ tables[t].seated = {}
  /\ closing' = closing \union {t}
  /\ UNCHANGED <<stored, tables, made, mapping, opening, destroying, told,
                 history>>

(* Mutant of removeForTable: gameToTable keeps the table.                  *)
removeHalf(t) ==
  /\ tableToGame' = [tableToGame EXCEPT ![t] = NoGame]
  /\ gameToTable' = gameToTable

removeForTable(t) ==
  /\ tableToGame' = [tableToGame EXCEPT ![t] = NoGame]
  /\ gameToTable' = IF tableToGame[t] # NoGame
                    THEN [gameToTable EXCEPT ![tableToGame[t]] = None]
                    ELSE gameToTable

(* destroyClosedTables: the closed table is taken out of the mapping       *)
(* (removeForTable) ...                                                    *)
Unmap(t) ==
  /\ destroying = None
  /\ opening = NotOpening
  /\ t \in Live
  /\ tables[t].state = "CLOSED"
  /\ destroying' = t
  /\ removeForTable(t)
  /\ UNCHANGED <<stored, tables, made, opening, closing, told, history>>

(* Mutant of Destroy: the table is not destroyed.                          *)
DestroyNothing ==
  /\ destroying # None
  /\ closing' = closing \ {destroying}
  /\ destroying' = None
  /\ UNCHANGED <<stored, tables, made, mapping, opening, told, history>>

(* ... and destroyed, with the actions still on their way to it.           *)
Destroy ==
  /\ destroying # None
  /\ tables' = [tables EXCEPT ![destroying] = NoTable]
  /\ closing' = closing \ {destroying}
  /\ destroying' = None
  /\ UNCHANGED <<stored, made, mapping, opening, told, history>>

-----------------------------------------------------------------------------
(* The server stops, at any point, and starts again without its memory.    *)

Crash ==
  /\ crashes < MaxCrashes
  /\ crashes' = crashes + 1
  /\ tables' = [t \in TableIds |-> NoTable]
  /\ gameToTable' = [g \in Games |-> None]
  /\ tableToGame' = [t \in TableIds |-> NoGame]
  /\ opening' = NotOpening
  /\ closing' = {}
  /\ destroying' = None
  /\ told' = [g \in Games |-> [p \in Players |-> None]]
  /\ torn' = torn \union
       {tables[t].game : t \in {u \in Live : tables[u].finishing}}
  /\ UNCHANGED <<stored, made, answers, raced>>

-----------------------------------------------------------------------------
Next ==
  \/ \E g \in Games, row \in NewRows : CreateGame(g, row)
  \/ \E g \in Games, status \in {"ACCEPTED", "DENIED"} : Answer(g, status)
  \/ \E g \in Games, p \in Players : ReuseTable(g, p)
  \/ \E g \in Games, p \in Players : ReadGame(g, p)
  \/ CreateTable
  \/ \E g \in Games, p \in Players : Join(g, p)
  \/ \E t \in TableIds, p \in Players : Leave(t, p)
  \/ \E t \in TableIds, p \in Players, pit \in LocalPits : Sow(t, p, pit)
  \/ \E t \in TableIds : Finish(t)
  \/ \E t \in TableIds : Close(t)
  \/ \E t \in TableIds : SendClose(t)
  \/ \E t \in TableIds : Unmap(t)
  \/ Destroy
  \/ Crash

Spec == Init /\ [][Next]_vars

(* A table handles the events it gets, the activator ends what it began,   *)
(* and the task runs every minute and gets the monitor of the mapping in   *)
(* the end.  Players need not do anything.                                 *)
Fairness ==
  /\ \A t \in TableIds :
       /\ WF_vars(Finish(t))
       /\ WF_vars(Close(t))
       /\ SF_vars(Unmap(t))
  /\ WF_vars(CreateTable)
  /\ WF_vars(Destroy)

FairSpec == Spec /\ Fairness

-----------------------------------------------------------------------------
(* Properties. *)

Rows ==
  [request : {"none", "PENDING", "ACCEPTED", "DENIED"},
   status : {"PENDING", "ACTIVE", "CANCELLED", "FINISHED"},
   state : [Houses -> Nat] \union {NoState}, ownersMove : BOOLEAN,
   result : {"none", "WIN", "DRAW"}, winner : Players \union {NoPlayer},
   counted : Nat]

Tables ==
  [state : {"OPEN", "CLOSED"}, game : Games, seated : SUBSET Players,
   finishing : BOOLEAN, houses : [Houses -> Nat], playerToAct : Players,
   gameEnded : BOOLEAN, madeFor : {"PENDING", "ACTIVE", "CANCELLED"}]

TypeOK ==
  /\ stored \in [Games -> Rows \union {NoRow}]
  /\ tables \in [TableIds -> Tables \union {NoTable}]
  /\ made \in 0 .. MaxTables
  /\ gameToTable \in [Games -> TableIds \union {None}]
  /\ tableToGame \in [TableIds -> Games \union {NoGame}]
  /\ opening \in
       [game : Games, player : Players, row : Rows] \union {NotOpening}
  /\ closing \subseteq TableIds
  /\ destroying \in TableIds \union {None}
  /\ told \in [Games -> [Players -> TableIds \union {None}]]
  /\ crashes \in 0 .. MaxCrashes
  /\ answers \in [Games -> 0 .. MaxAnswers]
  /\ torn \subseteq Games
  /\ raced \subseteq Games

(* The players of a game meet: however joins, closing tables and new       *)
(* tables cross, the table where a player sits is the open one that the    *)
(* activator knows, so that nobody sits at two and no two at different     *)
(* ones.                                                                   *)
PlayersMeet ==
  \A t \in Live : tables[t].seated # {} =>
    /\ tables[t].state = "OPEN"
    /\ gameToTable[tables[t].game] = t

(* A game is played at one open table at most: a second one, made from the *)
(* stored game, would fork it.                                             *)
OneOpenTable ==
  \A t, u \in {v \in Live : tables[v].state = "OPEN"} :
    tables[t].game = tables[u].game => t = u

(* The two maps of ActivatorMapping are each other's inverse.              *)
MapsAgree ==
  \A g \in Games, t \in TableIds : gameToTable[g] = t <=> tableToGame[t] = g

(* Whatever table is destroyed or lost, the stored game has the position   *)
(* of the open table and can be continued from it at another.              *)
StoredIsPlayed ==
  \A t \in Live : tables[t].state = "OPEN" =>
    LET row == stored[tables[t].game]
    IN  /\ row.state = tables[t].houses
        /\ row.ownersMove = (tables[t].playerToAct = SOUTH)

(* A finished game is finished with the result of its last position, and   *)
(* no game is counted twice for its players: when an answer delivered      *)
(* again reopens it, nobody can move on its swept board.                   *)
FinishedOnce ==
  \A g \in Games : stored[g] # NoRow =>
    LET row == stored[g]
    IN  IF row.status = "FINISHED"
        THEN /\ row.counted = 1
             /\ row.winner = WinningPlayer(row.state)
             /\ row.result = "DRAW" <=> IsDraw(row.state)
             /\ \A p \in Players : ~ CanPlayerMove(row.state, p)
        ELSE row.counted = 0 \/ (answers[g] > 1 /\ row.counted = 1)

(* At an open table of an ACTIVE game the player to act has a move, with   *)
(* three exceptions: the table was made before the request was answered    *)
(* (its board refuses every move until the table is destroyed), the server *)
(* stopped between the last updateGame and finishGame, or an answer        *)
(* delivered again made the game ACTIVE.                                   *)
ActiveIsPlayable ==
  \A t \in Live :
    LET g == tables[t].game
    IN  /\ tables[t].state = "OPEN" /\ stored[g].status = "ACTIVE"
        /\ tables[t].madeFor = "ACTIVE" /\ g \notin torn /\ answers[g] <= 1
        /\ ~ tables[t].finishing
        => /\ ~ tables[t].gameEnded
           /\ CanPlayerMove(tables[t].houses, tables[t].playerToAct)

(* The one answer to a request decides the game, unless it came while      *)
(* createTable had read the game: a denied game is never played, an        *)
(* accepted one waits for its players until it is finished.                *)
AnswerStands ==
  \A g \in Games : stored[g] # NoRow /\ answers[g] <= 1 /\ g \notin raced =>
    /\ stored[g].request = "PENDING" => stored[g].status = "PENDING"
    /\ stored[g].request = "DENIED" => stored[g].status = "CANCELLED"
    /\ stored[g].request = "ACCEPTED" =>
         stored[g].status \in {"ACTIVE", "FINISHED"}

(* A table with a player at it is neither closed nor destroyed, only lost  *)
(* in a crash: a Close action that crosses a join is dropped.              *)
SeatedTableStays ==
  [][crashes' = crashes =>
       \A t \in Live : tables[t].seated # {} =>
         tables'[t] # NoTable /\ tables'[t].state = "OPEN"]_vars

(* A closed table, which the mapping still gives to clients that ask, is   *)
(* taken away in the end: their games can be opened again.                 *)
ClosedIsDestroyed ==
  \A t \in TableIds :
    (t \in Live /\ tables[t].state = "CLOSED") ~> tables[t] = NoTable

(* The stored game, over all the tables it is played at and the crashes    *)
(* between, is one game by the rules: each step of it is a move from the   *)
(* position stored before, by the player whose turn was stored.            *)
Position(g) ==
  IF stored[g] = NoRow \/ stored[g].state = NoState THEN InitHouses(InitStones)
  ELSE stored[g].state

SavedGame(g) ==
  INSTANCE KalahaBoard WITH
    houses <- Position(g),
    playerToAct <- IF stored[g] = NoRow \/ stored[g].ownersMove THEN SOUTH
                   ELSE NORTH,
    gameEnded <- \A p \in Players : ~ CanPlayerMove(Position(g), p)

SavedGamesByTheRules ==       \* \A g \in Games : SavedGame(g)!Spec
  /\ \A g \in Games : SavedGame(g)!Init
  /\ [][\A g \in Games : [SavedGame(g)!Next]_(SavedGame(g)!vars)]_vars
=============================================================================
