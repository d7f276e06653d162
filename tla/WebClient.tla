------------------------------ MODULE WebClient ------------------------------
(***************************************************************************)
(* The web clients of the two players at a table: game.js, pit.js and      *)
(* pits.js of either page, the messages between the pages and the table,   *)
(* and doKalahaAction with what it sends.                                  *)
(*                                                                         *)
(* A page moves its own board when the user clicks and sends the move; the *)
(* opponent's move it replays 1.5 seconds after it is told.  It takes the  *)
(* board from the first State it gets and from the one before End, and     *)
(* ignores every State between.  The table does not answer a move that it  *)
(* refuses.  Messages arrive in order; when they do, and when a timer      *)
(* runs off between them, is left open.                                    *)
(***************************************************************************)
EXTENDS WebBoard, Sequences

CONSTANTS
  InitStones,     \* KalahaBoard.getInitState(6): 6 in the code
  MaxPages        \* bound: how often a player opens the page of the game, in all

ASSUME StonesAssumption == InitStones \in Nat \ {0}
ASSUME PagesAssumption == MaxPages \in Nat

VARIABLES
  houses, playerToAct, gameEnded,   \* the table's KalahaBoard
  page,           \* the page of each player, or NoPage
  toTable,        \* moves on their way from each player's page
  toPage,         \* messages on their way to it
  opened,         \* history: how often a player has opened the page,
  astray          \* history: players with a page for which the agreement
                  \*   with the table is lost, see Loses and OpenPage

board == <<houses, playerToAct, gameEnded>>
vars == <<board, page, toTable, toPage, opened, astray>>

Table == INSTANCE KalahaBoard

NoPage == [open |-> FALSE]

(* The page before its first State: every pit has its stones, the home     *)
(* pits as well, and the opponent is to act.                               *)
NewPage ==
  [open |-> TRUE, pits |-> [id \in Ids |-> InitStones], acting |-> 1,
   firstState |-> TRUE, gameEnded |-> FALSE, lastState |-> << >>,
   timers |-> << >>]

Init ==
  /\ Table!Init
  /\ page = [p \in Players |-> NoPage]
  /\ toTable = [p \in Players |-> << >>]
  /\ toPage = [p \in Players |-> << >>]
  /\ opened = 0
  /\ astray = {}

Open == {p \in Players : page[p].open}

State(hs, player) == [action |-> "State", houses |-> hs, playerToAct |-> player]
SowMsg(pit) == [action |-> "Sow", house |-> pit]
EndMsg == [action |-> "End"]

-----------------------------------------------------------------------------
(* The page joins the table: playerJoined sends the State.  A page that    *)
(* was open is gone with its timers and messages; its moves may still      *)
(* reach the table or not.  A move of an old page that is handled later is *)
(* one the new page never hears of.                                        *)
OpenPage(p) ==
  /\ opened < MaxPages
  /\ opened' = opened + 1
  /\ page' = [page EXCEPT ![p] = NewPage]
  /\ toPage' = [toPage EXCEPT ![p] = <<State(houses, playerToAct)>>]
  /\ \/ /\ toTable' = toTable
        /\ astray' = IF toTable[p] = << >> THEN astray \ {p}
                     ELSE astray \union {p}
     \/ /\ toTable' = [toTable EXCEPT ![p] = << >>]
        /\ astray' = astray \ {p}
  /\ UNCHANGED board

-----------------------------------------------------------------------------
(* realMove *)

RealMove(c, id) ==
  LET sown == SownPits(c.pits, c.acting, id)
  IN  [c EXCEPT !.pits = PerformSteal(sown.pits, c.acting, sown.last),
                !.acting = NextSide(sown.pits, c.acting, sown.last)]

(* A sowing that comes round to its own pit again lays more stones than    *)
(* the pit had and none in the pit: not what the table does.               *)
Loses(c, id) == c.pits[id] >= Lap

(* Mutant of InTurn: the user may always move.                             *)
InTurnAlways(c) == TRUE

InTurn(c) == c.acting = 2

ReportMove(id) == LocalOf(id)

(* handleClick on a pit selected before: the move is made on the page and  *)
(* sent.                                                                   *)
Click(p, id) ==
  LET c == page[p]
  IN  /\ c.open
      /\ c.pits[id] # 0
      /\ ~ c.gameEnded
      /\ InTurn(c)
      /\ page' = [page EXCEPT ![p] = RealMove(c, id)]
      /\ toTable' = [toTable EXCEPT ![p] = Append(@, ReportMove(id))]
      /\ astray' = IF Loses(c, id) THEN astray \union {p} ELSE astray
      /\ UNCHANGED <<board, toPage, opened>>

(* The time of the first remoteSow is over.                                *)
Timer(p) ==
  LET c == page[p]
  IN  /\ c.open
      /\ c.timers # << >>
      /\ page' = [page EXCEPT ![p] =
                    [RealMove(c, Head(c.timers)) EXCEPT !.timers = Tail(@)]]
      /\ astray' = IF Loses(c, Head(c.timers)) THEN astray \union {p}
                   ELSE astray
      /\ UNCHANGED <<board, toTable, toPage, opened>>

-----------------------------------------------------------------------------
(* handleAction *)

(* Mutant of HandleState: the user is always to act.                       *)
HandleStateOwnTurn(p, c, state) ==
  [c EXCEPT !.firstState = FALSE, !.lastState = state.houses,
            !.pits = IF c.firstState THEN GameState(p, state.houses) ELSE @,
            !.acting = IF c.firstState THEN 2 ELSE @]

(* handleState: the turn starts with the opponent and is switched.         *)
HandleState(p, c, state) ==
  IF c.firstState
  THEN [c EXCEPT !.firstState = FALSE, !.lastState = state.houses,
                 !.pits = GameState(p, state.houses),
                 !.acting = IF state.playerToAct = p THEN 3 - @ ELSE @]
  ELSE [c EXCEPT !.lastState = state.houses]

(* Mutant of HandleEnd: the pits are left as they are.                     *)
HandleEndKeepingPits(p, c) == [c EXCEPT !.gameEnded = TRUE]

HandleEnd(p, c) ==
  [c EXCEPT !.gameEnded = TRUE, !.pits = GameState(p, c.lastState)]

Receive(p) ==
  /\ toPage[p] # << >>
  /\ toPage' = [toPage EXCEPT ![p] = Tail(@)]
  /\ LET msg == Head(toPage[p])
         c == page[p]
     IN  page' = [page EXCEPT ![p] =
                    CASE msg.action = "State" -> HandleState(p, c, msg)
                      [] msg.action = "Sow" ->
                           [c EXCEPT !.timers =
                                       Append(@, RemotePit(msg.house))]
                      [] msg.action = "End" -> HandleEnd(p, c)]
  /\ UNCHANGED <<board, toTable, opened, astray>>

-----------------------------------------------------------------------------
(* The table. *)

(* Mutant of Sent: End is sent to the player who moved only.               *)
SentEndToActor(p, q, pit, ended) ==
  (IF q = p THEN << >> ELSE <<SowMsg(pit)>>)
    \o <<State(houses', playerToAct')>>
    \o (IF ended /\ q = p THEN <<EndMsg>> ELSE << >>)

(* What doKalahaAction sends to q after a move of p: the action to all but *)
(* its sender, the state and the end to all.                               *)
Sent(p, q, pit, ended) ==
  (IF q = p THEN << >> ELSE <<SowMsg(pit)>>)
    \o <<State(houses', playerToAct')>>
    \o (IF ended THEN <<EndMsg>> ELSE << >>)

(* The three conditions of moveStones without which it throws.             *)
Legal(p, pit) ==
  ~ gameEnded /\ playerToAct = p /\ houses[Pit(p, pit)] # 0

(* doKalahaAction; an IllegalMoveException is caught and nobody told.      *)
Handle(p) ==
  /\ toTable[p] # << >>
  /\ toTable' = [toTable EXCEPT ![p] = Tail(@)]
  /\ LET pit == Head(toTable[p])
     IN  \/ /\ Table!MoveStones(pit, p)
            /\ toPage' = [q \in Players |->
                 IF q \in Open THEN toPage[q] \o Sent(p, q, pit, gameEnded')
                 ELSE toPage[q]]
         \/ /\ ~ Legal(p, pit)
            /\ UNCHANGED <<board, toPage>>
  /\ UNCHANGED <<page, opened, astray>>

-----------------------------------------------------------------------------
Next ==
  \/ \E p \in Players : OpenPage(p)
  \/ \E p \in Players, id \in SidePits(2) : Click(p, id)
  \/ \E p \in Players : Timer(p)
  \/ \E p \in Players : Receive(p)
  \/ \E p \in Players : Handle(p)

Spec == Init /\ [][Next]_vars

(* Messages arrive and timers run off; users need not do anything.         *)
Fairness ==
  \A p \in Players :
    WF_vars(Timer(p)) /\ WF_vars(Receive(p)) /\ WF_vars(Handle(p))

FairSpec == Spec /\ Fairness

-----------------------------------------------------------------------------
(* Properties. *)

Messages ==
  [action : {"State"}, houses : [Houses -> Nat], playerToAct : Players]
    \union [action : {"Sow"}, house : LocalPits] \union {EndMsg}

Pages ==
  [open : {TRUE}, pits : [Ids -> Nat], acting : Sides, firstState : BOOLEAN,
   gameEnded : BOOLEAN, lastState : [Houses -> Nat] \union {<< >>},
   timers : Seq(SidePits(1))]

TypeOK ==
  /\ Table!TypeOK
  /\ page \in [Players -> Pages \union {NoPage}]
  /\ toTable \in [Players -> Seq(LocalPits)]
  /\ toPage \in [Players -> Seq(Messages)]
  /\ opened \in 0 .. MaxPages
  /\ astray \subseteq Players

(* Nothing is on its way between the table and the player's page.          *)
Quiet(p) ==
  /\ p \in Open
  /\ toTable[p] = << >> /\ toPage[p] = << >> /\ page[p].timers = << >>

AgreesWithTable(p) ==
  /\ page[p].pits = GameState(p, houses)
  /\ ~ gameEnded => (page[p].acting = 2 <=> playerToAct = p)

(* When nothing is on its way the page shows the table's board and knows   *)
(* whose turn it is, though it moved ahead, replayed moves by timers and   *)
(* looked at no State: so never do both users wait for each other.  Two    *)
(* exceptions: a sowing came round to its own pit, or an old page's move   *)
(* was handled after the page was opened again.                            *)
BoardsAgree == \A p \in Players \ astray : Quiet(p) => AgreesWithTable(p)

(* The same without the exceptions.                                        *)
AlwaysAgree == \A p \in Players : Quiet(p) => AgreesWithTable(p)

(* With the same exceptions, no move that the page let the user make is    *)
(* refused by the table, which would go unnoticed, unless the game ended.  *)
NoMoveRefused ==
  \A p \in Players \ astray : toTable[p] # << >> /\ ~ gameEnded =>
    Legal(p, Head(toTable[p]))

(* Every page that is open when the game ends, or is opened later, comes   *)
(* to show the last board and keeps it: whatever went wrong before, timers *)
(* of moves that run off after End find nothing to move.                   *)
EndIsShown ==
  \A p \in Players :
    (gameEnded /\ p \in Open)
      ~> [](p \in Open /\ page[p].pits = GameState(p, houses))
=============================================================================
