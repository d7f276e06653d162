\* Two players to the end of the game, one of whom may open the page again at any time;
\* with two stones a pit can still hold a lap.
SPECIFICATION FairSpec
CONSTANTS
  NUMBER_OF_PITS = 2
  AllowStealingFromEmptyPit = TRUE
  EndGameWhenEitherPlayerRunsOutOfStones = TRUE
  EndGameSweepsBoard = TRUE
  InitStones = 2
  MaxPages = 3
INVARIANTS
  BoardsAgree
  NoMoveRefused
PROPERTIES
  EndIsShown
\* Games end.
CHECK_DEADLOCK FALSE
