\* The loop of moveStones: 5 stones in each of 2 pits, so that sowings lap the
\* board and skip the opponent's kalaha more than once.
SPECIFICATION LoopFairSpec
CONSTANTS
  NUMBER_OF_PITS = 2
  AllowStealingFromEmptyPit = TRUE
  EndGameWhenEitherPlayerRunsOutOfStones = TRUE
  EndGameSweepsBoard = TRUE
  InitStones = 5
PROPERTIES
  ImplementsMoveStones
\* A game ends.
CHECK_DEADLOCK FALSE
