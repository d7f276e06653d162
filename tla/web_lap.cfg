\* Pages opened once: the boards differ after a sowing of a lap.
SPECIFICATION Spec
CONSTANTS
  NUMBER_OF_PITS = 2
  AllowStealingFromEmptyPit = TRUE
  EndGameWhenEitherPlayerRunsOutOfStones = TRUE
  EndGameSweepsBoard = TRUE
  InitStones = 3
  MaxPages = 2
INVARIANT
  AlwaysAgree
\* Games end.
CHECK_DEADLOCK FALSE
