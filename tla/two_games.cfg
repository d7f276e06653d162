\* Two games through one activator and its mapping; the smallest board.
SPECIFICATION Spec
CONSTANTS
  NUMBER_OF_PITS = 1
  AllowStealingFromEmptyPit = TRUE
  EndGameWhenEitherPlayerRunsOutOfStones = TRUE
  EndGameSweepsBoard = TRUE
  InitStones = 1
  Games = {g1, g2}
  MaxTables = 3
  MaxAnswers = 0
  MaxCrashes = 0
SYMMETRY GamesSymmetry
INVARIANTS
  PlayersMeet
  MapsAgree
\* Games end and table ids run out.
CHECK_DEADLOCK FALSE
