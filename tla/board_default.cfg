\* KalahaBoard by DefaultRules: 3 pits, 3 stones each.
SPECIFICATION FairSpec
CONSTANTS
  NUMBER_OF_PITS = 3
  AllowStealingFromEmptyPit = TRUE
  EndGameWhenEitherPlayerRunsOutOfStones = TRUE
  EndGameSweepsBoard = TRUE
  InitStones = 3
INVARIANTS
  Conservation
  NotStuck
  EndCountsAllStones
PROPERTIES
  KalahasOnlyGain
  MajorityWins
  Termination
\* A game ends.
CHECK_DEADLOCK FALSE
