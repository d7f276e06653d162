\* One game, its tables, answers that come twice and a crash.
SPECIFICATION FairSpec
CONSTANTS
  NUMBER_OF_PITS = 2
  AllowStealingFromEmptyPit = TRUE
  EndGameWhenEitherPlayerRunsOutOfStones = TRUE
  EndGameSweepsBoard = TRUE
  InitStones = 2
  Games = {g1}
  MaxTables = 2
  MaxAnswers = 2
  MaxCrashes = 1
INVARIANTS
  OneOpenTable
  StoredIsPlayed
  FinishedOnce
  ActiveIsPlayable
  AnswerStands
PROPERTIES
  SeatedTableStays
  SavedGamesByTheRules
  ClosedIsDestroyed
\* Games end and table ids run out.
CHECK_DEADLOCK FALSE
