CONSTANTS
  \* Two games of one user, an accepted invitation and a reaper.
  ann = ann
  bob = bob
  cid = cid
  g1 = g1
  g2 = g2
  Users <- MCUsers
  Games <- MCGames
  Owner <- MCOwner
  Opponent <- MCOpponent
  NoUser = nobody
  MaxAccepts = 1
  \* The notices of two games of three moves, a fault.
  MaxMoves = 3
  MaxFaults = 1
SPECIFICATION BackgroundSpec
VIEW CountedView
INVARIANTS
  StatsMatchGames
  TurnsAreTold
\* Boards and games end.
CHECK_DEADLOCK FALSE
