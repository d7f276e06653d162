----------------------------- MODULE GameRecords -----------------------------
(***************************************************************************)
(* The Game and GameStats rows that GameManagerImpl and RequestManagerImpl *)
(* write side by side: a table stores a move and finishes its game, a task *)
(* reaps games nobody plays, a page counts an accepted invitation. An      *)
(* EntityManager reads a row once, a game with its players and their       *)
(* statistics, keeps it over the transactions of the handler and writes    *)
(* all of its columns; the rows have no version. So each transaction is    *)
(* its read and its commit, and finishGame of a table works on what        *)
(* updateGame read before it.                                              *)
(***************************************************************************)
EXTENDS Naturals, FiniteSets, Functions

CONSTANTS
  Users,
  Games,
  Owner, Opponent,  \* the players of each game
  MaxAccepts,       \* bound: invitations accepted
  NoUser            \* the winner of a draw, or of a game not finished (-1)

ASSUME UsersAssumption == IsFiniteSet(Users) /\ NoUser \notin Users
ASSUME GamesAssumption == IsFiniteSet(Games)
ASSUME AcceptsAssumption == MaxAccepts \in Nat
ASSUME PlayersAssumption ==
  /\ Owner \in [Games -> Users] /\ Opponent \in [Games -> Users]
  /\ \A g \in Games : Owner[g] # Opponent[g]

VARIABLES
  game,        \* the Game rows: [status, winner, old]
  stats,       \* the GameStats rows
  table,       \* what the handler of each game's table has read, and its outcome
  reaper,      \* what reapGames has read
  answer,      \* the inviter's statistics that an updateRequest has read
  accepted,    \* history: invitations of each user that were accepted,
  miscounted   \*   users for whom a commit wrote what it had read before another
               \*   changed it, or counted a finished game again

vars == <<game, stats, table, reaper, answer, accepted, miscounted>>

Idle == [at |-> "idle"]
Outcomes(g) == {"moved", NoUser, Owner[g], Opponent[g]}
PlayersOf(g) == {Owner[g], Opponent[g]}

Init ==
  /\ game = [g \in Games |->
       [status |-> "ACTIVE", winner |-> NoUser, old |-> FALSE]]
  /\ stats = [u \in Users |->
       [totalGames |-> 0, gamesWon |-> 0, gamesLost |-> 0, gamesDrawn |-> 0,
        sentInvitesAccepted |-> 0]]
  /\ table = [g \in Games |-> Idle]
  /\ reaper = Idle
  /\ answer = Idle
  /\ accepted = [u \in Users |-> 0]
  /\ miscounted = {}

\* Mutant of updateStats: a draw has no branch of its own.
UpdateStatsWithoutDraws(st, games, winner) ==
  LET Played(u) == {g \in games : u \in PlayersOf(g)}
      Won(u) == {g \in Played(u) : winner[g] = u}
  IN [u \in DOMAIN st |->
       [st[u] EXCEPT !.totalGames = @ + Cardinality(Played(u)),
                     !.gamesWon = @ + Cardinality(Won(u)),
                     !.gamesLost = @ + Cardinality(Played(u) \ Won(u))]]

\* updateStats of each of the games that a transaction finishes: every branch adds one
\* to a counter of each player. The rating, which is a function of the ratings read, is
\* left out.
updateStats(st, games, winner) ==
  LET Ended(u, winners) ==
        Cardinality({g \in games : u \in PlayersOf(g) /\ winner[g] \in winners})
  IN [u \in DOMAIN st |->
       [st[u] EXCEPT !.totalGames = @ + Ended(u, Users \union {NoUser}),
                     !.gamesWon = @ + Ended(u, {u}),
                     !.gamesDrawn = @ + Ended(u, {NoUser}),
                     !.gamesLost = @ + Ended(u, Users \ {u})]]

\* A draw leaves the winner of the row as it is.
finishGame(row, winner) ==
  [row EXCEPT !.status = "FINISHED", !.winner = IF winner = NoUser THEN @ ELSE winner,
              !.old = FALSE]

\* The users whose rows have changed since they were read into st.
Stale(st) == {u \in DOMAIN st : st[u] # stats[u]}

\* Writes the rows of st.
Written(st) == [u \in Users |-> IF u \in DOMAIN st THEN st[u] ELSE stats[u]]

-----------------------------------------------------------------------------
\* A move at the table of g: the reads of updateGame.
ReadGame(g, outcome) ==
  /\ table[g] = Idle
  /\ table' = [table EXCEPT ![g] =
       [at |-> "update", row |-> [game[g] EXCEPT !.old = FALSE],
        stats |-> [u \in PlayersOf(g) |-> stats[u]], outcome |-> outcome]]
  /\ UNCHANGED <<game, stats, reaper, answer, accepted, miscounted>>

\* Its commit. A row that was finished in between is overwritten as it was read.
UpdateGame(g) ==
  LET work == table[g]
  IN /\ work.at = "update"
     /\ game' = [game EXCEPT ![g] = work.row]
     /\ table' = [table EXCEPT ![g] =
          IF work.outcome = "moved" THEN Idle ELSE [work EXCEPT !.at = "finish"]]
     /\ miscounted' = miscounted \union
          IF game[g].status # work.row.status THEN PlayersOf(g) ELSE {}
     /\ UNCHANGED <<stats, reaper, answer, accepted>>

\* The commit of finishGame. The board has ended: no more moves.
FinishGame(g) ==
  LET work == table[g]
  IN /\ work.at = "finish"
     /\ game' = [game EXCEPT ![g] = finishGame(work.row, work.outcome)]
     /\ stats' = Written(updateStats(work.stats, {g}, [h \in {g} |-> work.outcome]))
     /\ table' = [table EXCEPT ![g] = [at |-> "ended"]]
     /\ miscounted' = miscounted \union Stale(work.stats) \union
          IF game[g].status = "FINISHED" THEN PlayersOf(g) ELSE {}
     /\ UNCHANGED <<reaper, answer, accepted>>

-----------------------------------------------------------------------------
\* Time goes by without a move.
Age(g) ==
  /\ game[g].status = "ACTIVE" /\ ~game[g].old
  /\ game' = [game EXCEPT ![g].old = TRUE]
  /\ UNCHANGED <<stats, table, reaper, answer, accepted, miscounted>>

\* The query of reapGames; the players of its games and their rows come with it.
ReapRead ==
  LET games == {g \in Games : game[g].status = "ACTIVE" /\ game[g].old}
  IN /\ reaper = Idle
     /\ games # {}
     /\ reaper' = [at |-> "finish", row |-> [g \in games |-> game[g]],
          stats |-> [u \in UNION {PlayersOf(g) : g \in games} |-> stats[u]]]
     /\ UNCHANGED <<game, stats, table, answer, accepted, miscounted>>

\* Its commit: a game is won by the player who is not to act, either of the two.
ReapCommit(winner) ==
  LET games == DOMAIN reaper.row
  IN /\ reaper # Idle
     /\ game' = [g \in Games |->
          IF g \in games THEN finishGame(reaper.row[g], winner[g]) ELSE game[g]]
     /\ stats' = Written(updateStats(reaper.stats, games, winner))
     /\ reaper' = Idle
     /\ miscounted' = miscounted \union Stale(reaper.stats) \union
          UNION {PlayersOf(g) : g \in {h \in games : game[h].status = "FINISHED"}}
     /\ UNCHANGED <<table, answer, accepted>>

-----------------------------------------------------------------------------
\* updateRequest(ACCEPTED) of an invitation of u: its read and its commit.
AnswerRead(u) ==
  /\ answer = Idle
  /\ FoldFunction(+, 0, accepted) < MaxAccepts
  /\ answer' = [at |-> "commit", stats |-> [v \in {u} |-> stats[v]]]
  /\ UNCHANGED <<game, stats, table, reaper, accepted, miscounted>>

incrementAccepted(st) == [st EXCEPT !.sentInvitesAccepted = @ + 1]

AnswerCommit ==
  /\ answer # Idle
  /\ stats' = Written([u \in DOMAIN answer.stats |-> incrementAccepted(answer.stats[u])])
  /\ answer' = Idle
  /\ accepted' =
       [u \in Users |-> accepted[u] + IF u \in DOMAIN answer.stats THEN 1 ELSE 0]
  /\ miscounted' = miscounted \union Stale(answer.stats)
  /\ UNCHANGED <<game, table, reaper>>

Next ==
  \/ \E g \in Games : \E outcome \in Outcomes(g) : ReadGame(g, outcome)
  \/ \E g \in Games : UpdateGame(g)
  \/ \E g \in Games : FinishGame(g)
  \/ \E g \in Games : Age(g)
  \/ ReapRead
  \/ \E winner \in {w \in [Games -> Users] : \A g \in Games : w[g] \in PlayersOf(g)} :
       ReapCommit(winner)
  \/ \E u \in Users : AnswerRead(u)
  \/ AnswerCommit

Spec == Init /\ [][Next]_vars

-----------------------------------------------------------------------------
\* The statistics of a user are those of the user's finished games and accepted
\* invitations, whichever tables, reapers and pages wrote them, unless a commit
\* wrote the row over another's or counted a game that was finished before
\* (GameManagerImpl.updateStats, RequestManagerImpl.incrementAccepted).
StatsMatchGames ==
  \A u \in Users \ miscounted :
    LET Finished(winners) ==
          Cardinality({g \in Games :
            /\ u \in PlayersOf(g) /\ game[g].status = "FINISHED"
            /\ game[g].winner \in winners})
    IN /\ stats[u].totalGames = Finished(Users \union {NoUser})
       /\ stats[u].gamesWon = Finished({u})
       /\ stats[u].gamesDrawn = Finished({NoUser})
       /\ stats[u].gamesLost = Finished(Users \ {u})
       /\ stats[u].sentInvitesAccepted = accepted[u]
=============================================================================
