--------------------------- MODULE BackgroundProofs ---------------------------
(***************************************************************************)
(* Proofs about what goes on behind the tables, for any users, games and   *)
(* bounds: whoever gets the turn is told (Notices), and the statistics are *)
(* those of the finished games (GameRecords).                              *)
(***************************************************************************)
EXTENDS Background, SequenceTheorems, FiniteSetTheorems, TLAPS

-----------------------------------------------------------------------------
(* Notices.  Until its player has moved again, the game of a notice is the *)
(* player's turn: the row that is read when the notice is handled names    *)
(* the other.                                                              *)

Notice == [game : Games, move : Nat, user : NoticesOf!Players]

NoticesOK ==
  /\ told \in [Games -> [ownersMove : BOOLEAN, ended : BOOLEAN]]
  /\ moves \in [Games -> Seq(NoticesOf!Players)]
  /\ passed \subseteq Notice
  /\ sent \subseteq passed
  /\ queue \in Seq(passed)

TurnOrMoved ==
  \A n \in passed :
    /\ n.move <= Len(moves[n.game])
    /\ NoticesOf!ToAct(n.game) = n.user \/ NoticesOf!MovedSince(n)

Turns == NoticesOK /\ TurnOrMoved /\ TurnsAreTold

LEMMA AppendFacts ==
  ASSUME NEW S, NEW seq \in Seq(S), NEW x \in S
  PROVE  /\ Append(seq, x) \in Seq(S)
         /\ Len(seq) \in Nat /\ Len(Append(seq, x)) = Len(seq) + 1
         /\ DOMAIN seq = 1 .. Len(seq)
         /\ DOMAIN Append(seq, x) = 1 .. Len(seq) + 1
         /\ \A i \in 1 .. Len(seq) : Append(seq, x)[i] = seq[i]
         /\ Append(seq, x)[Len(seq) + 1] = x
BY AppendProperties, LenProperties

(* A move at a table: what was the player's turn is a move of the player.  *)
LEMMA AfterMove ==
  ASSUME NoticesOK, TurnOrMoved, NEW g \in Games,
         moves' = [moves EXCEPT ![g] = Append(@, NoticesOf!ToAct(g))],
         NEW row \in [ownersMove : BOOLEAN, ended : BOOLEAN],
         told' = [told EXCEPT ![g] = row]
  PROVE  /\ told' \in [Games -> [ownersMove : BOOLEAN, ended : BOOLEAN]]
         /\ moves' \in [Games -> Seq(NoticesOf!Players)]
         /\ Len(moves[g]) \in Nat /\ Len(moves'[g]) = Len(moves[g]) + 1
         /\ \A n \in passed :
              /\ n.move <= Len(moves'[n.game])
              /\ NoticesOf!ToAct(n.game)' = n.user \/ NoticesOf!MovedSince(n)'
<1> DEFINE u == NoticesOf!ToAct(g)
<1>1. u \in NoticesOf!Players /\ moves[g] \in Seq(NoticesOf!Players)
  BY DEF NoticesOf!ToAct, NoticesOf!Players, NoticesOK
<1>2. /\ moves'[g] = Append(moves[g], u)
      /\ \A h \in Games : h # g => moves'[h] = moves[h] /\ told'[h] = told[h]
      /\ told' \in [Games -> [ownersMove : BOOLEAN, ended : BOOLEAN]]
  BY DEF NoticesOK
<1>3. /\ Append(moves[g], u) \in Seq(NoticesOf!Players)
      /\ Len(moves[g]) \in Nat /\ Len(moves'[g]) = Len(moves[g]) + 1
      /\ DOMAIN moves[g] = 1 .. Len(moves[g])
      /\ DOMAIN moves'[g] = 1 .. Len(moves[g]) + 1
      /\ \A i \in 1 .. Len(moves[g]) : moves'[g][i] = moves[g][i]
      /\ moves'[g][Len(moves[g]) + 1] = u
  BY <1>1, <1>2, AppendFacts
<1>4. moves' \in [Games -> Seq(NoticesOf!Players)]
  BY <1>3 DEF NoticesOK
<1>5. ASSUME NEW n \in passed
      PROVE  /\ n.move <= Len(moves'[n.game])
             /\ NoticesOf!ToAct(n.game)' = n.user \/ NoticesOf!MovedSince(n)'
  <2>1. /\ n.game \in Games /\ n.move \in Nat
        /\ n.move <= Len(moves[n.game])
        /\ NoticesOf!ToAct(n.game) = n.user \/ NoticesOf!MovedSince(n)
    BY DEF NoticesOK, Notice, TurnOrMoved
  <2>2. CASE n.game # g
    BY <1>2, <2>1, <2>2 DEF NoticesOf!ToAct, NoticesOf!MovedSince
  <2>3. CASE n.game = g
    <3>1. n.move <= Len(moves'[g]) /\ Len(moves[g]) + 1 > n.move
      BY <1>3, <2>1, <2>3
    <3>2. CASE NoticesOf!MovedSince(n)
      <4>1. PICK i \in DOMAIN moves[g] : i > n.move /\ moves[g][i] = n.user
        BY <2>3, <3>2 DEF NoticesOf!MovedSince
      <4>2. i \in DOMAIN moves'[g] /\ moves'[g][i] = n.user
        BY <1>3, <4>1
      <4> QED BY <2>3, <3>1, <4>1, <4>2 DEF NoticesOf!MovedSince
    <3>3. CASE u = n.user
      <4>1. Len(moves[g]) + 1 \in DOMAIN moves'[g]
        BY <1>3
      <4> QED BY <1>3, <2>3, <3>1, <3>3, <4>1 DEF NoticesOf!MovedSince
    <3> QED BY <2>1, <2>3, <3>2, <3>3
  <2> QED BY <2>2, <2>3
<1> HIDE DEF u
<1> QED BY <1>2, <1>3, <1>4, <1>5

(* A notice is told of: on its way, in the queue, missed or a request.     *)
Told(n) ==
  \/ n \in sent \/ (\E i \in DOMAIN queue : queue[i] = n)
  \/ n \in missed
  \/ \E r \in requests :
       /\ r.game = n.game /\ r.move = n.move /\ r.to = n.user
       /\ r.naming = NoticesOf!Other(n.user) \/ r.late

LEMMA ToldOfAll == TurnsAreTold <=> \A n \in passed : Told(n)
BY DEF TurnsAreTold, NoticesOf!TurnsAreTold, Told

LEMMA MoveStep ==
  ASSUME Turns, NEW g \in Games, NEW next \in NoticesOf!Players,
         NEW lost \in BOOLEAN, NoticesOf!Move(g, next, lost)
  PROVE  Turns'
<1>0. PICK notice : notice = [game |-> g, move |-> Len(moves[g]) + 1, user |-> next]
  OBVIOUS
<1> DEFINE row == [told[g] EXCEPT !.ownersMove = (next = "owner")]
<1>1. /\ told' = [told EXCEPT ![g].ownersMove = (next = "owner")]
      /\ moves' = [moves EXCEPT ![g] = Append(@, NoticesOf!ToAct(g))]
      /\ passed' = passed \union {m \in {notice} : next # NoticesOf!ToAct(g)}
      /\ sent' = sent \union
           {m \in {notice} : NoticesOf!noticed(g, next) /\ ~ lost}
      /\ missed' = missed \union {m \in {notice} : lost}
      /\ UNCHANGED <<queue, token, requests>>
  BY <1>0 DEF NoticesOf!Move
<1>2. /\ row \in [ownersMove : BOOLEAN, ended : BOOLEAN]
      /\ row.ownersMove = (next = "owner")
      /\ told' = [told EXCEPT ![g] = row]
  BY <1>1 DEF Turns, NoticesOK
<1> HIDE DEF row
<1>3. /\ told' \in [Games -> [ownersMove : BOOLEAN, ended : BOOLEAN]]
      /\ moves' \in [Games -> Seq(NoticesOf!Players)]
      /\ Len(moves[g]) \in Nat /\ Len(moves'[g]) = Len(moves[g]) + 1
      /\ \A m \in passed :
           /\ m.move <= Len(moves'[m.game])
           /\ NoticesOf!ToAct(m.game)' = m.user \/ NoticesOf!MovedSince(m)'
  BY <1>1, <1>2, AfterMove DEF Turns
<1>4. notice \in Notice /\ notice.game = g /\ notice.user = next
      /\ notice.move = Len(moves[g]) + 1
  BY <1>0, <1>3 DEF Notice
<1>5. NoticesOf!ToAct(g)' = next
  BY <1>2 DEF NoticesOf!ToAct, NoticesOf!Players, Turns, NoticesOK
<1>6. notice.move <= Len(moves'[g])
  BY <1>3, <1>4
<1>7. NoticesOK'
  <2>1. queue' \in Seq(passed')
    <3>1. queue \in Seq(passed) /\ passed \subseteq passed'
      BY <1>1 DEF Turns, NoticesOK
    <3> QED BY <1>1, <3>1, LenProperties, SeqDef
  <2> QED BY <1>1, <1>3, <1>4, <2>1 DEF Turns, NoticesOK, NoticesOf!noticed
<1>8. TurnOrMoved'
  BY <1>1, <1>3, <1>4, <1>5, <1>6 DEF TurnOrMoved
<1>9. TurnsAreTold'
  <2>1. \A m \in passed : Told(m)'
    BY <1>1, ToldOfAll DEF Turns, Told
  <2>2. notice \in passed' => Told(notice)' \/ notice \in passed
    BY <1>1 DEF Told, NoticesOf!noticed
  <2>3. \A m \in passed' : Told(m)'
    BY <1>1, <2>1, <2>2
  <2> QED BY <2>3 DEF TurnsAreTold, NoticesOf!TurnsAreTold, Told
<1> QED BY <1>7, <1>8, <1>9 DEF Turns

LEMMA EndStep ==
  ASSUME Turns, NEW g \in Games, NoticesOf!End(g)
  PROVE  Turns'
<1>1. PICK row \in [ownersMove : BOOLEAN, ended : BOOLEAN] :
        told' = [told EXCEPT ![g] = row]
  <2>1. PICK next \in NoticesOf!Players :
          told' = [told EXCEPT ![g] = [ownersMove |-> next = "owner",
                                       ended |-> TRUE]]
    BY DEF NoticesOf!End
  <2>2. [ownersMove |-> next = "owner", ended |-> TRUE]
          \in [ownersMove : BOOLEAN, ended : BOOLEAN]
    OBVIOUS
  <2> QED BY <2>1, <2>2
<1>2. /\ moves' = [moves EXCEPT ![g] = Append(@, NoticesOf!ToAct(g))]
      /\ UNCHANGED <<sent, queue, token, requests, passed, missed>>
  BY DEF NoticesOf!End
<1>3. /\ told' \in [Games -> [ownersMove : BOOLEAN, ended : BOOLEAN]]
      /\ moves' \in [Games -> Seq(NoticesOf!Players)]
      /\ \A n \in passed :
           /\ n.move <= Len(moves'[n.game])
           /\ NoticesOf!ToAct(n.game)' = n.user \/ NoticesOf!MovedSince(n)'
  BY <1>1, <1>2, AfterMove DEF Turns
<1>4. NoticesOK' /\ TurnOrMoved'
  BY <1>2, <1>3 DEF Turns, NoticesOK, TurnOrMoved
<1>5. TurnsAreTold'
  BY <1>2 DEF Turns, TurnsAreTold, NoticesOf!TurnsAreTold
<1> QED BY <1>4, <1>5 DEF Turns

LEMMA OnActionStep ==
  ASSUME Turns, NoticesOf!OnAction
  PROVE  Turns'
<1>1. PICK notice \in sent : /\ sent' = sent \ {notice}
                             /\ queue' = Append(queue, notice)
  BY DEF NoticesOf!OnAction
<1>2. UNCHANGED <<told, requests, moves, passed, missed>>
  BY DEF NoticesOf!OnAction
<1>3. notice \in passed /\ queue \in Seq(passed)
  BY DEF Turns, NoticesOK
<1>4. /\ queue' \in Seq(passed)
      /\ DOMAIN queue = 1 .. Len(queue) /\ DOMAIN queue' = 1 .. Len(queue) + 1
      /\ \A i \in 1 .. Len(queue) : queue'[i] = queue[i]
      /\ queue'[Len(queue) + 1] = notice /\ Len(queue) \in Nat
  BY <1>1, <1>3, AppendFacts
<1>5. NoticesOK' /\ TurnOrMoved'
  BY <1>1, <1>2, <1>4
     DEF Turns, NoticesOK, TurnOrMoved, NoticesOf!ToAct, NoticesOf!MovedSince
<1>6. \A n \in passed : Told(n)'
  <2>1. \A n : (\E i \in DOMAIN queue : queue[i] = n) \/ n = notice
          => \E i \in DOMAIN queue' : queue'[i] = n
    BY <1>4
  <2> QED BY <1>1, <1>2, <2>1, ToldOfAll DEF Turns, Told
<1> QED BY <1>2, <1>5, <1>6 DEF Turns, TurnsAreTold, NoticesOf!TurnsAreTold, Told

(* A notice is handled: the request names the other, or comes late.        *)
LEMMA HandleStep ==
  ASSUME Turns, NEW lost \in BOOLEAN, NoticesOf!Handle(lost)
  PROVE  Turns'
<1>0. PICK notice, request :
        /\ notice = Head(queue)
        /\ request = [game |-> notice.game, move |-> notice.move,
                      to |-> notice.user,
                      naming |-> NoticesOf!waiting(told[notice.game]),
                      late |-> NoticesOf!MovedSince(notice)]
  OBVIOUS
<1>1. /\ queue # << >> /\ queue' = Tail(queue)
      /\ requests' = requests \union
           {r \in {request} : token = "valid" /\ ~ lost}
      /\ missed' = missed \union {n \in {notice} : token # "valid" \/ lost}
      /\ UNCHANGED <<told, sent, moves, passed>>
  BY <1>0 DEF NoticesOf!Handle
<1>2. queue \in Seq(passed)
  BY DEF Turns, NoticesOK
<1>3. /\ notice \in passed /\ queue' \in Seq(passed)
      /\ \A i \in DOMAIN queue : queue[i] = notice \/ \E j \in DOMAIN queue' :
           queue'[j] = queue[i]
  <2>1. /\ Len(queue) \in Nat \ {0} /\ DOMAIN queue = 1 .. Len(queue)
        /\ Head(queue) = queue[1] /\ Head(queue) \in passed
    BY <1>0, <1>1, <1>2, EmptySeq, LenProperties, HeadTailProperties
  <2>2. /\ queue' \in Seq(passed) /\ Len(queue') = Len(queue) - 1
        /\ DOMAIN queue' = 1 .. Len(queue) - 1
        /\ \A j \in 1 .. Len(queue) - 1 : queue'[j] = queue[j + 1]
    BY <1>1, <1>2, HeadTailProperties, LenProperties
  <2>3. ASSUME NEW i \in DOMAIN queue, i # 1
        PROVE  \E j \in DOMAIN queue' : queue'[j] = queue[i]
    <3>1. i - 1 \in 1 .. Len(queue) - 1 /\ (i - 1) + 1 = i
      BY <2>1, <2>3
    <3> QED BY <2>2, <3>1
  <2> QED BY <1>0, <2>1, <2>2, <2>3
<1>4. /\ request.game = notice.game /\ request.move = notice.move
      /\ request.to = notice.user
      /\ request.naming = NoticesOf!Other(notice.user) \/ request.late
  <2>1. /\ notice.user \in NoticesOf!Players
        /\ NoticesOf!ToAct(notice.game) = notice.user
             \/ NoticesOf!MovedSince(notice)
    BY <1>3 DEF Turns, NoticesOK, Notice, TurnOrMoved
  <2>2. NoticesOf!ToAct(notice.game) = notice.user =>
          NoticesOf!waiting(told[notice.game]) = NoticesOf!Other(notice.user)
    BY <2>1 DEF NoticesOf!ToAct, NoticesOf!waiting, NoticesOf!Other,
                NoticesOf!Players
  <2> QED BY <1>0, <2>1, <2>2
<1>5. NoticesOK' /\ TurnOrMoved'
  BY <1>1, <1>3
     DEF Turns, NoticesOK, TurnOrMoved, NoticesOf!ToAct, NoticesOf!MovedSince
<1>6. \A n \in passed : Told(n)'
  <2>1. notice \in missed' \/ request \in requests'
    BY <1>1
  <2>2. Told(notice)'
    BY <1>4, <2>1 DEF Told
  <2>3. ASSUME NEW n \in passed, n # notice
        PROVE  Told(n)'
    BY <1>1, <1>3, <2>3, ToldOfAll DEF Turns, Told
  <2> QED BY <2>2, <2>3
<1> QED BY <1>1, <1>5, <1>6 DEF Turns, TurnsAreTold, NoticesOf!TurnsAreTold, Told

LEMMA RestartStep ==
  ASSUME Turns, NoticesOf!Restart
  PROVE  Turns'
<1>1. /\ sent' = {} /\ queue' = << >>
      /\ missed' = missed \union sent \union {queue[i] : i \in DOMAIN queue}
      /\ UNCHANGED <<told, requests, moves, passed>>
  BY DEF NoticesOf!Restart
<1>2. NoticesOK' /\ TurnOrMoved'
  BY <1>1
     DEF Turns, NoticesOK, TurnOrMoved, NoticesOf!ToAct, NoticesOf!MovedSince
<1>3. \A n \in passed : Told(n)'
  BY <1>1, ToldOfAll DEF Turns, Told
<1> QED BY <1>1, <1>2, <1>3 DEF Turns, TurnsAreTold, NoticesOf!TurnsAreTold, Told

LEMMA TurnsStep ==
  Turns /\ [BackgroundNext]_<<part, vars, noticesVars>> => Turns'
<1> SUFFICES ASSUME Turns, [BackgroundNext]_<<part, vars, noticesVars>>
             PROVE  Turns'
  OBVIOUS
<1>1. CASE UNCHANGED <<told, sent, queue, requests, moves, passed, missed>>
  BY <1>1 DEF Turns, NoticesOK, TurnOrMoved, NoticesOf!ToAct,
              NoticesOf!MovedSince, TurnsAreTold, NoticesOf!TurnsAreTold
<1>2. CASE NoticesOf!Next
  <2>1. NoticesOf!Expire \/ (\E lost \in BOOLEAN : NoticesOf!Renew(lost)) =>
          UNCHANGED <<told, sent, queue, requests, moves, passed, missed>>
    BY DEF NoticesOf!Expire, NoticesOf!Renew
  <2> QED BY <1>1, <1>2, <2>1, MoveStep, EndStep, OnActionStep, HandleStep,
             RestartStep DEF NoticesOf!Next
<1> QED BY <1>1, <1>2 DEF BackgroundNext, noticesVars

(* Whoever gets the turn gets a request that names the other, unless the   *)
(* notice is lost; only a late one may name the player (NextMoveHandler).  *)
THEOREM WhoeverIsToActIsTold == BackgroundSpec => []TurnsAreTold
<1>1. BackgroundInit => Turns
  <2> SUFFICES ASSUME NoticesOf!Init
               PROVE  Turns
    BY DEF BackgroundInit
  <2>1. /\ told = [g \in Games |-> [ownersMove |-> TRUE, ended |-> FALSE]]
        /\ moves = [g \in Games |-> << >>] /\ queue = << >>
        /\ sent = {} /\ passed = {}
    BY DEF NoticesOf!Init
  <2> QED BY <2>1 DEF Turns, NoticesOK, TurnOrMoved, TurnsAreTold,
                      NoticesOf!TurnsAreTold
<1>2. Turns => TurnsAreTold
  BY DEF Turns
<1> QED BY <1>1, <1>2, TurnsStep, PTL DEF BackgroundSpec

-----------------------------------------------------------------------------
(* GameRecords.  The rows, and what the handlers have read of them.        *)

Row == [status : {"ACTIVE", "FINISHED"}, winner : Users \union {NoUser},
        old : BOOLEAN]
StatsRow == [totalGames : Nat, gamesWon : Nat, gamesLost : Nat,
             gamesDrawn : Nat, sentInvitesAccepted : Nat]
Work(g) == [at : {"update", "finish"}, row : Row,
            stats : [PlayersOf(g) -> StatsRow], outcome : Outcomes(g)]

(* A game that the table has read as finished is: only the table of a game *)
(* writes it back to active.                                               *)
WorkOK(g) ==
  \/ table[g] = Idle
  \/ table[g] = [at |-> "ended"]
  \/ /\ table[g] \in Work(g)
     /\ table[g].at = "finish" => table[g].outcome # "moved"
     /\ table[g].row.status = "ACTIVE" => table[g].row.winner = NoUser
     /\ table[g].row.status = "FINISHED" =>
          /\ game[g].status = "FINISHED"
          /\ \/ game[g].winner = table[g].row.winner
             \/ PlayersOf(g) \subseteq miscounted

ReaperOK ==
  \/ reaper = Idle
  \/ \E games \in SUBSET Games :
       /\ reaper.row \in [games -> Row]
       /\ reaper.stats \in [UNION {PlayersOf(g) : g \in games} -> StatsRow]

RecordsOK ==
  /\ game \in [Games -> Row]
  /\ \A g \in Games : game[g].status = "ACTIVE" => game[g].winner = NoUser
  /\ stats \in [Users -> StatsRow]
  /\ DOMAIN table = Games
  /\ \A g \in Games : WorkOK(g)
  /\ ReaperOK
  /\ answer = Idle \/ \E u \in Users : answer.stats \in [{u} -> StatsRow]
  /\ accepted \in [Users -> Nat]
  /\ miscounted \in SUBSET Users

Finished(u, winners) ==
  {g \in Games : /\ u \in PlayersOf(g) /\ game[g].status = "FINISHED"
                 /\ game[g].winner \in winners}
Ended(u, games, winner, winners) ==
  {g \in games : u \in PlayersOf(g) /\ winner[g] \in winners}

Winners == Users \union {NoUser}

Counted(u) ==
  /\ stats[u].totalGames = Cardinality(Finished(u, Winners))
  /\ stats[u].gamesWon = Cardinality(Finished(u, {u}))
  /\ stats[u].gamesDrawn = Cardinality(Finished(u, {NoUser}))
  /\ stats[u].gamesLost = Cardinality(Finished(u, Users \ {u}))
  /\ stats[u].sentInvitesAccepted = accepted[u]

LEMMA CountedOfAll == StatsMatchGames <=> \A u \in Users \ miscounted : Counted(u)
BY DEF StatsMatchGames, Counted, Finished, Winners

LEMMA Players ==
  ASSUME NEW g \in Games
  PROVE  PlayersOf(g) \subseteq Users
BY PlayersAssumption DEF PlayersOf

(* A row that counts the games of its user that have just ended.           *)
Adds(row, old, u, games, winner) ==
  /\ row \in StatsRow
  /\ row.totalGames =
       old.totalGames + Cardinality(Ended(u, games, winner, Winners))
  /\ row.gamesWon = old.gamesWon + Cardinality(Ended(u, games, winner, {u}))
  /\ row.gamesDrawn =
       old.gamesDrawn + Cardinality(Ended(u, games, winner, {NoUser}))
  /\ row.gamesLost =
       old.gamesLost + Cardinality(Ended(u, games, winner, Users \ {u}))
  /\ row.sentInvitesAccepted = old.sentInvitesAccepted

LEMMA UpdatedStats ==
  ASSUME NEW games \in SUBSET Games, NEW winner, NEW st, NEW u \in DOMAIN st,
         st[u] \in StatsRow
  PROVE  Adds(updateStats(st, games, winner)[u], st[u], u, games, winner)
<1>1. PICK row : row = updateStats(st, games, winner)[u]
  OBVIOUS
<1> DEFINE n(winners) == Cardinality(Ended(u, games, winner, winners))
<1>2. \A winners : n(winners) \in Nat
  <2> SUFFICES ASSUME NEW winners
               PROVE  n(winners) \in Nat
    OBVIOUS
  <2>1. Ended(u, games, winner, winners) \subseteq Games
    BY DEF Ended
  <2> QED BY <2>1, GamesAssumption, FS_Subset, FS_CardinalityType
<1>3. row = [st[u] EXCEPT !.totalGames = @ + n(Winners), !.gamesWon = @ + n({u}),
                          !.gamesDrawn = @ + n({NoUser}),
                          !.gamesLost = @ + n(Users \ {u})]
  BY <1>1 DEF updateStats, Ended, Winners
<1> HIDE DEF n
<1>4. PICK old \in StatsRow, a, b, c, d \in Nat :
        /\ old = st[u] /\ a = n(Winners) /\ b = n({u}) /\ c = n({NoUser})
        /\ d = n(Users \ {u})
  BY <1>2
<1>5. row = [old EXCEPT !.totalGames = @ + a, !.gamesWon = @ + b,
                        !.gamesDrawn = @ + c, !.gamesLost = @ + d]
  BY <1>3, <1>4
<1>6. row.totalGames = old.totalGames + a
  BY <1>5 DEF StatsRow
<1>7. row.gamesWon = old.gamesWon + b
  BY <1>5 DEF StatsRow
<1>8. row.gamesDrawn = old.gamesDrawn + c
  BY <1>5 DEF StatsRow
<1>9. row.gamesLost = old.gamesLost + d
  BY <1>5 DEF StatsRow
<1>10. row.sentInvitesAccepted = old.sentInvitesAccepted
  BY <1>5 DEF StatsRow
<1>11. row = [totalGames |-> row.totalGames, gamesWon |-> row.gamesWon,
              gamesLost |-> row.gamesLost, gamesDrawn |-> row.gamesDrawn,
              sentInvitesAccepted |-> row.sentInvitesAccepted]
  BY <1>5 DEF StatsRow
<1>12. row \in StatsRow
  BY <1>6, <1>7, <1>8, <1>9, <1>10, <1>11 DEF StatsRow
<1>13. /\ row \in StatsRow
       /\ row.totalGames = st[u].totalGames + n(Winners)
       /\ row.gamesWon = st[u].gamesWon + n({u})
       /\ row.gamesDrawn = st[u].gamesDrawn + n({NoUser})
       /\ row.gamesLost = st[u].gamesLost + n(Users \ {u})
       /\ row.sentInvitesAccepted = st[u].sentInvitesAccepted
  BY <1>4, <1>6, <1>7, <1>8, <1>9, <1>10, <1>12
<1> QED BY <1>1, <1>13 DEF n, Adds

(* Games that the player had not finished add to those that have ended.    *)
LEMMA MoreFinished ==
  ASSUME NEW games \in SUBSET Games, NEW winner, NEW u \in Users, NEW winners,
         \A g \in Games \ games : game'[g] = game[g],
         \A g \in games : u \in PlayersOf(g) =>
           /\ game[g].status # "FINISHED" /\ game'[g].status = "FINISHED"
           /\ game'[g].winner = winner[g]
  PROVE  Cardinality(Finished(u, winners)') =
           Cardinality(Finished(u, winners))
             + Cardinality(Ended(u, games, winner, winners))
<1> DEFINE F == Finished(u, winners)
           E == Ended(u, games, winner, winners)
<1>1. Finished(u, winners)' = F \union E /\ F \cap E = {}
  BY DEF Finished, Ended
<1>2. F \subseteq Games /\ E \subseteq Games
  BY DEF Finished, Ended
<1>3. IsFiniteSet(F) /\ IsFiniteSet(E)
  BY <1>2, GamesAssumption, FS_Subset
<1>4. Cardinality(F \union E) = Cardinality(F) + Cardinality(E)
  <2> HIDE DEF F, E
  <2>1. /\ Cardinality(F) \in Nat /\ Cardinality(E) \in Nat
        /\ Cardinality(F \union E)
             = Cardinality(F) + Cardinality(E) - Cardinality(F \cap E)
    BY <1>3, FS_Union, FS_CardinalityType
  <2>2. Cardinality(F \cap E) = 0
    BY <1>1, FS_EmptySet
  <2> QED BY <2>1, <2>2
<1> QED BY <1>1, <1>4

(* A commit of finished games, by whichever task: it has read the rows st. *)
LEMMA Committed ==
  ASSUME RecordsOK, StatsMatchGames,
         NEW games \in SUBSET Games, NEW winner, NEW st,
         st \in [UNION {PlayersOf(g) : g \in games} -> StatsRow],
         stats' = Written(updateStats(st, games, winner)),
         accepted' = accepted,
         \A g \in Games \ games : game'[g] = game[g],
         \A g \in games : /\ game'[g].status = "FINISHED"
                          /\ game[g].status = "ACTIVE" =>
                               game'[g].winner = winner[g],
         miscounted' \in SUBSET Users,
         miscounted \union Stale(st) \subseteq miscounted',
         \A g \in games : game[g].status = "FINISHED" =>
           PlayersOf(g) \subseteq miscounted'
  PROVE  StatsMatchGames' /\ stats' \in [Users -> StatsRow]
<1> DEFINE S == UNION {PlayersOf(g) : g \in games}
<1>1. S \in SUBSET Users /\ DOMAIN updateStats(st, games, winner) = S
  BY Players DEF updateStats
<1>2. /\ DOMAIN stats' = Users
      /\ \A u \in S : stats'[u] = updateStats(st, games, winner)[u]
      /\ \A u \in Users \ S : stats'[u] = stats[u]
  <2>1. stats' = [u \in Users |->
          IF u \in S THEN updateStats(st, games, winner)[u] ELSE stats[u]]
    BY <1>1 DEF Written
  <2> HIDE DEF S
  <2> QED BY <1>1, <2>1
<1>3. ASSUME NEW u \in S
      PROVE  Adds(stats'[u], st[u], u, games, winner)
  <2>1. u \in DOMAIN st /\ st[u] \in StatsRow
    OBVIOUS
  <2>2. Adds(updateStats(st, games, winner)[u], st[u], u, games, winner)
    BY <2>1, UpdatedStats
  <2> QED BY <1>2, <2>2
<1>4. stats' \in [Users -> StatsRow]
  <2>1. stats' = [u \in Users |-> stats'[u]]
    BY <1>2, <1>1 DEF Written
  <2>2. \A u \in Users : stats'[u] \in StatsRow
    BY <1>2, <1>3 DEF RecordsOK, Adds
  <2> QED BY <2>1, <2>2
<1>5. ASSUME NEW u \in Users \ miscounted'
      PROVE  Counted(u)'
  <2>1. Counted(u)
    BY <1>5, CountedOfAll
  <2>2. \A g \in games : u \in PlayersOf(g) =>
          /\ game[g].status # "FINISHED" /\ game'[g].status = "FINISHED"
          /\ game'[g].winner = winner[g]
    BY <1>5 DEF RecordsOK, Row
  <2>3. \A winners : Cardinality(Finished(u, winners)') =
           Cardinality(Finished(u, winners))
             + Cardinality(Ended(u, games, winner, winners))
    BY <2>2, MoreFinished
  <2>4. CASE u \in S
    <3>1. st[u] = stats[u]
      BY <1>5, <2>4 DEF Stale
    <3>2. Adds(stats'[u], stats[u], u, games, winner)
      BY <1>3, <2>4, <3>1
    <3> QED BY <2>1, <2>3, <3>2 DEF Counted, Adds, Winners
  <2>5. CASE u \notin S
    <3>1. stats'[u] = stats[u]
      BY <1>2, <2>5
    <3>2. \A winners : Finished(u, winners)' = Finished(u, winners)
      BY <2>5 DEF Finished
    <3> QED BY <2>1, <3>1, <3>2 DEF Counted, Winners
  <2> QED BY <2>4, <2>5
<1> QED BY <1>4, <1>5 DEF StatsMatchGames, Counted, Finished, Winners

(* Neither the rows nor what has been counted change.                      *)
LEMMA SameRows ==
  ASSUME UNCHANGED <<game, stats, accepted, miscounted>>
  PROVE  StatsMatchGames' <=> StatsMatchGames
<1>1. \A u, winners : Finished(u, winners)' = Finished(u, winners)
  BY DEF Finished
<1>2. \A u \in Users : Counted(u)' <=> Counted(u)
  BY <1>1 DEF Counted, Winners
<1>3. StatsMatchGames' <=> \A u \in Users \ miscounted' : Counted(u)'
  BY DEF StatsMatchGames, Counted, Finished, Winners
<1> QED BY <1>2, <1>3, CountedOfAll

(* The rows of the games change, but not what has finished and how.        *)
LEMMA SameFinished ==
  ASSUME RecordsOK, StatsMatchGames, stats' = stats, accepted' = accepted,
         miscounted \subseteq miscounted',
         \A g \in Games :
           \/ PlayersOf(g) \subseteq miscounted'
           \/ game'[g].status = game[g].status /\ game'[g].winner = game[g].winner
  PROVE  StatsMatchGames'
<1>1. ASSUME NEW u \in Users \ miscounted'
      PROVE  Counted(u)'
  <2>1. Counted(u)
    BY <1>1, CountedOfAll
  <2>2. \A winners : Finished(u, winners)' = Finished(u, winners)
    BY <1>1 DEF Finished
  <2> QED BY <2>1, <2>2 DEF Counted, Winners
<1> QED BY <1>1 DEF StatsMatchGames, Counted, Finished, Winners

Records == RecordsOK /\ StatsMatchGames

LEMMA ReadGameStep ==
  ASSUME Records, NEW g \in Games, NEW outcome \in Outcomes(g),
         ReadGame(g, outcome)
  PROVE  Records'
<1>1. PICK work :
        /\ work = [at |-> "update", row |-> [game[g] EXCEPT !.old = FALSE],
                   stats |-> [u \in PlayersOf(g) |-> stats[u]],
                   outcome |-> outcome]
        /\ table' = [table EXCEPT ![g] = work]
  BY DEF ReadGame
<1>2. UNCHANGED <<game, stats, reaper, answer, accepted, miscounted>>
  BY DEF ReadGame
<1>3. PICK row \in Row : /\ row = [game[g] EXCEPT !.old = FALSE]
                         /\ row.status = game[g].status
                         /\ row.winner = game[g].winner
  <2>1. PICK old \in Row : old = game[g]
    BY DEF Records, RecordsOK
  <2>2. [old EXCEPT !.old = FALSE] \in Row
    BY DEF Row
  <2> QED BY <2>1, <2>2 DEF Row
<1>4. [u \in PlayersOf(g) |-> stats[u]] \in [PlayersOf(g) -> StatsRow]
  BY Players DEF Records, RecordsOK
<1>5. /\ work \in Work(g) /\ work.at = "update" /\ work.row = row
  BY <1>1, <1>3, <1>4 DEF Work
<1>6. /\ DOMAIN table' = Games /\ table'[g] = work
      /\ \A h \in Games : h # g => table'[h] = table[h]
  BY <1>1 DEF Records, RecordsOK
<1>7. WorkOK(g)'
  <2>1. row.status = "ACTIVE" => row.winner = NoUser
    BY <1>3 DEF Records, RecordsOK
  <2> QED BY <1>2, <1>3, <1>5, <1>6, <2>1 DEF WorkOK, Work
<1>8. \A h \in Games : WorkOK(h)'
  BY <1>2, <1>6, <1>7 DEF Records, RecordsOK, WorkOK
<1>9. StatsMatchGames'
  BY <1>2, SameRows DEF Records
<1> QED BY <1>2, <1>6, <1>8, <1>9 DEF Records, RecordsOK, ReaperOK

LEMMA UpdateGameStep ==
  ASSUME Records, NEW g \in Games, UpdateGame(g)
  PROVE  Records'
<1>1. PICK work : work = table[g]
  OBVIOUS
<1>2. /\ work.at = "update"
      /\ game' = [game EXCEPT ![g] = work.row]
      /\ table' = [table EXCEPT ![g] =
           IF work.outcome = "moved" THEN Idle ELSE [work EXCEPT !.at = "finish"]]
      /\ miscounted' = miscounted \union
           IF game[g].status # work.row.status THEN PlayersOf(g) ELSE {}
      /\ UNCHANGED <<stats, reaper, answer, accepted>>
  BY <1>1 DEF UpdateGame
<1>3. /\ work \in Work(g)
      /\ work.row.status = "ACTIVE" => work.row.winner = NoUser
      /\ work.row.status = "FINISHED" =>
           /\ game[g].status = "FINISHED"
           /\ \/ game[g].winner = work.row.winner
              \/ PlayersOf(g) \subseteq miscounted
  BY <1>1, <1>2 DEF Records, RecordsOK, WorkOK, Idle
<1>4. PICK next : /\ next = IF work.outcome = "moved" THEN Idle
                            ELSE [work EXCEPT !.at = "finish"]
                  /\ table' = [table EXCEPT ![g] = next]
  BY <1>2
<1>5. work.row \in Row
  BY <1>3 DEF Work
<1>6. \/ next = Idle
      \/ /\ next \in Work(g) /\ next.outcome # "moved" /\ next.row = work.row
         /\ next.at = "finish"
  BY <1>3, <1>4 DEF Work
<1>7. /\ DOMAIN table' = Games /\ table'[g] = next
      /\ \A h \in Games : h # g => table'[h] = table[h]
      /\ game' \in [Games -> Row] /\ game'[g] = work.row
      /\ \A h \in Games : h # g => game'[h] = game[h]
  BY <1>2, <1>4, <1>5 DEF Records, RecordsOK
<1>8. miscounted \subseteq miscounted' /\ miscounted' \in SUBSET Users
  BY <1>2, Players DEF Records, RecordsOK
<1>9. StatsMatchGames'
  <2>1. \/ PlayersOf(g) \subseteq miscounted'
        \/ game'[g].status = game[g].status /\ game'[g].winner = game[g].winner
    BY <1>2, <1>3, <1>5, <1>7, <1>8 DEF Records, RecordsOK, Row
  <2> QED BY <1>2, <1>7, <1>8, <2>1, SameFinished DEF Records
<1>10. WorkOK(g)'
  BY <1>3, <1>6, <1>7 DEF WorkOK
<1>11. \A h \in Games : WorkOK(h)'
  BY <1>7, <1>8, <1>10 DEF Records, RecordsOK, WorkOK
<1>12. \A h \in Games : game'[h].status = "ACTIVE" => game'[h].winner = NoUser
  BY <1>3, <1>7 DEF Records, RecordsOK
<1> QED BY <1>2, <1>7, <1>8, <1>9, <1>11, <1>12 DEF Records, RecordsOK, ReaperOK

(* A row as finishGame leaves it.                                          *)
LEMMA FinishedRow ==
  ASSUME NEW row \in Row, NEW winner \in Winners
  PROVE  /\ finishGame(row, winner) \in Row
         /\ finishGame(row, winner).status = "FINISHED"
         /\ row.winner = NoUser \/ winner # NoUser =>
              finishGame(row, winner).winner = winner
BY DEF finishGame, Row, Winners

LEMMA FinishGameStep ==
  ASSUME Records, NEW g \in Games, FinishGame(g)
  PROVE  Records'
<1>1. PICK work : work = table[g]
  OBVIOUS
<1>2. /\ work.at = "finish"
      /\ game' = [game EXCEPT ![g] = finishGame(work.row, work.outcome)]
      /\ stats' = Written(updateStats(work.stats, {g},
                                      [h \in {g} |-> work.outcome]))
      /\ table' = [table EXCEPT ![g] = [at |-> "ended"]]
      /\ miscounted' = miscounted \union Stale(work.stats) \union
           IF game[g].status = "FINISHED" THEN PlayersOf(g) ELSE {}
      /\ UNCHANGED <<reaper, answer, accepted>>
  BY <1>1 DEF FinishGame
<1>3. /\ work \in Work(g) /\ work.outcome # "moved"
      /\ work.row.status = "ACTIVE" => work.row.winner = NoUser
      /\ work.row.status = "FINISHED" => game[g].status = "FINISHED"
  BY <1>1, <1>2 DEF Records, RecordsOK, WorkOK, Idle
<1>4. work.outcome \in Winners /\ work.row \in Row
      /\ work.stats \in [PlayersOf(g) -> StatsRow]
  <2>1. work.outcome \in Outcomes(g)
    BY <1>3 DEF Work
  <2> QED BY <1>3, <2>1, Players DEF Work, Outcomes, PlayersOf, Winners
<1>5. PICK row \in Row : /\ row = finishGame(work.row, work.outcome)
                         /\ row.status = "FINISHED"
                         /\ game[g].status = "ACTIVE" => row.winner = work.outcome
  BY <1>3, <1>4, FinishedRow DEF Row
<1>6. /\ DOMAIN table' = Games /\ table'[g] = [at |-> "ended"]
      /\ \A h \in Games : h # g => table'[h] = table[h]
      /\ game' \in [Games -> Row] /\ game'[g] = row
      /\ \A h \in Games : h # g => game'[h] = game[h]
  BY <1>2, <1>5 DEF Records, RecordsOK
<1>7. miscounted \subseteq miscounted' /\ miscounted' \in SUBSET Users
  <2>1. Stale(work.stats) \subseteq Users
    BY <1>4, Players DEF Stale
  <2> QED BY <1>2, <2>1, Players DEF Records, RecordsOK
<1>8. StatsMatchGames' /\ stats' \in [Users -> StatsRow]
  <2>1. PICK games : games = {g}
    OBVIOUS
  <2>2. PICK winner : winner = [h \in {g} |-> work.outcome]
    OBVIOUS
  <2>3. UNION {PlayersOf(h) : h \in games} = PlayersOf(g)
    BY <2>1
  <2>4. /\ games \in SUBSET Games
        /\ work.stats \in [UNION {PlayersOf(h) : h \in games} -> StatsRow]
        /\ stats' = Written(updateStats(work.stats, games, winner))
        /\ \A h \in Games \ games : game'[h] = game[h]
        /\ \A h \in games : /\ game'[h].status = "FINISHED"
                            /\ game[h].status = "ACTIVE" =>
                                 game'[h].winner = winner[h]
        /\ miscounted \union Stale(work.stats) \subseteq miscounted'
        /\ \A h \in games : game[h].status = "FINISHED" =>
             PlayersOf(h) \subseteq miscounted'
    BY <1>2, <1>4, <1>5, <1>6, <2>1, <2>2, <2>3
  <2> QED BY <1>2, <1>7, <2>4, Committed DEF Records
<1>9. \A h \in Games : WorkOK(h)'
  BY <1>6, <1>7 DEF Records, RecordsOK, WorkOK
<1>10. \A h \in Games : game'[h].status = "ACTIVE" => game'[h].winner = NoUser
  BY <1>5, <1>6 DEF Records, RecordsOK
<1> QED BY <1>2, <1>6, <1>7, <1>8, <1>9, <1>10 DEF Records, RecordsOK, ReaperOK

LEMMA AgeStep ==
  ASSUME Records, NEW g \in Games, Age(g)
  PROVE  Records'
<1>1. PICK row : row = [game[g] EXCEPT !.old = TRUE]
                 /\ game' = [game EXCEPT ![g] = row]
  BY DEF Age
<1>2. UNCHANGED <<stats, table, reaper, answer, accepted, miscounted>>
  BY DEF Age
<1>3. /\ row \in Row /\ row.status = game[g].status
      /\ row.winner = game[g].winner
  <2>1. PICK old \in Row : old = game[g]
    BY DEF Records, RecordsOK
  <2>2. [old EXCEPT !.old = TRUE] \in Row
    BY DEF Row
  <2> QED BY <1>1, <2>1, <2>2 DEF Row
<1>4. /\ game' \in [Games -> Row]
      /\ \A h \in Games : /\ game'[h].status = game[h].status
                          /\ game'[h].winner = game[h].winner
  BY <1>1, <1>3 DEF Records, RecordsOK
<1>5. StatsMatchGames'
  BY <1>2, <1>4, SameFinished DEF Records
<1>6. \A h \in Games : WorkOK(h)'
  BY <1>2, <1>4 DEF Records, RecordsOK, WorkOK
<1> QED BY <1>2, <1>4, <1>5, <1>6 DEF Records, RecordsOK, ReaperOK

LEMMA ReapReadStep ==
  ASSUME Records, ReapRead
  PROVE  Records'
<1>1. PICK games \in SUBSET Games :
        reaper' = [at |-> "finish", row |-> [g \in games |-> game[g]],
          stats |-> [u \in UNION {PlayersOf(g) : g \in games} |-> stats[u]]]
  <2>1. {g \in Games : game[g].status = "ACTIVE" /\ game[g].old} \in SUBSET Games
    OBVIOUS
  <2> QED BY <2>1 DEF ReapRead
<1>2. UNCHANGED <<game, stats, table, answer, accepted, miscounted>>
  BY DEF ReapRead
<1>3. [g \in games |-> game[g]] \in [games -> Row]
  BY DEF Records, RecordsOK
<1>4. [u \in UNION {PlayersOf(g) : g \in games} |-> stats[u]]
        \in [UNION {PlayersOf(g) : g \in games} -> StatsRow]
  BY Players DEF Records, RecordsOK
<1>5. ReaperOK'
  BY <1>1, <1>3, <1>4 DEF ReaperOK
<1>6. StatsMatchGames'
  BY <1>2, SameRows DEF Records
<1> QED BY <1>2, <1>5, <1>6 DEF Records, RecordsOK, WorkOK

LEMMA ReapCommitStep ==
  ASSUME Records, NEW winner \in [Games -> Users],
         \A g \in Games : winner[g] \in PlayersOf(g), ReapCommit(winner)
  PROVE  Records'
<1>1. PICK games \in SUBSET Games :
        /\ reaper.row \in [games -> Row]
        /\ reaper.stats \in [UNION {PlayersOf(g) : g \in games} -> StatsRow]
  BY DEF ReapCommit, Records, RecordsOK, ReaperOK
<1>2. games = DOMAIN reaper.row
  BY <1>1
<1>3. PICK st : st = reaper.stats
  OBVIOUS
<1>4. /\ game' = [g \in Games |->
           IF g \in games THEN finishGame(reaper.row[g], winner[g]) ELSE game[g]]
      /\ stats' = Written(updateStats(st, games, winner))
      /\ reaper' = Idle
      /\ miscounted' = miscounted \union Stale(st) \union
           UNION {PlayersOf(g) : g \in {h \in games : game[h].status = "FINISHED"}}
      /\ UNCHANGED <<table, answer, accepted>>
  BY <1>2, <1>3 DEF ReapCommit
<1>5. \A g \in games : /\ game'[g] \in Row /\ game'[g].status = "FINISHED"
                       /\ game'[g].winner = winner[g]
  <2> SUFFICES ASSUME NEW g \in games
               PROVE  /\ game'[g] \in Row /\ game'[g].status = "FINISHED"
                      /\ game'[g].winner = winner[g]
    OBVIOUS
  <2>1. reaper.row[g] \in Row /\ winner[g] \in Winners /\ winner[g] # NoUser
    BY <1>1, UsersAssumption DEF Winners
  <2> QED BY <1>4, <2>1, FinishedRow
<1>6. /\ DOMAIN game' = Games
      /\ \A g \in Games \ games : game'[g] = game[g]
  BY <1>4
<1>7. game' \in [Games -> Row]
  <2>1. game' = [g \in Games |-> game'[g]]
    BY <1>4
  <2>2. \A g \in Games : game'[g] \in Row
    BY <1>5, <1>6 DEF Records, RecordsOK
  <2> QED BY <2>1, <2>2
<1>8. /\ miscounted \subseteq miscounted' /\ miscounted' \in SUBSET Users
      /\ Stale(st) \subseteq miscounted'
      /\ \A g \in games : game[g].status = "FINISHED" =>
           PlayersOf(g) \subseteq miscounted'
  <2>1. Stale(st) \subseteq Users
    BY <1>1, <1>3, Players DEF Stale
  <2> QED BY <1>4, <2>1, Players DEF Records, RecordsOK
<1>9. StatsMatchGames' /\ stats' \in [Users -> StatsRow]
  <2>1. RecordsOK /\ StatsMatchGames
    BY DEF Records
  <2>2. st \in [UNION {PlayersOf(g) : g \in games} -> StatsRow]
    BY <1>1, <1>3
  <2>3. stats' = Written(updateStats(st, games, winner)) /\ accepted' = accepted
    BY <1>4
  <2>4. \A g \in games : /\ game'[g].status = "FINISHED"
                         /\ game[g].status = "ACTIVE" =>
                              game'[g].winner = winner[g]
    BY <1>5
  <2>5. miscounted \union Stale(st) \subseteq miscounted'
    BY <1>8
  <2> QED BY <1>6, <1>8, <2>1, <2>2, <2>3, <2>4, <2>5, Committed
<1>10. ASSUME NEW h \in Games
       PROVE  WorkOK(h)'
  <2>1. WorkOK(h) /\ table'[h] = table[h]
    BY <1>4 DEF Records, RecordsOK
  <2>2. CASE h \in games
    <3>1. game[h].status = "FINISHED" => PlayersOf(h) \subseteq miscounted'
      BY <1>8, <2>2
    <3> QED BY <1>5, <2>1, <2>2, <3>1 DEF WorkOK
  <2>3. CASE h \notin games
    BY <1>6, <1>8, <2>1, <2>3 DEF WorkOK
  <2> QED BY <2>2, <2>3
<1>11. \A h \in Games : game'[h].status = "ACTIVE" => game'[h].winner = NoUser
  BY <1>5, <1>6 DEF Records, RecordsOK
<1>12. ReaperOK'
  BY <1>4 DEF ReaperOK
<1> QED BY <1>4, <1>7, <1>8, <1>9, <1>10, <1>11, <1>12 DEF Records, RecordsOK

LEMMA AnswerReadStep ==
  ASSUME Records, NEW u \in Users, AnswerRead(u)
  PROVE  Records'
<1>1. /\ answer' = [at |-> "commit", stats |-> [v \in {u} |-> stats[v]]]
      /\ UNCHANGED <<game, stats, table, reaper, accepted, miscounted>>
  BY DEF AnswerRead
<1>2. [v \in {u} |-> stats[v]] \in [{u} -> StatsRow]
  BY DEF Records, RecordsOK
<1>3. StatsMatchGames'
  BY <1>1, SameRows DEF Records
<1> QED BY <1>1, <1>2, <1>3 DEF Records, RecordsOK, ReaperOK, WorkOK

LEMMA AnswerCommitStep ==
  ASSUME Records, AnswerCommit
  PROVE  Records'
<1>0. PICK u \in Users : answer.stats \in [{u} -> StatsRow]
  BY DEF AnswerCommit, Records, RecordsOK
<1>1. PICK st : st = answer.stats /\ st \in [{u} -> StatsRow]
  BY <1>0
<1>2. /\ stats' = Written([v \in DOMAIN st |-> incrementAccepted(st[v])])
      /\ answer' = Idle
      /\ accepted' =
           [v \in Users |-> accepted[v] + IF v \in DOMAIN st THEN 1 ELSE 0]
      /\ miscounted' = miscounted \union Stale(st)
      /\ UNCHANGED <<game, table, reaper>>
  BY <1>1 DEF AnswerCommit
<1>3. DOMAIN st = {u}
  BY <1>1
<1>4. PICK old, row : /\ old = st[u] /\ old \in StatsRow
                      /\ row = incrementAccepted(old)
  BY <1>1
<1>5. /\ row \in StatsRow
      /\ row.totalGames = old.totalGames /\ row.gamesWon = old.gamesWon
      /\ row.gamesDrawn = old.gamesDrawn /\ row.gamesLost = old.gamesLost
      /\ row.sentInvitesAccepted = old.sentInvitesAccepted + 1
  <2>1. row = [old EXCEPT !.sentInvitesAccepted = @ + 1]
    BY <1>4 DEF incrementAccepted
  <2> QED BY <1>4, <2>1 DEF StatsRow
<1>6. stats' = [v \in Users |-> IF v = u THEN row ELSE stats[v]]
  BY <1>2, <1>3, <1>4 DEF Written
<1>7. stats' \in [Users -> StatsRow]
  BY <1>5, <1>6 DEF Records, RecordsOK
<1>8. /\ accepted' \in [Users -> Nat] /\ accepted'[u] = accepted[u] + 1
      /\ \A v \in Users : v # u => accepted'[v] = accepted[v]
  BY <1>2, <1>3 DEF Records, RecordsOK
<1>9. /\ miscounted \subseteq miscounted' /\ miscounted' \in SUBSET Users
      /\ st[u] # stats[u] => u \in miscounted'
  BY <1>2, <1>3 DEF Records, RecordsOK, Stale
<1>10. \A v \in Users \ miscounted' : Counted(v)'
  <2> SUFFICES ASSUME NEW v \in Users \ miscounted'
               PROVE  Counted(v)'
    OBVIOUS
  <2>1. Counted(v) /\ \A winners : Finished(v, winners)' = Finished(v, winners)
    BY <1>2, <1>9, CountedOfAll DEF Records, Finished
  <2>2. CASE v = u
    <3>1. old = stats[u] /\ stats'[u] = row
      BY <1>4, <1>6, <1>9, <2>2
    <3> QED BY <1>5, <1>8, <2>1, <2>2, <3>1 DEF Counted, Winners
  <2>3. CASE v # u
    <3>1. stats'[v] = stats[v] /\ accepted'[v] = accepted[v]
      BY <1>6, <1>8, <2>3
    <3> QED BY <2>1, <3>1 DEF Counted, Winners
  <2> QED BY <2>2, <2>3
<1>11. StatsMatchGames'
  BY <1>10 DEF StatsMatchGames, Counted, Finished, Winners
<1>12. \A g \in Games : WorkOK(g)'
  BY <1>2, <1>9 DEF Records, RecordsOK, WorkOK
<1> QED BY <1>2, <1>7, <1>8, <1>9, <1>11, <1>12 DEF Records, RecordsOK, ReaperOK

LEMMA RecordsStep ==
  Records /\ [BackgroundNext]_<<part, vars, noticesVars>> => Records'
<1> SUFFICES ASSUME Records, [BackgroundNext]_<<part, vars, noticesVars>>
             PROVE  Records'
  OBVIOUS
<1>1. CASE UNCHANGED vars
  <2>1. StatsMatchGames'
    BY <1>1, SameRows DEF vars, Records
  <2> QED BY <1>1, <2>1 DEF vars, Records, RecordsOK, ReaperOK, WorkOK
<1>2. CASE Next
  BY <1>2, ReadGameStep, UpdateGameStep, FinishGameStep, AgeStep, ReapReadStep,
     ReapCommitStep, AnswerReadStep, AnswerCommitStep DEF Next
<1> QED BY <1>1, <1>2 DEF BackgroundNext

LEMMA RecordsInit ==
  BackgroundInit => Records
<1> SUFFICES ASSUME Init
             PROVE  Records
  BY DEF BackgroundInit
<1>1. PICK row : row = [status |-> "ACTIVE", winner |-> NoUser, old |-> FALSE]
  OBVIOUS
<1>2. PICK none : none = [totalGames |-> 0, gamesWon |-> 0, gamesLost |-> 0,
                          gamesDrawn |-> 0, sentInvitesAccepted |-> 0]
  OBVIOUS
<1>3. row \in Row /\ row.status = "ACTIVE" /\ row.winner = NoUser
  BY <1>1 DEF Row
<1>4. none \in StatsRow
  BY <1>2 DEF StatsRow
<1>5. /\ game = [g \in Games |-> row] /\ stats = [u \in Users |-> none]
      /\ table = [g \in Games |-> Idle] /\ reaper = Idle /\ answer = Idle
      /\ accepted = [u \in Users |-> 0] /\ miscounted = {}
  BY <1>1, <1>2 DEF Init
<1>6. RecordsOK
  BY <1>3, <1>4, <1>5 DEF RecordsOK, WorkOK, ReaperOK
<1>7. \A u \in Users : Counted(u)
  <2> SUFFICES ASSUME NEW u \in Users
               PROVE  Counted(u)
    OBVIOUS
  <2>1. \A winners : Finished(u, winners) = {}
    BY <1>3, <1>5 DEF Finished
  <2>2. \A winners : Cardinality(Finished(u, winners)) = 0
    BY <2>1, FS_EmptySet
  <2>3. stats[u] = none /\ accepted[u] = 0
    BY <1>5
  <2> QED BY <1>2, <2>2, <2>3 DEF Counted
<1> QED BY <1>6, <1>7, CountedOfAll DEF Records

(* The statistics of a user whose rows no commit has overwritten are those *)
(* of the finished games and accepted invitations (updateStats).           *)
THEOREM StatsAreOfFinishedGames == BackgroundSpec => []StatsMatchGames
<1>1. Records => StatsMatchGames
  BY DEF Records
<1> QED BY <1>1, RecordsInit, RecordsStep, PTL DEF BackgroundSpec
=============================================================================
