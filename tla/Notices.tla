------------------------------- MODULE Notices -------------------------------
(***************************************************************************)
(* "It's your turn": a table stores a move and sends a NextMoveNotice      *)
(* (Processor); NoticeService puts it in the queue of its one thread,      *)
(* where NextMoveHandler reads the game, as it is by then, and sends a     *)
(* request to the player at Facebook. The thread renews the access token   *)
(* as well: only a renewal that succeeds schedules the next.               *)
(***************************************************************************)
EXTENDS Naturals, Sequences

CONSTANTS
  Games,
  MaxMoves,     \* bound: moves of a game
  MaxFaults     \* bound: notices without a route, calls that fail, restarts

VARIABLES
  game,       \* per game: [ownersMove, ended], the row as the last move stored it
  sent,       \* notices on their way to the service
  queue,      \* the tasks of its thread
  token,      \* "valid", "expired", or "lost" after a renewal that failed
  requests,   \* requests sent at Facebook: [game, move, to, naming, late]; late is
              \*   history: whether the player had moved by then
  moves,      \* history: the moves of each game, as the players who made them,
  passed,     \*   [game, move, user]: the moves that passed the turn, and to whom,
  missed,     \*   those of them whose notice was lost,
  faults      \*   how many faults there were

vars == <<game, sent, queue, token, requests, moves, passed, missed, faults>>

Players == {"owner", "opponent"}
Other(user) == IF user = "owner" THEN "opponent" ELSE "owner"
ToAct(g) == IF game[g].ownersMove THEN "owner" ELSE "opponent"

Init ==
  /\ game = [g \in Games |-> [ownersMove |-> TRUE, ended |-> FALSE]]
  /\ sent = {} /\ queue = <<>>
  /\ token = "valid"
  /\ requests = {}
  /\ moves = [g \in Games |-> <<>>]
  /\ passed = {} /\ missed = {}
  /\ faults = 0

\* A fault may come with a step; lost says whether it does.
Fault(lost) == faults' = faults + (IF lost THEN 1 ELSE 0) /\ faults' <= MaxFaults

\* Mutant of noticed: who moves again hears of it, and nobody else.
NoticedAgain(g, next) == next = ToAct(g)

\* A notice goes to the player to act if that is not the one who moved.
noticed(g, next) == next # ToAct(g)

\* doKalahaAction: updateGame, then the notice, which may find no route or be lost
\* with a server that stops between the two.
Move(g, next, lost) ==
  LET n == Len(moves[g]) + 1
      notice == [game |-> g, move |-> n, user |-> next]
  IN /\ ~game[g].ended /\ n <= MaxMoves
     /\ game' = [game EXCEPT ![g].ownersMove = (next = "owner")]
     /\ moves' = [moves EXCEPT ![g] = Append(@, ToAct(g))]
     /\ passed' = passed \union {m \in {notice} : next # ToAct(g)}
     /\ Fault(lost)
     /\ sent' = sent \union {m \in {notice} : noticed(g, next) /\ ~lost}
     /\ missed' = missed \union {m \in {notice} : lost}
     /\ UNCHANGED <<queue, token, requests>>

\* The last move sends no notice.
End(g) ==
  /\ ~game[g].ended /\ Len(moves[g]) < MaxMoves
  /\ \E next \in Players :
       game' = [game EXCEPT ![g] = [ownersMove |-> next = "owner", ended |-> TRUE]]
  /\ moves' = [moves EXCEPT ![g] = Append(@, ToAct(g))]
  /\ UNCHANGED <<sent, queue, token, requests, passed, missed, faults>>

\* Notices reach the service in any order.
OnAction ==
  \E notice \in sent :
    /\ sent' = sent \ {notice}
    /\ queue' = Append(queue, notice)
    /\ UNCHANGED <<game, token, requests, moves, passed, missed, faults>>

\* The player of notice n has made a move since.
MovedSince(n) ==
  \E i \in DOMAIN moves[n.game] : i > n.move /\ moves[n.game][i] = n.user

\* Mutant of waiting: the player to act is named.
WaitingToAct(row) == IF row.ownersMove THEN "owner" ELSE "opponent"

\* The player named in the text, by the row that is read.
waiting(row) == IF row.ownersMove THEN "opponent" ELSE "owner"

\* A task of the thread; SafeRunnable drops what it throws, and a refusal of
\* Facebook is only logged.
Handle(lost) ==
  /\ queue # <<>>
  /\ queue' = Tail(queue)
  /\ LET notice == Head(queue)
     IN /\ requests' = requests \union
             {r \in {[game |-> notice.game, move |-> notice.move, to |-> notice.user,
                      naming |-> waiting(game[notice.game]), late |-> MovedSince(notice)]} :
                token = "valid" /\ ~lost}
        /\ missed' = missed \union {n \in {notice} : token # "valid" \/ lost}
  /\ Fault(lost)
  /\ UNCHANGED <<game, sent, token, moves, passed>>

Expire ==
  /\ token = "valid"
  /\ faults < MaxFaults
  /\ faults' = faults + 1
  /\ token' = "expired"
  /\ UNCHANGED <<game, sent, queue, requests, moves, passed, missed>>

\* obtainFacebookAccessToken: an exception ends the schedule.
Renew(lost) ==
  /\ token = "expired"
  /\ token' = IF lost THEN "lost" ELSE "valid"
  /\ Fault(lost)
  /\ UNCHANGED <<game, sent, queue, requests, moves, passed, missed>>

\* The service stops, and starts with a new token and an empty queue.
Restart ==
  /\ faults < MaxFaults
  /\ faults' = faults + 1
  /\ sent' = {} /\ queue' = <<>>
  /\ missed' = missed \union sent \union {queue[i] : i \in DOMAIN queue}
  /\ token' = "valid"
  /\ UNCHANGED <<game, requests, moves, passed>>

Next ==
  \/ \E g \in Games, next \in Players, lost \in BOOLEAN : Move(g, next, lost)
  \/ \E g \in Games : End(g)
  \/ OnAction
  \/ \E lost \in BOOLEAN : Handle(lost)
  \/ Expire
  \/ \E lost \in BOOLEAN : Renew(lost)
  \/ Restart

Spec == Init /\ [][Next]_vars

-----------------------------------------------------------------------------
\* Whenever a move passes the turn, the player whose turn it is gets a request that
\* names the other, whatever happens before the notice is handled: the notice is on
\* its way, or the request was sent. Only if the player has moved by then may it name
\* the player, and only with the notice lost does none come
\* (Processor.doKalahaAction, NextMoveHandler.handle).
TurnsAreTold ==
  \A n \in passed :
    \/ n \in sent \/ (\E i \in DOMAIN queue : queue[i] = n)
    \/ n \in missed
    \/ \E r \in requests :
         /\ r.game = n.game /\ r.move = n.move /\ r.to = n.user
         /\ r.naming = Other(n.user) \/ r.late
=============================================================================
