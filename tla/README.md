# Kalaha: formal models, checks and proofs

TLA+ models of the Kalaha game in this repository: the rules of the board, the
server that keeps games in a database and plays them at Firebase tables, the web
page that plays on a board of its own, the connection, packets and libraries the
page does it with, the invitations and challenges that games start with, and what
goes on behind the tables (notices, statistics, reaping).
TLC checks the models on small instances; TLAPS proves theorems about the board, the
server, the requests, the page and what goes on behind them for boards of any size and
any number of games, users, pages and failures.

Paths are relative to the repository root; `game/…` stands for
`src/firebase/game/src/main/java/net/kalaha/game/…` and `data/…` for
`src/persistence/persistence-raw/src/main/java/net/kalaha/data/…`, `web/…` for
`src/website2/src/main/java/net/kalaha/web/…` and `js/…` for
`src/website2/src/main/webapp/js/…`. The scripts under `js/fb`, `js/cometd` and
`js/jquery` come from other projects but are part of this repository and of every
page; the parts of them that the page's own protocol rests on are modelled.

## 1. The system and its parts

| Component | State | Operations | Works with |
|---|---|---|---|
| **Board** `game/logic/KalahaBoard`, `KalahaPlayer`, `SpecialRules` | 14 houses, player to act, ended flag | `moveStones`: sow, steal, next player, end and sweep | called by `Sow.perform` in the table's processor |
| **Table** `game/Processor`, `TableInterceptorImpl`, `TableListenerImpl` | a board per table, OPEN/CLOSED, the seated players | `allowJoin`, the `Sow` action, the `Close` action | stores each move through `GameManager`, tells the clients, queues notices |
| **Activator** `game/ActivatorImpl`, `ActivatorMapping` | two maps game ↔ table | `GetTableRequest`, `CreateGameRequest`; `TableTask` every minute closes empty and destroys closed tables | reads games, makes tables from them, sends Close actions |
| **Stored games** `data/manager/GameManagerImpl` | `Game` rows with their `GameState`s | create, `updateGame` (move), `updateGame` (answer), `finishGame`, `reapGames` | the database; statistics and rating of the players |
| **Requests** `data/manager/RequestManagerImpl`, `web/RequestProcessFilter`, `web/action/CallbackActionBean` | `Request` rows; the links at Facebook | `challenge`, `invite`, `updateRequest`, `ClearRequests` | makes users and PENDING games, makes games ACTIVE or CANCELLED |
| **Users and sessions** `UserManagerImpl`, `SessionManagerImpl`, session-service | `User`, `Session` rows | find or create, reap | web filter, login |
| **Login** user-service | — | login handlers | sessions, users |
| **Table service** | — | passes requests to the activator and answers to clients | client, activator |
| **Notices** notice-service | queue of one thread | "it's your turn" requests at Facebook | game rows |
| **Game service** | — | `GameCreator` (JMX); a reaper that is a stub | stored games |
| **Web client** `js/app/game.js`, `pits.js`, `pit.js` | its own board, moved ahead of the server | clicks, replayed moves | table service, tables |
| **Connection of the page** `js/app/comm.js`, `Connector` and its adapters in `js/fb` | player and table id; reconnection attempts | status, login, GetTable, join, moves | a WebSocket or the Bayeux client |
| **Packet codec** `js/fb` | — | a packet to bytes or JSON and back, its description | every message of the page |
| **Bayeux client** `js/cometd` | session, advice, queue, outstanding requests | handshake, long poll, publish, subscribe, disconnect | jQuery's requests; the Bayeux server |
| **jQuery** `js/jquery` | lists of callbacks, requests, effects | Deferred, ajax, show/hide | the Bayeux client, the message box |
| **Message box** `js/app/messages.js` | queue of messages | show one for three seconds | jQuery's effects |
| **Web site** `web` | HTTP session | filters, pages | requests, games, sessions |
| **Rating, JSON, properties, text client, bots** | — | — | — |

How they interact: the web makes requests and games; a client asks the table
service, hence the activator, for the table of a game, gets an id, and joins the
table with that id, later and on its own. Table, activator task and web run
concurrently. They share the database (one `EntityManager` per handler, one
transaction per manager call, no version columns) and the mapping, which is
guarded by its monitor. Tables live in memory only.

What is hard here: the arithmetic of sowing and the end of the game; joins and
Close actions that cross; ids of tables that are gone when they are used;
handlers made of several transactions, with a crash or another handler between
them; answers delivered more than once; a board rebuilt from the stored game; a
page that moves ahead of its table and hears nothing of a refused move; Facebook
and the browser that announce one request on two ways; a connection lost between
any two packets, with three layers that each retry by themselves; requests whose
answers, timeouts and aborts race; handlers that call back into the list that is
calling them; rows written whole by transactions that read them before each other;
a publish lost beside a long poll that lives.
`PROJECT.json` lists these hazards at their lines with the properties that
cover them.

Properties that make each component correct:

* Board: stones are conserved; kalahas only gain; nobody is left without a move
  in a running game; the end counts all stones; a won lead stays won; games end;
  the loop lays the stones where the rules say.
* Tables and activator: a game has one open table, its players meet there, a
  table with players is not closed, a closed one goes, the maps agree.
* Stored games: the stored position is the played one; over all its tables a
  game is one game by the rules; it is finished and counted once; an answer
  decides a request; an ACTIVE game can be played.
* Statistics: they are those of the finished games and accepted invitations.
* Notices: whoever gets the turn is told, by the name of the other.
* Requests: each reaches its own user, can be answered until it is, by its user,
  and is answered as a whole; users are not created twice; counters count.
* Web client: its board is the server's when nothing is under way.
* Connection: the page gets back to its table. Bayeux client: it comes back to a
  session, keeps publishes in order, and disconnects when told to.
* Codec: a packet comes out as it went in. jQuery: a Deferred is a promise, a
  request ends once. Message box: every message is seen.

## 2. Modules

| Module | Models | Notes |
|---|---|---|
| `KalahaRules` | the pure part of `KalahaBoard` and `KalahaPlayer` | no state; every module about games extends it |
| `KalahaBoard` | a game on one board, one step per `moveStones` | the abstract specification of a game |
| `SowLoop` | `moveStones` as its loop, one step per stone | extends `KalahaBoard` and implements it |
| `WebBoard` | the sowing, steal and turn of `js/app` | no state; extends `KalahaRules` for the table's board |
| `WebClient` | the pages of both players and the messages to and from their table | uses `KalahaBoard` as the table's board |
| `Requests` | users, requests, links, sign-in, callback, `ClearRequests` | its ACCEPTED is `Answer` of `GameServer` |
| `GameServer` | stored games, tables, activator, task, answers, crash | each stored game implements `KalahaBoard` |
| `PacketSchemas` | the packet classes and enumerations of the protocol | no state: a class is its fields in order |
| `PacketCodec` | `ByteArray`, `utf8`, `Styx`, and save, load and getNormalizedObject of every class | extends `PacketSchemas` |
| `RequestTransport` | the two transports of `cometd.js` that send requests | operators on the client's record |
| `Cometd` | the Bayeux client, a page, a server and a network that fail | extends `RequestTransport`, implements `BayeuxLink` |
| `BayeuxLink` | what the client promises the code above it | abstract specification |
| `Connection` | `comm.js`, the Connector and its adapters | extends `BayeuxLink`: the CometD adapter runs over it |
| `Promise` | what a promise is | abstract specification |
| `Deferred` | `jQuery.Callbacks` and `jQuery.Deferred` | implements `Promise` |
| `Ajax` | `jQuery.ajax` with its XHR and script transports | |
| `MessageBox` | `messages.js` over jQuery's effects | |
| `PageLibraries` | the four libraries that share no state, side by side | extends `Ajax` and `Deferred`, instances of `PacketCodec`, `MessageBox` |
| `GameRecords` | the rows of games and statistics under concurrent transactions | |
| `Notices` | the notice of a move, the service's queue and token | |
| `Background` | these two side by side | extends `GameRecords`, instance of `Notices` |
| `MC…` | the same for TLC; `MCGameServer` and `MCRequests` declare symmetries | |
| `KalahaRulesProofs` | lemmas on the operators of `KalahaRules` | TLAPS |
| `KalahaBoardProofs` | theorems on `KalahaBoard!Spec` and on `SowLoop!LoopSpec`, the refinement of `KalahaBoard` | TLAPS, extends `KalahaRulesProofs` |
| `GameServerProofs` | theorems on `GameServer!Spec`: tables, positions, answers, results, the refinement of `KalahaBoard` | TLAPS, extends `KalahaRulesProofs` |
| `RequestsProofs` | theorems on `Requests!Spec` | TLAPS |
| `BackgroundProofs` | theorems on `Background!BackgroundSpec` | TLAPS |
| `JQueryProofs` | theorems on `Ajax!Spec` and `DeferredSpec`, the refinement of `Promise` | TLAPS |
| `WebClientProofs` | theorems on `WebClient!Spec` | TLAPS, extends `KalahaRulesProofs` |
| `CometdProofs` | theorems on `Cometd!Spec`: the refinement of `BayeuxLink`, the order of the publishes | TLAPS |

Operators named "Mutant of …" in a comment are not part of the model: each is a
wrong version of the operator after it and is used by no definition. Putting
one in the place of the right one must make the run named in `PROJECT.json`
fail, which shows that the property looks at that code.

### KalahaRules and KalahaBoard

A board is a function from `Houses` to numbers, laid out as the array of `State`
(South's pits, South's kalaha, North's pits, North's kalaha). `NUMBER_OF_PITS`
is 6 in the code, as is `InitStones`; both are constants here, and the three
methods of `SpecialRules` are three Booleans. `endTransfer` and `canPlayerMove`
count to a literal 6 in the code; the model has `NUMBER_OF_PITS` for it, so
that it says what the code says at 6.

`MoveStones(pit, player)` is all of `moveStones`. Its guards are the three that
throw `IllegalMoveException`; a refused call changes nothing and is not a step.
The stones of the pit fall on the houses `SowHouse(player, pit, k)`: the loop
goes round all houses but the opponent's kalaha, `Lap` of them. `DropLast` is the
last stone with its steal, `NextPlayer` is `updatePlayerToAct`, and `EndsGame`
with `EndTransfer` is `checkGameEnd(player)`.

### SowLoop

The state adds the record `call` with the locals of the method (`i`,
`skippedKalahas`, `stonesToMove`, `endedInKalaha`) and `array`, the field `houses`
of the code, on which the loop works; the variable `houses` of `KalahaBoard` is here
what the array held when the call began. `Enter` is lines 171–192, `SowStone`
one turn of the loop, `Leave` what follows it. `ImplementsMoveStones` says that
this is `KalahaBoard!FairSpec`, so the formula of `KalahaRules` and the loop of the
code agree, laps, skips and steals included.

### GameServer

| Action | Code |
|---|---|
| `CreateGame` | `GameManagerImpl.createGame`, from a challenge or invitation (PENDING, no position), from `GameCreator` (ACTIVE, no position), from `handleCreateGame` (ACTIVE, first position) |
| `Answer` | `RequestManagerImpl.updateRequest`: no guard in the code, none here |
| `ReuseTable` | `getTableForGame` when the mapping has a table |
| `ReadGame`, `CreateTable` | `createTable`: the read of the game, then `updateGame`, the new board and the mapping |
| `Join`, `Leave` | `allowJoin` and the seat Firebase then gives; leaving or disconnecting |
| `Sow` | `doKalahaAction` up to `updateGame` |
| `Finish` | its `finishGame`, when the move ended the game |
| `Close` | `tryClose` |
| `SendClose`, `Unmap`, `Destroy` | `closeOldEndEmpty` and the two halves of `destroyClosedTables` |
| `Crash` | the server stops anywhere and restarts without tables, mapping and messages |

What is atomic and why. Firebase handles the events of one table one at a time;
this is why a table that is about to `Finish` takes no other event (`Ready`).
Manager calls are transactions and are one step each, so a handler with two of
them is two actions. `opening` holds the game that `createTable` has read: it is
also the monitor of the mapping, which `getTableForGame` keeps until the table is
there and which `Unmap` needs. Within one `EntityManager` the row read first is
the row written later, with all its columns (Hibernate's default, no version):
`CreateTable` therefore writes the row it read when it sets the first position.
The board change and `updateGame` of a `Sow` are one step: between them only a
crash can come, which loses both, or a failing database, which is not modelled.

The age a table must have before `TableTask` closes it is left open: it may be
closed whenever it is empty. The players are the owner (South) and the opponent
(North) of a game; others are refused by `checkRightPlayer` and left out.
History variables (`crashes`, `answers`, `torn`, `raced`) only serve bounds and
properties.

### WebBoard and WebClient

A page has a board of its own: `pits` with the ids of the page (1 and 14 are the
home pits) and `acting`, the side to act, 2 for the user. `WebBoard` has its rules
as the JavaScript has them, which is not how the server has them: the next pit
comes from a walk, the steal from a pit number on the other side, the turn from
the last pit. One line differs in what it does. `_visitNextPits` compares with
`_instance.stones` while its visitor adds to it, so a sowing of `Lap` stones or
more lays one stone more for each passing of its own pit (`StonesLaid`) and leaves
none there.

| Action | Code |
|---|---|
| `OpenPage` | a page joins the table: `playerJoined` sends the State. Opening it again drops the old page, its timers and messages; its moves may still arrive |
| `Click` | `handleClick` on the selected pit: `realMove` with its `moveFinished`, and `sendMove` |
| `Receive` | `handleAction`: State is used only if it is the first, Sow sets a timer, End takes the last State |
| `Timer` | the 1.5 seconds of `remoteSow` are over: `realMove` |
| `Handle` | `doKalahaAction` with `notifyOnAction`, `sendStateToAll`, `sendEndToAll`; a move that is refused is answered by nothing |

Messages to and from each page are queues in order. A timer may run off between
any two messages. The animation before the steal and the choice of a pit do not
change the board and are left out, as are borders, names and texts.

### Requests

The rows of `users` carry the counters of `GameStats`, those of `requests` the
game that is made with each. Facebook is external: its dialog (`Send`) shows the
link to the receivers at once, while the browser posts the same to the site.

| Action | Code |
|---|---|
| `Invite`, `StoreInvite` | `invite`: the read of the invitee, and the rows that are stored if there is none |
| `Challenge` | the read of the receiver and `challenge`; throws without a receiver |
| `LoadPage` | a page with the links it was given, with a signed request or in the HTTP session |
| `SignIn`, `CreateOnSignIn` | `getSessionByExternalId`: the user is found, or read as missing and then created |
| `FindRequest`, `UpdateRequest` | `updateRequestByExternalId(id, ACCEPTED)`: its reads and its commit |
| `DeleteLinks` | the end of `checkRequests`; submits `ClearRequests` |
| `ClearRead`, `ClearDelete` | `ClearRequests`: reads and lookups, then the deletions |

A transaction works on the rows as of its first read (the MySQL default), there
are no version columns and no unique external ids; so a transaction that reads
and then writes is two actions, and an entity that is in the `EntityManager` of a
page is not read again (`Stats`). A `User` kept in the HTTP session is in no
`EntityManager`: what `invite` adds to it reaches no row. With several rows of
one user a sign-in takes any: which one follows from the session found first,
and sessions are reaped at any time. Each user loads one page at a time. History
variables (`followed`, `early`, `raced`, `miscounted`) only serve properties.

### PacketSchemas and PacketCodec

A string is its sequence of UTF-16 code units, a packet the sequence of the values
of its fields; `save`, `load`, `getNormalizedObject` and `cloneObject` go through
the fields of its class. A buffer holds the numbers the code pushes, with the
signed top byte of an int. A call that throws has `ok = FALSE`: there is no
`writeLong`, `readLong` or `readArray`, and a byte array in a packet is written as
the undefined property `buffer` of a plain array. `getParam` reads the parameter's
own array, so showing a packet cuts its texts out; the model keeps what is left.
The state machine takes any packet of any class and saves, loads, sends or shows
it. What does not come through is stated in the properties: byte arrays and longs
are refused in binary form (`Unreadable`), and a negative number in a parameter is
not the same after base 64, whose digit of a negative byte is no character.

### RequestTransport, Cometd and BayeuxLink

The client is one record; every function of `cometd.js` that changes it is an
operator from record to record and calls the others where the code does, so that
an action is one turn of the browser's event loop:

| Action | Code |
|---|---|
| `Handshake`, `Publish`, `Subscribe`, `Disconnect` | the calls of the page |
| `Timer` | the timer of `_delayedSend`: `_connect` or `_handshake` |
| `Respond`, `Fail`, `Expire` | `transportSuccess`, `transportFailure`, and the timeout of a request, each with `_complete`, the handlers of its messages and a listener that may call `disconnect()` |
| `Late` | the end of a callback-polling request that expired: it cannot be aborted, and the server may still handle it |
| `Deferred` | the `setTimeout(.., 0)` that fails the next envelope behind one that failed, or one with a message longer than a URL |
| `Serve`, `Restart` | the server (external): it answers the messages in turn, 402 with the advice to handshake for a client it does not know |

`BayeuxLink` is what remains for the code above: a client that is closed or not,
a session, whether the last long poll succeeded, and the subscribed functions.

An envelope of callback-polling goes in pieces that a URL can take (`pieces`,
`callbackSend`). The others of the first piece are queued while it is under way, so
their order is that of the transport's queue. `After` is no code: it makes TLC evaluate
the record that a handler is given once.

### Connection

| Action | Code |
|---|---|
| `Connect`, `OnOpen`, `OnClose` | `WebSocketAdapter` |
| `Handshake`, `HandshakeReply`, `HandshakeLost`, `PollReply`, `PollLost`, `PollUnknown` | `CometdAdapter` and its listeners of /meta/handshake and /meta/connect, over `BayeuxLink` |
| `PublishLost` | `RequestTransport`: a request beside the long poll fails or expires, with those that wait behind it |
| `Reconnect` | the timer of `_handleDisconnect` |
| `Receive` | `_handlePacket` with the callbacks of `comm.js`, once for each subscribed function |
| `SendMove` | `sendMove` |
| `Serve` | Firebase (external) |

A socket that closes loses everything under way. Over `cometd.js` the long poll and
the publishes are requests of their own (cometd.js:371-481) and fail apart:

* `PollLost` loses what the poll's response carried, some of the front of `toPage`.
  The publishes stay, and the adapter reports the loss.
* `PublishLost` loses some of the front of `toServer`, or what the response carried,
  or both. The poll lives, so nothing is reported; `CometdAdapter.send` listens for
  no failure, and `comm.js` has neither a timeout nor a retry.
* `PollUnknown` is a server that was restarted: it refuses what is under way, and
  `_failConnect` resets the transports with what waits there. Moves made from then to
  the reply of the handshake are kept for the new session.

`count.alone` remembers that a packet of the chain was lost by `PublishLost` since the
last CONNECTED. `WebClient`, in contrast, has a connection that holds, and all the
messages of a game.

### Deferred, Ajax, MessageBox and PageLibraries

`Deferred` has the three lists of callbacks with the variables of the closure
(`memory`, `firing`, `firingIndex`, `firingStart`, `firingLength`, `stack`) and a
stack of the calls of `fire` that are under way: a function that is called may add,
settle or notify, which begins a call inside the call. A step is one function
called (`CallFunction`), the end of a loop (`EndOfLoop`) or what the page does
(`Add`, `Settle`, `Notify`). `Ajax` has the state of each request and of what the
browser does about it; answers, timeouts, aborts and scripts that run late come in
any order. An answer has a content type, from which `ajaxHandleResponses` takes the
types to convert between, and a body that may not be of that type, which makes
`ajaxConvert` throw and the 200 an error. `MessageBox` has the queue of `messages.js`, its timeout, and the box
with the queue of effects, the sentinel `inprogress` and jQuery's interval.

None of the four changes or reads a variable of another, so a behaviour of
`PageLibraries` is one of any of them, chosen with the initial state. One run then
stands for four, and its properties keep their names.

### GameRecords, Notices and Background

`GameRecords` splits every transaction into its reads and its commit. A commit
writes all the columns of its rows as it read them; a table's `finishGame` works on
what `updateGame` read, since the handler has one `EntityManager`.

| Action | Code |
|---|---|
| `ReadGame`, `UpdateGame`, `FinishGame` | `updateGame` and `finishGame` of a table |
| `ReapRead`, `ReapCommit` | `reapGames` (no code calls it yet) |
| `AnswerRead`, `AnswerCommit` | `updateRequest(ACCEPTED)` of an invitation |
| `Age` | time goes by without a move |

`Notices` has the row of each game as the last move stored it, the notices on their
way and in the queue, and the access token:

| Action | Code |
|---|---|
| `Move`, `End` | `doKalahaAction`, with or without a notice |
| `OnAction`, `Handle` | `NoticeService.onAction`; its task with `NextMoveHandler.handle` |
| `Renew`, `Expire`, `Restart` | `obtainFacebookAccessToken`; the token runs out; the service stops and starts |

`Background` puts the two side by side as `PageLibraries` does its parts: the game a
notice is about is read by its handler, and `Notices` has that row as its own.

## 3. Runs

| Run | Instance | States | Asks |
|---|---|---|---|
| `board_default` | 3 pits, 3 stones, DefaultRules | 35 060 | the properties of the board |
| `sow_loop` | 2 pits, 5 stones | 1 602 | does the loop implement the one-step move |
| `game_server` | 1 game, 2 tables, 2 answers, 1 crash, 2 pits of 2 stones | 188 874 | the properties of tables, activator and stored games |
| `two_games` | 2 games, 3 tables, 1 pit of 1 stone | 210 212 | do two games keep out of each other's way in one mapping |
| `web_client` | 2 pits of 2 stones, three pages in all | 51 356 | do the pages agree with the table to the end, opened again or not |
| `web_lap` | 2 pits of 3 stones, each page opened once | fails | the same without exceptions |
| `requests` | 3 users, 2 links to one receiver each or 1 to two, 3 pages | 321 700 | do requests reach their users, answerable, and are they answered by them |
| `sent_invites` | 2 users, 1 link | fails | are sent invitations counted |
| `cometd` | 2 connections, another origin, a URL for one message; five scenarios of losses and restarts | 117 169 | does the Bayeux client keep its promises |
| `connection` | any browser; 3 losses over cometd.js, 6 sockets | 318 434 | does the page get to its table |
| `page_libraries` | 78 packet classes with boundary values; 3 handlers, 2 watchers, 2 notices; 12 messages; 2 XHRs, 1 script | 62 263 | are the libraries what the page takes them for |
| `background` | 2 games of one player, 1 accepted invitation; 2 games of 3 moves, 1 fault | 735 233 | are statistics and notices right |

Why the bounds suffice. Three pits and three stones have steals, extra turns,
both ways of ending and pits that grow past `Lap` = 7 stones. With 2 pits and 5
stones the first move already laps a board of 6 houses and later ones skip the
opponent's kalaha twice. In `game_server` two tables allow a game to be left in
the middle, its table closed and destroyed or lost, and continued at another; two
answers allow one before and one after the end of the game; one crash can fall
anywhere. The rules at these tables are real ones, the small board only shortens
games; two stones per pit are the fewest with which a game can end in a draw. `two_games` has a third table so that one game gets a second table while
the other has its own; crashes and answers do not concern the mapping and are
switched off.

In `web_client` two stones a pit still let a pit grow to `Lap` = 5, so both
exceptions of `BoardsAgree` occur; on 2 pits nobody need wait long for a steal or an
extra turn; the third page is one opened again at any moment, by either player. In
`requests` one user sends to two others at once and both answer, or one answers
twice, or two invite one: two links and three pages are what these take. The
requests of a link are alike, so a third receiver would bring nothing that the
second does not.

In `cometd` one scenario is of a page that stays, with two publishes and a
subscription, the second of a page that disconnects, in a call of its own or from a
listener, and whose publish no URL takes; one lost request and one restart can fall
anywhere in either. In the third two requests are lost: after the first the page polls
by scripts, so the second may be one that expires and arrives late. In the last two,
three envelopes can wait: when a request fails, or when the response to a session that
the server forgot comes. A loss anywhere,
with the requests already under way, gives late answers, answers to given-up sessions
and envelopes that wait behind a failure. The two connections are cometd.js's default;
a URL for one message makes every batch of two go in pieces.
Six sockets lost in `connection` use up both attempts of a Connector after two
connections that came back. Three losses over cometd.js are enough for each kind to
fall before or after either of the others: a poll lost with publishes under way, the
publish of the new chain lost after it, a restart that ends in a third chain. Every
lost poll adds a subscribed function when the link comes back, so that an answer is
handled up to four times and a chain has up to sixteen joins; with a fourth loss there
are more than a million states. Three
handlers are the fewest with one before, one inside and one behind a call; twelve
messages reach every overlap of effects, after which the box is where it was
before. Two XHRs are the fewest that `jQuery.active` counts together; a script is not
counted and races with its own timeout and abort. The packets take, per class, a first
value in every field and any other in any two fields, the ends of the ranges
included; the strings have lengths of every remainder by three and characters of
one, two and three bytes. In `background` a player shared by two games is what a
lost update takes.

Deadlock is not checked: games, messages and packets end, table ids are used once
and run out, and a Connector that has given up does nothing.

Fairness. `KalahaBoard` and `SowLoop` assume weak fairness of `Next`: players
that keep playing, a call that runs on. Without it no game need ever end; no
player's choice is constrained. `GameServer` assumes that a table handles its
events (`Finish`, `Close`), that `createTable` ends, and that `TableTask`, which
is scheduled every minute on a thread of its own, destroys what it unmapped and
gets to every closed table in the end. The last is strong fairness of `Unmap`, as
the task competes for the monitor of the mapping with clients' requests. Players
and the web are under no fairness. An exception in `TableTask` would end its
schedule (a listed hazard); the assumption excludes it. `WebClient` assumes that
messages arrive and timers run off, as a live connection and a browser do; users
may stop at any time. `Cometd` assumes that timers run off and that the requests of
each kind are served and answered while they are not lost, as a request that is
neither would expire; losses and restarts are bounded. `Connection` assumes the
same of sockets, packets and long polls, `Deferred` that a function which is called
returns, `MessageBox` that the timeout and the interval of the page run off.
`Requests`, `GameRecords`, `Notices` and `PacketCodec` state safety only and assume
nothing.

### What the server runs show

* The players of a game meet, and its open table is unique, although ids of
  tables get old before they are used: a table is unmapped only after it is
  closed and a closed table seats nobody (`PlayersMeet`, `OneOpenTable`).
* A game that moves over several tables and crashes is one legal game
  (`SavedGamesByTheRules`, a refinement of `KalahaBoard`).
* A finished game is counted once, even when an answer comes again and sets it
  back to ACTIVE: nobody can move on its swept board (`FinishedOnce`).
* Two properties state exactly when the code falls short. `ActiveIsPlayable`: an
  ACTIVE game has an open table at which nobody can move only if the table was
  made before the request was answered, if the server stopped between the last
  `updateGame` and `finishGame`, or if an answer came again. `AnswerStands`: an
  answer is lost only if it comes between the two halves of `createTable`.

No document, comment or test of the repository says otherwise of these, so they
are listed as hazards and not as findings.

### What the runs of the web client show

* The page's own rules give the table's board and turn after every move, with
  moves ahead, timers and an end that comes in between (`BoardsAgree`,
  `NoMoveRefused`), except in two cases: after a sowing of a lap, or when the move
  of an old page is handled after a new one got its State.
* Whatever went wrong before, the page shows the last board at the end
  (`EndIsShown`): timers that run off later find their pit empty.
* Finding (`web_lap`): after a sowing of `Lap` stones, 13 in the code, the page is
  on another board than the table for the rest of the game, although it gets the
  table's State after every move. `_handleState` has "// verify correct state
  here..." for it and does nothing.

### What the runs of the requests show

* A followed link is honoured (`FollowedIsAccepted`): when the page that followed it
  has been handled its request is accepted, unless one of several rows was taken for
  another or the page aborted.
* Four properties state exactly when the code falls short. Users are doubled, and
  requests hang on the wrong row, only if two transactions saw no row of the user
  at a time (`RequestsReachTheirUser`). A link is lost only if it was looked up
  while its callback was under way: `ClearRequests` then takes it for unknown and
  the request stays PENDING for ever (`PendingIsAnswerable`). A request is accepted
  by another than its invitee only if the link went to several
  (`AcceptedByInvitee`). The counter of accepted invitations is wrong only after a
  second acceptance or a lost update (`AcceptedInvitesCounted`).
* Finding (`sent_invites`): the counter of sent invitations is never stored, since
  the callback counts on the `User` object of an earlier HTTP request.
  `RequestManagerImplTest` asserts that it is counted, within one unit of work.

### What the runs of the connection and the libraries show

* `cometd`: `AcceptedInOrder`, `DisconnectTakesEffect` and the refinement
  `ImplementsLink` hold with every loss. cometd.js:340 says that all requests but the
  long poll "are serialized one after the other", but their publishes are accepted out
  of order in three ways, which `AcceptedInOrder` marks as late. A callback-polling
  request that expires is still under way when the next one goes. When a request fails,
  only the first envelope that waits fails with it (cometd.js:455): the others wait on,
  and a publish called later goes at once and before them. And when the response to a
  request of the session before comes after the handshake, which aborts nothing, the
  first envelope that waits is taken from the head (cometd.js:438), finds no room, and
  is put at the end. The last two take three envelopes that wait; a page sends that many
  only if the user is faster than the server. `ComesBack` is stated for a server whose
  successful replies carry an advice. Without that a 402 of the old session which
  comes after the new handshake was sent leaves its advice "handshake", and
  `_handshakeResponse`, which knows only "retry" and "none", throws: the client stays
  where it is. `cometd.js:1722` resets the advice before the handshake for this very
  reason, but not after it.
* `connection`: `AtTheTable` says that the page gets to its table whatever is lost, with
  two exceptions, both stated in the property. A page with WebSockets stays away once
  the attempts are used up, which with the default of none is the first loss
  (`GaveUp`): it then goes on moving its own board. A page without them stays away
  after a publish of the chain, or its answer, was lost alone (`Stranded`): nothing
  above `cometd.js` learns of it, and only a later loss that is noticed, of a poll or
  of the session, starts the chain again. The loss of polls, handshakes and sessions
  alone never keeps it away. `Stranded` is generous in one case: with two functions
  subscribed, the other's packets may bring the page to its table all the same. Left out of `MCBrowsers` is a page without
  WebSockets whose MAX_ATTEMPTS was set: there the Connector's timer handshakes again
  although `cometd.js` came back by itself, and the handshake drops the subscription;
  no page sets it.
* `page_libraries`: what save writes load reads, or the call throws. The text of
  messages survives base 64 and utf8. jQuery's Deferred is a promise however its
  calls nest; a request ends once whatever races, and no
  success is of a body that is not what its type says; a message set while the box closes
  over the one before is shown.
* `background`: a user's statistics are right unless a commit wrote a row over
  another's or a reaper and a table finished one game both (`miscounted`), which is
  what rows without versions allow; nothing else, for instance a draw or the order of
  the two finishes, makes them wrong. Whoever gets the turn is told by the name of the
  other, unless the notice was lost (no route, a refused token, a restart) or the
  player had moved before it was handled.

## 4. Theorems

Each theorem holds for all values of the constants that satisfy the named `ASSUME`s
of its module: boards of any size with any number of stones, any sets of games,
users, links and requests, any number of tables, answers, crashes, pages, moves and
failures. Every proof of an invariant has the same three facts: it holds at first,
each action keeps it (one step per action), and it implies the property. Where the
property is not inductive the invariant that is has a name of its own, given below.

### The board

All are about `KalahaBoard!Spec`, from `PitsAssumption` (at least one pit),
`StonesAssumption` (at least one stone per pit) and `RulesAssumption` (the rules are
Booleans).

| Theorem | Proves | Argument |
|---|---|---|
| `TypeCorrect` | `[]TypeOK` | inductive; `AfterSowingConserves`, `EndTransferConserves` give the types |
| `StonesConserved` | `[]Conservation` | inductive with `TypeOK` |
| `NeverStuck` | `[]NotStuck`, if stealing is allowed only where the game ends for either player | inductive with `TypeOK` |
| `KalahasGain` | `KalahasOnlyGain` | from `TypeOK`; `MoveGains` is the step |
| `MajorityIsFinal` | `MajorityWins` | from `MoveGains`, and `Conservation` after the step |
| `KalahasHoldAll` | `[]EndCountsAllStones` | needs `PitsSwept`: when the game has ended under sweeping rules no pit holds a stone |
| `EveryMoveGoesForward` | `MovesGoForward` | from `TypeOK`; `MoveGoesForward` is the step |
| `ForwardHasAnEnd` | `InKalahas` and `Advance` are bounded by the stones | from `TypeOK` and `Conservation` |

The last two are what makes games end. A move that brings nothing to a kalaha has ended
before the player's own (`NothingForTheKalaha`: a sowing that passes it leaves a stone
there, a steal goes there, a sweep too), so it has taken the stones of one pit to later
pits of the same player: `Advance`, which counts each stone by its place on its side,
grows. The pair (`InKalahas`, `Advance`) grows with each move, in lexicographic order,
and with `S` stones and `P` pits there are `(S + 1) * (P * S + 1)` of them; a game has
fewer moves, by any rules. That the players do move is fairness, so `Termination` itself
stays with TLC.

The heart of the others is conservation of a sowing, in `KalahaRulesProofs`. The number of
stones a house receives is the cardinality of the set of `k` that fall on it, so
sowing one more stone adds one to one house (`SownOneMore`), and changing one
house by `d` changes every later running sum by `d` (`OneHouseChanges`, over the
recursive function `StonesBefore`). `SownConserves` then follows by induction on
the stones. The induction is written with sets, on the least counterexample
(`LeastNat`, from well-founded sets), since the schemes with an operator
parameter are not usable by the installed provers.

`NeverStuck` carries a condition on the rules because the property is false
without it: if stealing is allowed and the game goes on when one player runs out
of stones, a steal of the opponent's last stones with the own last stone leaves
the opponent to act on an empty side. No rules of the repository allow that
combination: `DefaultRules` sets both flags, `BjornRules` neither.

### The loop of moveStones

About `SowLoop!LoopSpec`, from the same assumptions, and in `KalahaBoardProofs` too.

| Theorem | Proves | Invariant it rests on |
|---|---|---|
| `LoopTypeCorrect` | `[]LoopTypeOK` | `LoopInv` |
| `LoopFollowsTheFormula` | `[]SowsByTheFormula` | `LoopInv` |
| `LoopMovesStones` | `KalahaBoard!Spec`: the safety part of `ImplementsMoveStones` | `LoopInv`; `Leave` is the move, every other step stutters |

`LoopInv` has, for a call under way (`Sowing`), the board as `Sown` gives it for the stones
laid so far, or as `AfterSowing` gives it after the last one, and the counter:
`skippedKalahas` is the number of laps that `i - 1` has in it. `CountersFollow` shows that
the code skips the opponent's kalaha exactly when `i` begins a lap, so that
`(i + skippedKalahas + offset) % houses` in the code is `SowHouse`, which takes the
remainder by `Lap`. `SowsByTheFormula` alone is not inductive: it says nothing of the
skips already made.

### The games on the server

About `GameServer!Spec`, from the assumptions on the board, `BoundsAssumption` (the
bounds are numbers) and `GamesAssumption` (no game is `NoGame`). Crashes and answers
that come again are steps like any other.

| Theorem | Proves | Invariant it rests on |
|---|---|---|
| `TypeCorrect` | `[]TypeOK` | with `GamesExist`: a table, or one being made, is for a stored game, and an id is left for it |
| `MapsAlwaysAgree` | `[]MapsAgree` | `Mapping` |
| `PlayersAlwaysMeet` | `[]PlayersMeet` | `Mapping` |
| `NoGameIsForked` | `[]OneOpenTable` | `Mapping` |
| `SeatedTablesStay` | `SeatedTableStays` | `Mapping` |
| `StoredAlwaysIsPlayed` | `[]StoredIsPlayed` | `Positions` |
| `TheAnswerStands` | `[]AnswerStands` | `Answers` |
| `GamesFinishOnce` | `[]FinishedOnce`, if the rules sweep the board | `Results`, with `Played` |
| `ActiveGamesArePlayable` | `[]ActiveIsPlayable`, if they also end the game where stealing is allowed | `Playable` |
| `SavedGamesFollowTheRules` | `SavedGamesByTheRules`, by the same rules: `GameServer` implements `KalahaBoard` | all of them |

* `Mapping`: a game and its table know each other from `createTable` to
  `removeForTable`. Open tables are mapped; a game whose table is being made has none;
  the table that the task destroys is closed and unmapped; a table with a player or an
  unfinished `finishGame` is open. Without the last two the removal of a table could
  unmap one that is open.
* `Positions`: `createTable` works on a row it has read before. That row's position is
  still the stored one because a game without a table in the mapping has no open table
  (`Mapping`), so nobody moves in it meanwhile. The status in that row may be old: this
  is what `Answers` is about, with `raced` for the games to which it happened.
* `Results`: a game that was counted has a position in which nobody can move. That is
  why a repeated answer, which sets it back to ACTIVE and lets a new table open, cannot
  have it counted again; between `updateGame` and `finishGame` it has not been counted.
* `Playable`: the stored position of a game that is not counted has a move for the
  player whose turn is stored, but between the two transactions, where a table is
  `finishing` or a crash left the game `torn`.
* The refinement maps the stored position, the stored turn and "nobody can move" to the
  variables of `KalahaBoard`. A move that is saved is `MoveStones` (`SowIsMove`), every
  other step stutters (`SavedGameStays`). `SameRules` shows that the operators of the
  instance are those of the server. The end of a game is visible in its position only
  if the rules sweep the board, hence the condition. `DefaultRules`, the only rules that
  the code of the server constructs, satisfy both conditions.

Most steps do not touch what these invariants speak of: `QuietSteps` says once what
every step but creating, answering, reading, opening, moving and finishing keeps.

### Requests

About `Requests!Spec`, from `FbUsersAssumption` and `LinksAssumption` (users and
links are finitely many) and `BoundsAssumption`.

| Theorem | Proves | Invariant it rests on |
|---|---|---|
| `TypeCorrect` | `[]TypeOK` | with `Linked`: a link is posted by a user with an account, and a page that updates a request has its row and the counter of its inviter |
| `RequestsAlwaysReachTheirUser` | `[]RequestsReachTheirUser` | `OneRow`: while a transaction is about to store a user there is no row of him and no other such transaction, unless `raced` |
| `OnlyInviteesAccept` | `[]AcceptedByInvitee` | `Followed`: only who a link was sent to has it, gives it to a page or has a request of it, and has one |
| `PendingIsAlwaysAnswerable` | `[]PendingIsAnswerable` | `Settling`: only a link whose callback is over and whose requests are accepted is taken from Facebook, but for those looked up `early` |
| `FollowingAccepts` | `FollowedIsAccepted` | `Settling` |
| `AcceptedInvitesAreCounted` | `[]AcceptedInvitesCounted` | inductive with `TypeOK` and `Linked`; the set of accepted invitations of an inviter gains one element |

What a step does to the rows, which are sequences, is stated once for each action
(`UpdateFacts`, `SignInFacts`, `StoreInviteFacts`, …) and used by all invariants.

### The page and its table

About `WebClient!Spec`, from the assumptions on the board and `PagesAssumption`. The
last two have the hypothesis `ThePagesRules`: the three rules of `DefaultRules`, and at
least as many stones in a pit as a side has pits. The code has six of each.

| Theorem | Proves | Invariant it rests on |
|---|---|---|
| `TypeCorrect` of `WebClientProofs` | `[]TypeOK` | with `Started`: a page whose first State is not yet there has no timer, and that State is its next message |
| `PagesAgree` | `[]BoardsAgree` | `IInv` |
| `NoneRefused` | `[]NoMoveRefused` | `IInv` |

* The rules of the page are those of the table (`PageMoves`). `HouseOf` says which house
  a pit shows, `PitOnWay` numbers the pits on the way round, and following
  `PitIdForDistance` is adding on that number (`PitsOfTheWay`). So less than a lap of
  stones falls on the pits that show the table's houses (`PageSows`); then come the steal
  (`PageSteals`) and the turn.
* They agree only on boards that a game can have. `checkPerformSteal` compares pit
  numbers and takes the home pit for one of the own pits: a last stone there would steal
  if the home was empty. `Boards` is the reason why it never does: as long as a home is
  empty, each pit of its player has enough stones to go past it, or none (`HomeOpen`,
  `NoStealAtHome`). With fewer stones than pits this is false, and so is the agreement:
  with two pits and one stone TLC finds a page on another board than its table. A page
  of six pits and six stones is just within the hypothesis.
* `InPlay` is the agreement with messages under way. Either the page follows: its board,
  moved on by the timers that run and the messages that come, is the table's
  (`Follows`); or it is ahead: the table's board, moved on by the moves it has sent, is
  the page's (`IsAhead`). `Leads` says what a sequence of messages does to a board. Two
  pages are never both ahead of the table in ways that conflict, since only the player
  whose turn it is moves.
* `EndWaits` is what remains to be told when the game has ended: the last State and End
  are on their way, or the page shows the last board already.
* `IInv` joins them: types, a table's board in `Boards`, and for each open page `EndWaits`
  or `InPlay`. It held in a run of TLC before it was proved.

### Behind the tables and in the page's libraries

| Theorem | Proves | Invariant it rests on |
|---|---|---|
| `WhoeverIsToActIsTold` of `BackgroundProofs` | `BackgroundSpec => []TurnsAreTold` | `Turns`: until the player of a notice has moved it is the player's turn, so the row read when the notice is handled names the other |
| `StatsAreOfFinishedGames` of `BackgroundProofs` | `BackgroundSpec => []StatsMatchGames` | `Records`: what each handler has read, `WorkOK` and `ReaperOK`; a game its table has read as finished is finished |
| `RequestsEndOnce` of `JQueryProofs` | `Spec => []EndsOnce` of `Ajax` | `IInv`: per request its state, what it told, and data that fits the response; `active` is the number of XHRs under way |
| `DeferredIsAPromise` of `JQueryProofs` | `DeferredSpec => PInit /\ [][PNext]` of `Promise`: `Deferred` implements it | `DeferredInv`: `OutcomeOK`, `ProgressOK`, `FramesOK`, `OnlyOne` |

The first two assume that users and games are finitely many and that a game has two
players. `updateStats` goes over a list of games; the model has its result in closed
form, and `Committed` shows that the counters of a user whose rows nobody overwrote
grow by the games that this commit finished. `RequestsEndOnce` assumes that requests
are finitely many and of one kind each (`KindsAssumption`); `Converted` goes through
the content types to show what `ajaxHandleResponses` and `ajaxConvert` make of a
response.

`DeferredIsAPromise` holds for any handlers and watchers, as long as no handler is also
a watcher or one of the Deferred's own functions (`HandlersAssumption`).

* `OnlyOne`: a list that has fired has disabled the other one, or does so before the
  page's code runs again, since its own functions come first. That is why no handler
  settles a Deferred a second time from inside the first.
* `OutcomeOK`: where the own functions are in a list, and when it still has functions:
  a list that has fired and does not fire is empty, one that fires knows its length.
* `FramesOK`: the calls of `fire` that are under way are of different lists, each of which
  is firing; a nested call is never of the list around it.
* The handlers that wait in `Promise` are those of a list after the one being called
  (`Ahead`); none waits in a list once the other has fired. `AddKeeps`, `CallKeeps` and
  `EndKeeps` say what `add`, a call and the end of the loop do to them.

`DeferredInv` held in a run of TLC before it was proved.

### The Bayeux client

About `Cometd!Spec`, from `MaxConnectionsAssumption` (at least two connections: one is
kept for the long poll), `MaxLengthAssumption`, `CrossDomainAssumption` and
`LimitsAssumption`, whatever the numbers of calls, losses and restarts.

| Theorem | Proves | Invariant it rests on |
|---|---|---|
| `OneTurnAtATime` | `[]ClientInv` | `ClientInv` itself |
| `ClientImplementsLink` | `ImplementsLink`: `Cometd` implements `BayeuxLink` | `ClientInv` |
| `PublishesInOrder` | `[]AcceptedInOrder`, for two connections | `OrderInv` |

* `ClientInv` has the types and two facts about the *tokens* of a client: the requests on
  the wire that carry a long poll or a handshake and have not expired. `OneTurn`: there
  is one of them or the timer that will send one, never two. `_metaConnectSend` throws
  when a second long poll is sent; this is why none is.
* `Phase`: a long poll is of a session, or the client is closed. While the client
  handshakes, unless it is closed, the transports know of nothing else and nothing waits
  (`Only`, `Bare`). Without this part a handshake could wait behind other envelopes
  and be no token at all, so that one turn at a time would not be inductive.
* `Linked` says what a turn of the event loop may do to the four variables of the link.
  Its five disjuncts are those of `LinkNext` with what may happen before and after in the
  same turn: a listener that disconnects, or an advice to.
* The handlers are operators on the client's record that call one another, so the proof
  goes along the calls: a lemma for each handler says which fields it leaves alone and
  what it does to tokens and link, and a lemma for each action (`RespondTurns`,
  `FailTurns`, ...) joins them.
* Handlers that go over the messages of an envelope are folds. `FoldReceive`, `FoldFail`,
  `FoldSend` and the like give the values between the steps as a function, from which
  `KeepsIn` and `SetInduction` conclude: induction on one set, derived from the
  well-foundedness of the order of the naturals, where the induction theorems of the
  library need an operator as a parameter.
* `PublishesInOrder` assumes `MaxConnections = 2`, the default of cometd.js:1125, which
  the page leaves alone: one connection is left beside the long poll. With three the
  property is false, since two publishes are under way at once (TLC finds it in eight
  states).
* `OrderInv` says that there is a set P of pairs of a session and a number that has what
  the server has accepted (`Seen`) and what it may yet be sent by requests that have
  expired (`Spent`), and that all the rest comes behind P, in order (`Orderly`): P grows
  when the server accepts a batch and when a script expires, and loses the pairs of an id
  that becomes the id of a new session. A batch is of one session and
  in order (`Fine`); at most one request of a session is under way (`One`), and what waits
  goes behind it (`Turn`).
* The rest of `Ordered` is what makes this inductive. A transport knows of one request
  besides the long poll (`Slot`), and one it has forgotten is of a session that is over
  (`Strays`): so when a request completes nothing of its session is ahead of what waits.
  What waits while the transport has room has lost its place (`Waited`), which is how
  `displaced` comes to mark the exceptions that `AcceptedInOrder` names. Publishes wait in
  `queue` while the client handshakes (`Batch`), and the new session is one that nothing
  refers to (`Fresh`). A batch that goes in pieces waits only behind the message
  that disconnects, with no other batch (`LongOnes`), so its pieces go one behind the other.
* As for `ClientInv` there is a lemma for each handler (`SendOrderly`,
  `CompleteOrderly`, `HandshakeResponseOrderly`, ...) and for each action (`RespondOrderly`,
  `ExpireOrderly`, `ServeOrderly`, ...); `OrderInvNext` joins them.

### Only model-checked

* The liveness properties (`Termination`, `ClosedIsDestroyed`, `EndIsShown`,
  `ComesBack`, `DisconnectTakesEffect`, `AtTheTable`, `MessagesShown`), and fairness in
  the refinements: out of the prover's reach.
* `PacketCodec` (`RoundTrip`, `TextSurvives`, `ParamsShown`), recursive over the kinds of
  fields and the bytes of texts: induction over data, which the installed provers
  cannot instantiate.
* `BjornRules` have no run of their own; the theorems on the board hold for them, those
  on the number of moves too.

## 5. Not modelled, and the plan

Not modelled for good: the rating (floating point), configuration, JSON as text,
pages and their looks, Facebook authentication, the text client, Bootstrap and the
parts of jQuery that select, listen and style. The age of sessions and the reaper
that removes them change nothing but the next login.

`Requests` leaves out DENIED and TIMED_OUT, which no code but tests sends, and
local users. `Cometd` leaves out synchronous requests, batches, extensions,
unsubscribe and the WebSocket transport, which the adapter unregisters.
`Connection` leaves out cancel and logout, which no page calls, and logins and joins
that the server refuses. A database that fails under a table is not modelled: what
the container does then is not in the source.

Some properties no run lists, since they say little to a reader or are implied by others:
`TypeOK` of `KalahaBoard`, `GameServer`, `WebClient` and `Requests`, `LoopTypeOK` and
`SowsByTheFormula` of `SowLoop`, and `MovesGoForward` of `KalahaBoard`,
of which `Termination` is the consequence. TLC has found no violation of them (of
`MovesGoForward` neither by `DefaultRules` nor by `BjornRules`), and they are proved.

What would come next: `Sessions` and the login handlers, session ids handed to pages and
used at login.

Running: `tlc -config board_default.cfg MCKalahaBoard` and likewise for the
other runs; `tlapm GameServerProofs.tla` and likewise for the other modules whose
name ends in `Proofs`.
