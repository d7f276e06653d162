------------------------------ MODULE Connection ------------------------------
(***************************************************************************)
(* The page's way to its table: comm.js over the Connector of the client   *)
(* API and one of its two adapters. A browser with WebSockets gets the     *)
(* WebSocketAdapter, any other the CometdAdapter over cometd.js, here the  *)
(* link of BayeuxLink. Each time the adapter reports CONNECTED the page    *)
(* logs in; the reply makes it ask for its table, that reply makes it      *)
(* join, and only then does it get the State that lets its user move.      *)
(*                                                                         *)
(* A socket that closes loses all that is under way. Over cometd.js every  *)
(* packet is a request of its own beside the long poll, and the two fail   *)
(* apart: the loss of a poll is reported and takes no publish with it, the *)
(* loss of a publish is reported to nobody, and nobody sends it again.     *)
(* Left out: CANCELLED and logout (disconnect is called by a second        *)
(* KALAHA.game on a page, which no page makes), packets Firebase refuses,  *)
(* the other packets.                                                      *)
(***************************************************************************)
EXTENDS BayeuxLink, Sequences, SequencesExt

CONSTANTS
  Browsers,     \* whether each has WebSockets (_haveWebSocket() of comm.js), the
                \*   MAX_ATTEMPTS of FIREBASE.ReconnectStrategy, 0 unless it is set, and
                \*   a bound: how many sockets, or how many long polls, handshakes and
                \*   publishes, its network may lose
  MaxMoves      \* bound: moves of the user

ASSUME BrowsersAssumption ==
  Browsers \subseteq [webSocket : BOOLEAN, MAX_ATTEMPTS : Nat, maxLosses : Nat]
ASSUME MaxMovesAssumption == MaxMoves \in Nat

VARIABLES
  browser,    \* the one of Browsers the page runs in
  link,       \* the state of the socket, or of the session of cometd.js
  adapter,    \* [firstConnect] of the CometdAdapter
  connector,  \* [cancelled, reconnecting, attempts, timer] of the Connector
  comm,       \* [player, table, state]: whether _playerId and _tableId are set,
              \*   and whether the page got its first State
  toServer,   \* packets on their way to the server
  toPage,     \* and back
  server,     \* [login, seated]: what it knows of this connection (external)
  count       \* [losses, row, alone, moves]: history; since the adapter last reported
              \*   CONNECTED, row counts the losses that were noticed, and alone is
              \*   whether packets on the way to the table were lost unnoticed

vars == <<linkVars, browser, link, adapter, connector, comm, toServer, toPage, server, count>>

Init ==
  /\ LinkInit
  /\ browser \in Browsers
  /\ link = "none"
  /\ adapter = [firstConnect |-> FALSE]
  /\ connector = [cancelled |-> FALSE, reconnecting |-> FALSE, attempts |-> 0, timer |-> FALSE]
  /\ comm = [player |-> FALSE, table |-> FALSE, state |-> FALSE]
  /\ toServer = <<>>
  /\ toPage = <<>>
  /\ server = [login |-> FALSE, seated |-> FALSE]
  /\ count = [losses |-> 0, row |-> 0, alone |-> FALSE, moves |-> 0]

Gone == [login |-> FALSE, seated |-> FALSE]

-----------------------------------------------------------------------------
\* comm.js and the Connector.

\* _handleConnect; it reports CONNECTED whatever _cancelled says.
handleConnect(c) == [c EXCEPT !.reconnecting = FALSE]

\* Mutant of handleDisconnect: the loss of a connection that opened is not noticed.
HandleDisconnectOpening(c) ==
  IF ~c.reconnecting \/ c.cancelled THEN c
  ELSE [c EXCEPT !.timer = c.attempts < browser.MAX_ATTEMPTS, !.attempts = @ + 1]

\* _handleDisconnect: without attempts the first loss is the last.
handleDisconnect(c) ==
  LET attempts == IF c.reconnecting THEN c.attempts + 1 ELSE 1
  IN CASE c.cancelled -> c
       [] ~c.cancelled /\ ~c.reconnecting /\ browser.MAX_ATTEMPTS = 0 -> c
       [] ~c.cancelled /\ (c.reconnecting \/ browser.MAX_ATTEMPTS > 0) ->
            IF attempts > browser.MAX_ATTEMPTS
            THEN [c EXCEPT !.reconnecting = FALSE, !.cancelled = TRUE, !.attempts = attempts]
            ELSE [c EXCEPT !.reconnecting = TRUE, !.timer = TRUE, !.attempts = attempts]

\* _statusCB: CONNECTED makes the page log in.
statusCB(sent) == Append(sent, "Login")

\* _packetCB, _loginCB, _serviceCB, _joinCB and _gameCB: what the page knows after
\* a packet, and what it sends.
packetCB(known, packet) ==
  CASE packet = "LoginResponse" -> [known EXCEPT !.player = TRUE]
    [] packet = "JoinResponse" -> [known EXCEPT !.table = TRUE]
    [] packet = "State" -> [known EXCEPT !.state = TRUE]
    [] OTHER -> known

answers(packet) ==
  CASE packet = "LoginResponse" -> <<"GetTable">>
    [] packet = "GetTableResponse" -> <<"Join">>
    [] OTHER -> <<>>

\* Every function that is subscribed gets the packet.
Handlers == IF browser.webSocket THEN 1 ELSE subs

Receive ==
  /\ toPage # <<>>
  /\ LET packet == Head(toPage)
     IN /\ comm' = IF Handlers > 0 THEN packetCB(comm, packet) ELSE comm
        /\ toServer' = toServer \o FlattenSeq([i \in 1 .. Handlers |-> answers(packet)])
  /\ toPage' = Tail(toPage)
  /\ UNCHANGED <<browser, linkVars, link, adapter, connector, server, count>>

\* The user moves, which the page allows once it has a State. A socket that is
\* closed drops what is sent; cometd.js keeps it for the next session.
SendMove ==
  /\ comm.state
  /\ count.moves < MaxMoves
  /\ toServer' = IF browser.webSocket /\ link # "open" THEN toServer
                 ELSE Append(toServer, "Sow")
  /\ count' = [count EXCEPT !.moves = @ + 1]
  /\ UNCHANGED <<browser, linkVars, link, adapter, connector, comm, toPage, server>>

-----------------------------------------------------------------------------
\* The WebSocketAdapter.

Lost == count' = [count EXCEPT !.losses = @ + 1, !.row = @ + 1]

Reported == count' = [count EXCEPT !.row = 0, !.alone = FALSE]

Connect ==
  /\ browser.webSocket
  /\ link = "none"
  /\ link' = "opening"
  /\ UNCHANGED <<browser, linkVars, adapter, connector, comm, toServer, toPage, server, count>>

OnOpen ==
  /\ link = "opening"
  /\ link' = "open"
  /\ connector' = handleConnect(connector)
  /\ toServer' = statusCB(<<>>)
  /\ Reported
  /\ UNCHANGED <<browser, linkVars, adapter, comm, toPage, server>>

OnClose ==
  /\ link \in {"opening", "open"} /\ browser.webSocket
  /\ count.losses < browser.maxLosses
  /\ link' = "closed"
  /\ connector' = handleDisconnect(connector)
  /\ toServer' = <<>>
  /\ toPage' = <<>>
  /\ server' = Gone
  /\ Lost
  /\ UNCHANGED <<browser, linkVars, adapter, comm>>

\* _reconnect, from the timer.
Reconnect ==
  /\ connector.timer
  /\ connector' = [connector EXCEPT !.timer = FALSE]
  /\ IF browser.webSocket THEN link' = "opening" /\ UNCHANGED linkVars
                      ELSE link' = "handshaking" /\ Forget
  /\ UNCHANGED <<browser, adapter, comm, toServer, toPage, server, count>>

-----------------------------------------------------------------------------
\* The CometdAdapter over the link: its listener of /meta/connect, which reports
\* CONNECTED after a long poll that failed, or the first one, and subscribes a
\* function, whether the one from before is still there or not.

\* Whether the end of a long poll is reported as CONNECTED.
reports(ok) == ok /\ (~connected \/ adapter.firstConnect)

\* Mutant of metaConnect: a function is subscribed at the first connect only.
MetaConnectOnce(ok) ==
  /\ session
  /\ connected' = ok
  /\ subs' = IF reports(ok) /\ count.losses = 0 THEN subs + 1 ELSE subs
  /\ UNCHANGED <<closed, session>>
  /\ adapter' = [adapter EXCEPT !.firstConnect = ~ok]
  /\ connector' = CASE reports(ok) -> handleConnect(connector)
                    [] ~ok -> handleDisconnect(connector)
                    [] OTHER -> connector

metaConnect(ok) ==
  /\ session
  /\ connected' = ok
  /\ subs' = IF reports(ok) THEN subs + 1 ELSE subs
  /\ UNCHANGED <<closed, session>>
  /\ adapter' = [adapter EXCEPT !.firstConnect = ~ok]
  /\ connector' = CASE reports(ok) -> handleConnect(connector)
                    [] ~ok -> handleDisconnect(connector)
                    [] OTHER -> connector

\* A handshake, the first one or as the server has forgotten the session.
Handshake ==
  /\ ~browser.webSocket
  /\ link \in {"none", "forgotten"}
  /\ Forget
  /\ link' = "handshaking"
  /\ UNCHANGED <<browser, adapter, connector, comm, toServer, toPage, server, count>>

HandshakeReply ==
  /\ link = "handshaking"
  /\ Establish
  /\ link' = "open"
  /\ UNCHANGED <<browser, adapter, connector, comm, toServer, toPage, server, count>>

\* It fails, and cometd.js tries again; what it has queued stays.
HandshakeLost ==
  /\ link = "handshaking"
  /\ count.losses < browser.maxLosses
  /\ Forget
  /\ adapter' = [adapter EXCEPT !.firstConnect = TRUE]
  /\ connector' = handleDisconnect(connector)
  /\ Lost
  /\ UNCHANGED <<browser, link, comm, toServer, toPage, server>>

PollReply ==
  /\ link = "open" /\ ~browser.webSocket
  /\ metaConnect(TRUE)
  /\ IF reports(TRUE) THEN toServer' = statusCB(toServer) /\ Reported
                      ELSE UNCHANGED <<toServer, count>>
  /\ UNCHANGED <<browser, link, comm, toPage, server>>

\* The network fails under the long poll, and what its response carried is lost.
\* The session stays, and so do the publishes, under way and waiting.
PollLost ==
  /\ link = "open" /\ ~browser.webSocket
  /\ count.losses < browser.maxLosses
  /\ metaConnect(FALSE)
  /\ toPage' \in Suffixes(toPage)
  /\ Lost
  /\ UNCHANGED <<browser, link, comm, toServer, server>>

\* A request beside the poll, a publish or the subscribe, fails or expires alone,
\* before the server had it or after. Those that wait behind it fail with it, until
\* one sent meanwhile ends well; what its response carried is lost too. Nobody
\* above cometd.js listens for this.
PublishLost ==
  /\ link = "open" /\ ~browser.webSocket
  /\ count.losses < browser.maxLosses
  /\ toServer' \in Suffixes(toServer)
  /\ toPage' \in Suffixes(toPage)
  /\ LET lost == SubSeq(toServer, 1, Len(toServer) - Len(toServer'))
     IN /\ lost # <<>> \/ toPage' # toPage
        /\ count' = [count EXCEPT !.losses = @ + 1,
                       !.alone = @ \/ toPage' # toPage \/ Range(lost) \ {"Sow"} # {}]
  /\ UNCHANGED <<browser, linkVars, link, adapter, connector, comm, server>>

\* The server was restarted. It refuses what is under way, and cometd.js resets its
\* transport, with what waits there.
PollUnknown ==
  /\ link = "open" /\ ~browser.webSocket
  /\ count.losses < browser.maxLosses
  /\ metaConnect(FALSE)
  /\ link' = "forgotten"
  /\ toServer' = <<>>
  /\ toPage' \in Suffixes(toPage)
  /\ server' = Gone
  /\ Lost
  /\ UNCHANGED <<browser, comm>>

-----------------------------------------------------------------------------
\* The server (external): only who has logged in is answered; the State follows
\* the reply to the join.

Answer(packet) ==
  CASE packet = "Login" -> <<"LoginResponse">>
    [] packet = "GetTable" /\ server.login -> <<"GetTableResponse">>
    [] packet = "Join" /\ server.login -> <<"JoinResponse", "State">>
    [] OTHER -> <<>>

Serve ==
  /\ link = "open"
  /\ toServer # <<>>
  /\ LET packet == Head(toServer)
     IN /\ toPage' = toPage \o Answer(packet)
        /\ server' = [login |-> server.login \/ packet = "Login",
                      seated |-> server.seated \/ (packet = "Join" /\ server.login)]
  /\ toServer' = Tail(toServer)
  /\ UNCHANGED <<browser, linkVars, link, adapter, connector, comm, count>>

Next ==
  \/ Receive \/ SendMove
  \/ Connect \/ OnOpen \/ OnClose \/ Reconnect
  \/ Handshake \/ HandshakeReply \/ HandshakeLost
  \/ PollReply \/ PollLost \/ PublishLost \/ PollUnknown
  \/ Serve

\* Packets arrive, timers run off, a socket opens in the end and long polls are
\* answered; what the network loses is bounded.
Fairness ==
  /\ WF_vars(Receive) /\ WF_vars(Serve)
  /\ WF_vars(Connect) /\ WF_vars(OnOpen) /\ WF_vars(Reconnect)
  /\ WF_vars(Handshake) /\ WF_vars(HandshakeReply) /\ WF_vars(PollReply)

Spec == Init /\ [][Next]_vars /\ Fairness

-----------------------------------------------------------------------------
\* The Connector has given up: its socket is closed, no attempt is scheduled, and
\* it lost more in a row than it may try to make good.
GaveUp ==
  browser.webSocket /\ link = "closed" /\ ~connector.timer /\ count.row > browser.MAX_ATTEMPTS

\* A step of the way to the table was lost with a publish, and the adapter has not
\* reported CONNECTED since: the page waits for an answer that nobody owes it.
Stranded == ~browser.webSocket /\ count.alone

\* However often the connection is interrupted, in the end the player is logged in
\* and seated at the table, and the page knows both, with two exceptions: the
\* Connector gave up, which takes more than MAX_ATTEMPTS losses with no connection
\* between, or a publish was lost beside a long poll that went on, and no loss that
\* is noticed came after it (firebase-js-api: _handleDisconnect, and send, which
\* does not learn of a failure; comm.js:87 starts the chain again).
AtTheTable ==
  <>[](GaveUp \/ Stranded \/ (server.seated /\ comm.player /\ comm.table /\ comm.state))
=============================================================================
