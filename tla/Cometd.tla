-------------------------------- MODULE Cometd --------------------------------
(***************************************************************************)
(* The Bayeux client of js/cometd/cometd.js (org.cometd.Cometd) with its   *)
(* transports, a page that uses it and a server. Every handler of the      *)
(* client is an operator from the record of the client to the record after *)
(* it, composed as the code calls one from the other; an action is one     *)
(* turn of the browser's event loop (a call of the page, a timer, the end  *)
(* of a request) or a step of the server or the network.                   *)
(*                                                                         *)
(* The client's record holds, besides what RequestTransport describes:     *)
(*   status, clientId (0: null), connected, internalBatch, transport       *)
(*   reconnect   _advice.reconnect                                         *)
(*   scheduled   what the timer of _scheduledSend will call                *)
(*   queue       _messageQueue                                             *)
(*   subs        how many functions are subscribed to the channel          *)
(* Left out: back-off and intervals (delays only), batches and extensions  *)
(* (the page has none), the reestablish flag (passed on, never read).      *)
(***************************************************************************)
EXTENDS RequestTransport

\* Bounds: how many calls of each kind the page makes and how many faults there are
\* (publish, subscribe, disconnect, failure, restart), which publishes are longer than
\* a URL, and whether a successful reply always carries an advice. A run takes any of
\* them.
CONSTANT Limits

ASSUME LimitsAssumption ==
  Limits \subseteq [publish : Nat, subscribe : Nat, disconnect : Nat, failure : Nat,
                    restart : Nat, tooLong : SUBSET Nat, adviceAlways : BOOLEAN]

VARIABLES
  client,   \* the record of the client
  server,   \* per session it knows, the publishes it accepted in turn
  calls,    \* how many calls and faults have happened
  limits    \* and how many there may be

vars == <<client, server, calls, limits>>

Message(channel, n, clientId) ==
  [channel |-> channel, n |-> n, clientId |-> clientId, length |-> 1, displaced |-> FALSE]
Reply(message, ok, advice, clientId) ==
  [channel |-> message.channel, n |-> message.n, ok |-> ok, advice |-> advice,
   clientId |-> clientId]

isDisconnected(s) == s.status \in {"disconnecting", "disconnected"}

-----------------------------------------------------------------------------
\* Sending.

\* _send stamps the messages with the client id and hands them to the transport.
stamp(messages, clientId) ==
  [i \in DOMAIN messages |-> [messages[i] EXCEPT !.clientId = clientId]]
send(s, messages) ==
  After(s, LAMBDA t : queueSend(t, t.transport, stamp(messages, t.clientId)))

\* _queueSend of Cometd: a message waits while a handshake is under way.
queueMessage(s, message) ==
  IF s.internalBatch THEN [s EXCEPT !.queue = Append(@, message)] ELSE send(s, <<message>>)

flushBatch(s) ==
  IF s.queue = <<>> THEN s ELSE send([s EXCEPT !.queue = <<>>], s.queue)

delayedSend(s, operation) == [s EXCEPT !.scheduled = operation]
cancelDelayedSend(s) == [s EXCEPT !.scheduled = ""]

\* _connect: the status is left at connecting when the transport throws.
connect(s) ==
  IF isDisconnected(s) THEN s
  ELSE IF ~metaConnectAllowed(s, s.transport) THEN [s EXCEPT !.status = "connecting"]
  ELSE [metaConnectSend(s, s.transport, <<Message("connect", 0, s.clientId)>>)
          EXCEPT !.status = "connected"]

delayedConnect(s) == delayedSend([s EXCEPT !.status = "connecting"], "connect")

updateAdvice(s, advice) == IF advice = "" THEN s ELSE [s EXCEPT !.reconnect = advice]

\* Mutant of handshake: the subscriptions outlive their session.
HandshakeKeepingSubs(s) ==
  LET cleared == [s EXCEPT !.clientId = 0]
      ready == IF isDisconnected(s) THEN updateAdvice(reset(cleared), "retry")
               ELSE updateAdvice(cleared, "retry")
      fresh == [ready EXCEPT !.internalBatch = TRUE, !.status = "handshaking",
                             !.transport = negotiateTransport(ready)]
  IN send(fresh, <<Message("handshake", 0, 0)>>)

\* _handshake
handshake(s) ==
  LET cleared == [s EXCEPT !.clientId = 0, !.subs = 0]
      ready == IF isDisconnected(s) THEN updateAdvice(reset(cleared), "retry")
               ELSE updateAdvice(cleared, "retry")
      fresh == [ready EXCEPT !.internalBatch = TRUE, !.status = "handshaking",
                             !.transport = negotiateTransport(ready)]
  IN send(fresh, <<Message("handshake", 0, 0)>>)

delayedHandshake(s) ==
  delayedSend([s EXCEPT !.status = "handshaking", !.internalBatch = TRUE], "handshake")

-----------------------------------------------------------------------------
\* The ends of messages. Publishes and subscriptions that fail or succeed only
\* notify the listeners of the page, which do nothing.

\* disconnect() of the API.
disconnectCall(s) ==
  IF isDisconnected(s) THEN s
  ELSE send([s EXCEPT !.status = "disconnecting"], <<Message("disconnect", 0, 0)>>)

\* _notifyListeners of /meta/connect: a listener may call disconnect().
notify(s, quit) == IF quit THEN disconnectCall(s) ELSE s

\* _disconnect(false): the queued messages fail.
disconnect(s) ==
  [cancelDelayedSend(s) EXCEPT !.clientId = 0, !.status = "disconnected", !.queue = <<>>]

failHandshake(s) ==
  IF ~isDisconnected(s) /\ s.reconnect # "none" THEN delayedHandshake(s) ELSE disconnect(s)

\* _failConnect, for the advice the client has (not the one it makes up).
failConnect(s, quit) ==
  LET told == notify(s, quit)
      action == IF isDisconnected(told) THEN "none" ELSE told.reconnect
  IN CASE action = "retry" -> delayedConnect(told)
       [] action = "handshake" -> delayedHandshake(reset(told))
       [] OTHER -> disconnect(told)

connectFailure(s, quit) == failConnect([s EXCEPT !.connected = FALSE], quit)

\* What abort does about the requests it aborts, one after the other: they
\* complete and fail at once. (No disconnect message is among them: it is the
\* end of the only one that calls this.)
abortRequest(s, w) ==
  LET ended == crossDomainFails(complete(s, w, FALSE), w)
  IN CASE w.messages[1].channel = "connect" -> connectFailure(ended, FALSE)
       [] w.messages[1].channel = "handshake" -> failHandshake(ended)
       [] OTHER -> ended

\* Requests before the long poll.
abort(s) ==
  LET under == aborted(s, s.transport)
      requests == SetToSeq({w \in under : ~w.metaConnect})
      polls == SetToSeq({w \in under : w.metaConnect})
      failed == FoldLeft(abortRequest, s, requests \o polls)
  IN resetTransport(failed, s.transport)

\* _disconnect(true)
abortAndDisconnect(s) ==
  [abort(cancelDelayedSend(s)) EXCEPT !.clientId = 0, !.status = "disconnected", !.queue = <<>>]

\* _handshakeResponse of a successful reply; an advice that is neither retry
\* nor none throws, after the listeners have been told.
handshakeResponse(s, reply) ==
  LET known == [s EXCEPT !.clientId = reply.clientId]
      there == [known EXCEPT !.transport = negotiateTransport(known), !.internalBatch = FALSE]
  IN After(flushBatch(there), LAMBDA told :
       CASE isDisconnected(told) \/ told.reconnect = "none" -> disconnect(told)
         [] ~isDisconnected(told) /\ told.reconnect = "retry" -> delayedConnect(told)
         [] OTHER -> told)

\* _connectResponse; the same exception.
connectResponse(s, reply, quit) ==
  LET told == notify([s EXCEPT !.connected = TRUE], quit)
      action == IF isDisconnected(told) THEN "none" ELSE told.reconnect
  IN IF ~reply.ok THEN failConnect([s EXCEPT !.connected = FALSE], quit)
     ELSE CASE action = "retry" -> delayedConnect(told)
            [] action = "none" -> disconnect(told)
            [] OTHER -> told

\* _receive of one reply, after its advice.
receive(s, reply, quit) ==
  LET advised == updateAdvice(s, reply.advice)
  IN CASE reply.channel = "handshake" /\ reply.ok -> handshakeResponse(advised, reply)
       [] reply.channel = "handshake" /\ ~reply.ok -> failHandshake(advised)
       [] reply.channel = "connect" -> connectResponse(advised, reply, quit)
       [] reply.channel = "disconnect" /\ reply.ok -> disconnect(advised)
       [] reply.channel = "disconnect" /\ ~reply.ok -> abortAndDisconnect(advised)
       [] OTHER -> advised

handleMessages(s, replies, quit) ==
  FoldLeft(LAMBDA done, reply : After(done, LAMBDA t : receive(t, reply, quit)), s, replies)

\* Mutant of failMessage: the failure of a disconnect message goes unnoticed.
FailMessageButDisconnect(s, message, quit) ==
  CASE message.channel = "handshake" -> failHandshake(s)
    [] message.channel = "connect" -> connectFailure(s, quit)
    [] OTHER -> s

\* _handleFailure of one message.
failMessage(s, message, quit) ==
  CASE message.channel = "handshake" -> failHandshake(s)
    [] message.channel = "connect" -> connectFailure(s, quit)
    [] message.channel = "disconnect" -> abortAndDisconnect(s)
    [] OTHER -> s

handleFailure(s, messages, quit) ==
  FoldLeft(LAMBDA done, message : After(done, LAMBDA t : failMessage(t, message, quit)),
           s, messages)

-----------------------------------------------------------------------------
Init ==
  /\ client = [status |-> "disconnected", clientId |-> 0, reconnect |-> "retry",
               scheduled |-> "", internalBatch |-> FALSE, queue |-> <<>>,
               connected |-> FALSE, subs |-> 0, transport |-> "long-polling",
               transports |-> [type \in Types |-> Unused], crossOk |-> TRUE,
               wire |-> {}, deferred |-> <<>>]
  /\ server = [session \in {} |-> <<>>]
  /\ calls = [init |-> 0, publish |-> 0, subscribe |-> 0, disconnect |-> 0,
              failure |-> 0, restart |-> 0]
  /\ limits \in Limits

Count(name) == calls' = [calls EXCEPT ![name] = @ + 1]

\* The page: configure and handshake, once.
Handshake ==
  /\ calls.init = 0
  /\ client' = handshake([client EXCEPT !.status = "disconnected"])
  /\ Count("init")
  /\ UNCHANGED <<server, limits>>

Publish ==
  /\ calls.publish < limits.publish
  /\ ~isDisconnected(client)
  /\ LET n == calls.publish + 1
         length == IF n \in limits.tooLong THEN MaxLength + 1 ELSE 1
     IN client' = queueMessage(client, [Message("publish", n, 0) EXCEPT !.length = length])
  /\ Count("publish")
  /\ UNCHANGED <<server, limits>>

\* The server is told of the first function only.
Subscribe ==
  /\ calls.subscribe < limits.subscribe
  /\ ~isDisconnected(client)
  /\ LET added == [client EXCEPT !.subs = @ + 1]
     IN client' = IF client.subs > 0 THEN added
                  ELSE queueMessage(added, Message("subscribe", 0, 0))
  /\ Count("subscribe")
  /\ UNCHANGED <<server, limits>>

Disconnect ==
  /\ calls.disconnect < limits.disconnect
  /\ ~isDisconnected(client)
  /\ client' = disconnectCall(client)
  /\ Count("disconnect")
  /\ UNCHANGED <<server, limits>>

\* Whether a listener of /meta/connect calls disconnect() in the turn that ends w.
Quit(w, quit) ==
  quit => /\ calls.disconnect < limits.disconnect
          /\ w.metaConnect
          /\ ~mismatch(client, w)
          /\ ~isDisconnected(client)

\* The timer of _scheduledSend.
Timer ==
  /\ client.scheduled # ""
  /\ LET fired == [client EXCEPT !.scheduled = ""]
     IN client' = IF client.scheduled = "connect" THEN connect(fired) ELSE handshake(fired)
  /\ UNCHANGED <<server, calls, limits>>

\* The failure of an envelope behind one that failed, or of one with a message that
\* is too long.
Deferred ==
  /\ client.deferred # <<>>
  /\ LET next == Head(client.deferred)
         rest == [client EXCEPT !.deferred = Tail(@)]
     IN client' = handleFailure(completeRequest(rest, next.type, next.id, FALSE),
                                next.messages, FALSE)
  /\ UNCHANGED <<server, calls, limits>>

\* A response arrives: transportSuccess.
Respond(w, quit) ==
  /\ w.served /\ ~w.expired
  /\ Quit(w, quit)
  /\ client' = IF mismatch(client, w) THEN complete(client, w, TRUE)
               ELSE handleMessages(complete(client, w, TRUE), w.replies, quit)
  /\ calls' = [calls EXCEPT !.disconnect = IF quit THEN @ + 1 ELSE @]
  /\ UNCHANGED <<server, limits>>

\* The messages of a request fail, after its transport has completed it.
Failed(ended, w, quit) ==
  /\ client' = IF mismatch(client, w) THEN ended ELSE handleFailure(ended, w.messages, quit)
  /\ calls' = [calls EXCEPT !.failure = @ + 1, !.disconnect = IF quit THEN @ + 1 ELSE @]
  /\ UNCHANGED <<server, limits>>

\* The request or its response is lost: transportFailure.
Fail(w, quit) ==
  /\ calls.failure < limits.failure
  /\ ~w.expired
  /\ Quit(w, quit)
  /\ Failed(complete(crossDomainFails(client, w), w, FALSE), w, quit)

\* No response in time: the request expires. An XHR is aborted, which is an error for
\* its transport; a script stays under way.
Expire(w, quit) ==
  /\ calls.failure < limits.failure
  /\ ~w.expired
  /\ Quit(w, quit)
  /\ LET left == IF w.xhr THEN crossDomainFails(client, w)
                 ELSE [client EXCEPT !.wire = (@ \ {w}) \cup {[w EXCEPT !.expired = TRUE]}]
     IN Failed(complete(left, w, FALSE), w, quit)

\* The end of a request that has expired is of no consequence.
Late(w) ==
  /\ w.expired
  /\ client' = [client EXCEPT !.wire = @ \ {w}]
  /\ UNCHANGED <<server, calls, limits>>

-----------------------------------------------------------------------------
\* The server (external): it answers each message of a request in turn, one of
\* a client it does not know with the advice to handshake. A publish is late when its
\* request has expired, or when it has lost its place.

\* A new session's id; a session nothing refers to any more is forgotten.
Referred == {client.clientId} \cup
            UNION {{w.messages[i].clientId : i \in DOMAIN w.messages} \cup
                   {w.replies[i].clientId : i \in DOMAIN w.replies} : w \in client.wire}
NewSession == Min((1 .. Cardinality(Referred) + 1) \ Referred)

Accept(srv, message, late) ==
  CASE message.channel = "disconnect" -> Restrict(srv, DOMAIN srv \ {message.clientId})
    [] message.channel = "publish" ->
         [srv EXCEPT ![message.clientId] =
            Append(@, [n |-> message.n, late |-> late \/ message.displaced])]
    [] OTHER -> srv

\* The server after a message, with the replies so far.
Answer(done, message, advice, late) ==
  LET srv == done.srv
  IN IF message.channel = "handshake"
     THEN [srv |-> [session \in (DOMAIN srv \cap Referred) \cup {NewSession} |->
                      IF session = NewSession THEN <<>> ELSE srv[session]],
           replies |-> Append(done.replies, Reply(message, TRUE, advice, NewSession))]
     ELSE IF message.clientId \in DOMAIN srv
     THEN [srv |-> Accept(srv, message, late),
           replies |-> Append(done.replies,
             Reply(message, TRUE, IF message.channel = "connect" THEN advice ELSE "", 0))]
     ELSE [srv |-> srv, replies |-> Append(done.replies, Reply(message, FALSE, "handshake", 0))]

answers(srv, messages, advice, late) ==
  FoldLeft(LAMBDA done, message : Answer(done, message, advice, late),
           [srv |-> srv, replies |-> <<>>], messages)

Serve(w, advice) ==
  /\ ~w.served
  /\ limits.adviceAlways => advice = "retry"
  /\ LET done == answers(server, w.messages, advice, w.expired)
     IN /\ server' = done.srv
        /\ client' = [client EXCEPT !.wire =
                        (@ \ {w}) \cup {[w EXCEPT !.served = TRUE, !.replies = done.replies]}]
  /\ UNCHANGED <<calls, limits>>

Restart ==
  /\ calls.restart < limits.restart
  /\ server' = [session \in {} |-> <<>>]
  /\ Count("restart")
  /\ UNCHANGED <<client, limits>>

Next ==
  \/ Handshake \/ Publish \/ Subscribe \/ Disconnect
  \/ Timer \/ Deferred
  \/ \E w \in client.wire, quit \in BOOLEAN :
       Respond(w, quit) \/ Fail(w, quit) \/ Expire(w, quit)
  \/ \E w \in client.wire : Late(w)
  \/ \E w \in client.wire, advice \in {"", "retry"} : Serve(w, advice)
  \/ Restart

Fairness ==
  /\ WF_vars(Handshake) /\ WF_vars(Timer) /\ WF_vars(Deferred)
  /\ WF_vars(\E w \in client.wire : w.metaConnect /\ Respond(w, FALSE))
  /\ WF_vars(\E w \in client.wire : ~w.metaConnect /\ Respond(w, FALSE))
  /\ WF_vars(\E w \in client.wire, advice \in {"", "retry"} :
               w.metaConnect /\ Serve(w, advice))
  /\ WF_vars(\E w \in client.wire, advice \in {"", "retry"} :
               ~w.metaConnect /\ Serve(w, advice))

Spec == Init /\ [][Next]_vars /\ Fairness

-----------------------------------------------------------------------------
\* The publishes of one session are accepted in the order of the calls: they go one
\* request after the other (_queueSend of the transport, cometd.js:403), or in the
\* batch that waited for the handshake and its pieces. One that comes late is accepted
\* behind later ones in three ways only: its request expired, but could not be aborted;
\* it waited when another request failed, and one called later went before it failed
\* too; or a response to the session before had it shifted from the head of the
\* envelopes that wait to their end (_complete, cometd.js:438).
AcceptedInOrder ==
  \A session \in DOMAIN server : \A i, j \in DOMAIN server[session] :
    i < j => server[session][i].n < server[session][j].n \/ server[session][j].late

\* The client as the link of BayeuxLink.
Link == INSTANCE BayeuxLink WITH
  closed <- isDisconnected(client), session <- client.clientId # 0, connected <- client.connected, subs <- client.subs

\* A subscription is lost only with its session, a session only to a handshake, and
\* no long poll ends but one of the session the client has.
ImplementsLink == Link!LinkSpec

\* Unless the page disconnects, the client always comes back to a session whose
\* long polls are answered, whatever was lost and however often the server
\* forgot it (_failConnect, _failHandshake, the retries of _delayedSend): with a
\* server whose successful replies always carry an advice, as the Java one's do.
ComesBack ==
  limits.adviceAlways /\ calls.disconnect = 0
    ~> calls.disconnect > 0 \/ (client.status = "connected" /\ client.connected)

\* disconnect() takes effect, also when its message fails, when the server does
\* not know the client, or when a handshake that was scheduled goes first.
DisconnectTakesEffect ==
  client.status = "disconnecting" ~> client.status = "disconnected"
=============================================================================
