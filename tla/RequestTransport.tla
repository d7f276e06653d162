--------------------------- MODULE RequestTransport ---------------------------
(***************************************************************************)
(* The transports of js/cometd/cometd.js that send a request for every     *)
(* envelope (RequestTransport, LongPollingTransport and                    *)
(* CallbackPollingTransport). One request is kept for the long poll        *)
(* (metaConnect); the others go one after the other, the envelopes that    *)
(* wait in _envelopes. The operators map a record s of the client that     *)
(* holds the transports to the record after the call:                      *)
(*   transports  per type, what the transport believes: its _requests,     *)
(*               _metaConnectRequest (0: none) and _envelopes              *)
(*   crossOk     _supportsCrossDomain of the long-polling transport        *)
(*   wire        the requests the browser has under way, whether their     *)
(*               transport still remembers them or not                     *)
(*   deferred    the failures that wait in setTimeout(.., 0)               *)
(* A request id is the smallest one not in use. A message has a length, of *)
(* which a URL takes _maxLength: a callback-polling envelope that is       *)
(* longer goes in pieces, one request behind the other. It is displaced    *)
(* once it has lost its place among those that wait (history). Left out:   *)
(* synchronous requests and autoBatch, which the page does not use.        *)
(***************************************************************************)
EXTENDS Naturals, Sequences, SequencesExt

CONSTANTS
  MaxConnections,   \* _config.maxConnections
  CrossDomain,      \* whether the server has another host or port than the page
  MaxLength         \* _maxLength, counted in messages of the usual length

ASSUME MaxConnectionsAssumption == MaxConnections \in Nat /\ MaxConnections >= 2
ASSUME CrossDomainAssumption == CrossDomain \in BOOLEAN
ASSUME MaxLengthAssumption == MaxLength \in Nat \ {0}

\* handler(s), where TLC evaluates s once and not at each place that the handler names it.
After(s, handler(_)) == CHOOSE done \in {handler(t) : t \in {s}} : TRUE

-----------------------------------------------------------------------------
\* The registry.

\* add and remove of the registry.
add(types, type) == IF type \in Range(types) THEN types ELSE Append(types, type)
remove(types, type) == RemoveFirst(types, type)

\* jquery-cometd.js adds them in this order; CometdAdapter removes the first.
Registered ==
  remove(add(add(add(<<>>, "websocket"), "long-polling"), "callback-polling"), "websocket")

Types == Range(Registered)

Unused == [requests |-> {}, metaConnect |-> 0, envelopes |-> <<>>]

\* accept of each: long-polling gives up cross domain requests at its first failure.
accept(s, type) == type = "long-polling" => s.crossOk \/ ~CrossDomain

findTransportTypes(s) == {type \in Types : accept(s, type)}

\* The first that is accepted; the server supports both.
negotiateTransport(s) ==
  Registered[SelectInSeq(Registered, LAMBDA type : type \in findTransportTypes(s))]

-----------------------------------------------------------------------------
\* Sending.

UsedIds(s, type) ==
  {w.id : w \in {v \in s.wire : v.type = type}}
    \cup {s.transports[type].envelopes[i].id : i \in DOMAIN s.transports[type].envelopes}
    \cup {s.deferred[i].id : i \in DOMAIN s.deferred}

nextId(s, type) ==
  LET used == UsedIds(s, type) IN Min((1 .. Cardinality(used) + 1) \ used)

\* A request on the wire: whether the transport can abort it, whether it expired, what
\* the server made of it.
Request(type, id, metaConnect, messages, xhr) ==
  [type |-> type, id |-> id, metaConnect |-> metaConnect, messages |-> messages, xhr |-> xhr,
   expired |-> FALSE, served |-> FALSE, replies |-> <<>>]

\* xhrSend and jsonpSend of jquery-cometd.js: only the first returns what can be aborted.
xhrSend(s, id, metaConnect, messages) ==
  [s EXCEPT !.wire = @ \cup {Request("long-polling", id, metaConnect, messages, TRUE)}]
jsonpSend(s, id, metaConnect, messages) ==
  [s EXCEPT !.wire = @ \cup {Request("callback-polling", id, metaConnect, messages, FALSE)}]

\* The transport counts a request, or counts it no more.
remember(s, type, id) == [s EXCEPT !.transports[type].requests = @ \cup {id}]
forget(s, type, id) == [s EXCEPT !.transports[type].requests = @ \ {id}]

\* An envelope waits behind the others.
wait(s, type, id, messages) ==
  [s EXCEPT !.transports[type].envelopes = Append(@, [id |-> id, messages |-> messages])]

\* An envelope fails after this call.
failLater(s, type, id, messages) ==
  [s EXCEPT !.deferred = Append(@, [type |-> type, id |-> id, messages |-> messages])]

\* Whether a request may go now: one is kept for the long poll.
hasRoom(s, type) == Cardinality(s.transports[type].requests) < MaxConnections - 1

fits(messages) ==
  LET length[i \in 0 .. Len(messages)] == IF i = 0 THEN 0 ELSE length[i - 1] + messages[i].length
  IN length[Len(messages)] <= MaxLength

\* The pieces of an envelope, each as long as a URL allows.
addPiece(done, m) ==
  IF done # <<>> /\ fits(Append(Last(done), m))
  THEN [done EXCEPT ![Len(done)] = Append(@, m)] ELSE Append(done, <<m>>)

pieces(messages) == FoldLeft(addPiece, <<>>, messages)

\* _queueSend of a piece but the first: it goes if there is room, or waits behind the
\* envelopes that do.
sendPiece(s, piece) ==
  LET id == nextId(s, "callback-polling")
  IN IF hasRoom(s, "callback-polling")
     THEN jsonpSend(remember(s, "callback-polling", id), id, FALSE, piece)
     ELSE wait(s, "callback-polling", id, piece)

sendPieces(s, cut) ==
  FoldLeft(LAMBDA done, piece : After(done, LAMBDA t : sendPiece(t, piece)), s, cut)

\* transportSend of callback-polling. When one message alone is too long, nothing goes,
\* and the whole envelope fails after this call.
callbackSend(s, id, metaConnect, messages) ==
  LET cut == pieces(messages)
  IN IF fits(messages) THEN jsonpSend(s, id, metaConnect, messages)
     ELSE IF \E i \in DOMAIN cut : ~fits(cut[i])
     THEN failLater(s, "callback-polling", id, messages)
     ELSE sendPieces(jsonpSend(s, id, metaConnect, cut[1]), Tail(cut))

transportSend(s, type, id, metaConnect, messages) ==
  IF type = "long-polling" THEN xhrSend(s, id, metaConnect, messages)
  ELSE callbackSend(s, id, metaConnect, messages)

\* Mutant of queueSend: the request of the long poll is not kept free.
QueueSendUnreserved(s, type, messages) ==
  LET id == nextId(s, type)
  IN IF Cardinality(s.transports[type].requests) < MaxConnections
     THEN transportSend(remember(s, type, id), type, id, FALSE, messages)
     ELSE wait(s, type, id, messages)

\* _queueSend: send the envelope, or have it wait for the one under way.
queueSend(s, type, messages) ==
  LET id == nextId(s, type)
  IN IF hasRoom(s, type)
     THEN transportSend(remember(s, type, id), type, id, FALSE, messages)
     ELSE wait(s, type, id, messages)

\* _metaConnectSend throws when a long poll is under way.
metaConnectAllowed(s, type) == s.transports[type].metaConnect = 0

metaConnectSend(s, type, messages) ==
  LET id == nextId(s, type)
  IN transportSend([s EXCEPT !.transports[type].metaConnect = id], type, id, TRUE, messages)

\* _metaConnectComplete throws for another long poll than the one under way.
mismatch(s, w) == w.metaConnect /\ s.transports[w.type].metaConnect \notin {0, w.id}

\* History: messages that lost their place, because they waited when a request of their
\* transport failed, or went from the head of those that wait to the end.
Displaced(messages) == [i \in DOMAIN messages |-> [messages[i] EXCEPT !.displaced = TRUE]]
AllDisplaced(envelopes) ==
  [i \in DOMAIN envelopes |-> [envelopes[i] EXCEPT !.messages = Displaced(@)]]

\* _complete of a request that is not a long poll, whatever its transport still knows
\* of it. The first envelope that waits is sent as a new request, behind the others if
\* there is no room, or fails after this call, and the others wait on.
completeRequest(s, type, id, success) ==
  LET done == forget(s, type, id)
      waiting == done.transports[type].envelopes
      next == Head(waiting)
      shifted == [done EXCEPT !.transports[type].envelopes = Tail(@)]
  IN IF waiting = <<>> THEN done
     ELSE IF success
     THEN After(shifted, LAMBDA t : queueSend(t, type, IF hasRoom(t, type) THEN next.messages
                                                       ELSE Displaced(next.messages)))
     ELSE [failLater(shifted, type, next.id, next.messages)
             EXCEPT !.transports[type].envelopes = AllDisplaced(@)]

\* Mutant of complete: a long poll that failed is kept.
CompleteKeepingPoll(s, w, success) ==
  LET answered == [s EXCEPT !.wire = @ \ {w}]
  IN IF w.metaConnect
     THEN IF mismatch(s, w) \/ ~success THEN answered
          ELSE [answered EXCEPT !.transports[w.type].metaConnect = 0]
     ELSE completeRequest(answered, w.type, w.id, success)

complete(s, w, success) ==
  LET answered == [s EXCEPT !.wire = @ \ {w}]
  IN IF w.metaConnect
     THEN IF mismatch(s, w) THEN answered
          ELSE [answered EXCEPT !.transports[w.type].metaConnect = 0]
     ELSE completeRequest(answered, w.type, w.id, success)

\* onError: a long-polling request that fails gives up cross domain requests.
crossDomainFails(s, w) ==
  IF w.type = "long-polling" THEN [s EXCEPT !.crossOk = FALSE] ELSE s

\* reset of a transport: everything is forgotten, nothing is aborted.
resetTransport(s, type) ==
  [s EXCEPT !.transports[type] = Unused,
            !.crossOk = IF type = "long-polling" THEN TRUE ELSE @]

\* TransportRegistry.reset
reset(s) == [s EXCEPT !.transports = [type \in Types |-> Unused], !.crossOk = TRUE]

\* What abort of a transport aborts: the requests it knows that can be aborted.
aborted(s, type) ==
  {w \in s.wire : /\ w.type = type /\ w.xhr
                  /\ IF w.metaConnect THEN w.id = s.transports[type].metaConnect
                     ELSE w.id \in s.transports[type].requests}
=============================================================================
