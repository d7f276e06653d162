--------------------------------- MODULE Ajax ---------------------------------
(***************************************************************************)
(* jQuery.ajax of jquery-1.7.1.js as jquery-cometd.js calls it: an XHR for *)
(* the long-polling transport, a script (JSON-P) for callback-polling when *)
(* the server has another origin. A request ends in done, which may be     *)
(* called by the transport, by abort, by the timeout, and by a transport   *)
(* that answers after one of these.                                        *)
(*                                                                         *)
(* A handler that aborts a request, its own or another, has the effect of  *)
(* Abort: done has set the state of its own request before it calls it.    *)
(* A 200 is a success only when its response can be converted to what its  *)
(* content type says. Left out: headers, URLs, and synchronous requests;   *)
(* an XHR that has its answer when it is sent is OnReadyState in the turn   *)
(* of its Send.                                                            *)
(***************************************************************************)
EXTENDS Naturals, Sequences, FiniteSets

CONSTANTS
  Xhrs,      \* requests by XHR
  Scripts    \* requests by a script of another origin

ASSUME KindsAssumption == IsFiniteSet(Xhrs) /\ IsFiniteSet(Scripts) /\ Xhrs \cap Scripts = {}

Requests == Xhrs \cup Scripts

VARIABLES
  jqXHR,     \* per request: state (0, 1, 2 of the code), whether its timer, its
             \*   transport and the transport's callback are set, the response it
             \*   received, what its handlers were told and the type of the data
             \*   that a success gave them
  browser,   \* per request: what the browser does about it (external)
  container, \* the JSON-P requests whose script has called back
  active     \* jQuery.active

vars == <<jqXHR, browser, container, active>>

\* The response to an XHR (external): its content type, "unknown" if it is none that
\* jQuery knows, and whether its body is of that type. An error page has any type.
Responses ==
  [status : {200}, contentType : {"json", "html", "xml", "unknown"}, wellFormed : BOOLEAN]
    \cup [status : {304, 500}, contentType : {"unknown"}, wellFormed : {TRUE}]

Nothing == [status |-> 0, contentType |-> "unknown", wellFormed |-> FALSE]

Init ==
  /\ jqXHR = [r \in Requests |-> [state |-> 0, timer |-> FALSE, transport |-> FALSE,
                                  callback |-> FALSE, handlers |-> FALSE, told |-> <<>>,
                                  received |-> Nothing, data |-> "none"]]
  /\ browser = [r \in Requests |-> "idle"]
  /\ container = {}
  /\ active = 0

\* The prefilter of scripts takes a request of another origin off the global events.
FireGlobals(r) == r \in Xhrs

-----------------------------------------------------------------------------
\* The type of the data.

\* ajaxSettings.converters, from type to type.
Converters == {<<"text", "html">>, <<"text", "json">>, <<"text", "xml">>, <<"script", "json">>}

\* The dataTypes that a request expects. The prefilter of JSON-P has a script call back
\* with the data.
dataTypes(r) == IF r \in Scripts THEN <<"script", "json">> ELSE <<"*">>

\* The types of what an XHR has received, responseXML before responseText.
responseTypes(response) ==
  IF response.contentType = "xml" /\ response.wellFormed THEN <<"xml", "text">> ELSE <<"text">>

\* finalDataType: of the types there, the expected one, else the first that can be
\* converted to it, else the first.
finalDataType(types, there) ==
  LET direct == {i \in DOMAIN there : types # <<>> /\ there[i] = Head(types)}
      convertible ==
        {i \in DOMAIN there : types = <<>> \/ <<there[i], Head(types)>> \in Converters}
      from == IF direct # {} THEN direct ELSE IF convertible # {} THEN convertible
              ELSE DOMAIN there
  IN there[CHOOSE i \in from : \A j \in from : i <= j]

\* ajaxHandleResponses: the types to convert between, from that of a response to the
\* expected one, which for "*" is the content type.
ajaxHandleResponses(expected, response) ==
  LET content == IF response.contentType = "unknown" THEN <<>> ELSE <<response.contentType>>
      types == IF Head(expected) = "*" THEN content \o Tail(expected) ELSE expected
      final == finalDataType(types, responseTypes(response))
  IN IF types # <<>> /\ final = Head(types) THEN types ELSE <<final>> \o types

\* ajaxConvert: the type of the data, or "parsererror" when a conversion throws. That of
\* text to html is none and cannot; a chain of two that the converters allow is not
\* needed.
ajaxConvert(types, wellFormed) ==
  LET steps == {<<types[i - 1], types[i]>> : i \in 2 .. Len(types)}
  IN IF steps \subseteq Converters /\ (wellFormed \/ steps \subseteq {<<"text", "html">>})
     THEN types[Len(types)] ELSE "parsererror"

-----------------------------------------------------------------------------
\* The ends of a request.

Told(q, how) == IF q.handlers THEN q.told \o <<how, "complete">> ELSE q.told

\* Mutant of done: it is not called once only.
DoneAgain(q, status, data, response) ==
  LET isSuccess == status \in {200, 304} /\ data # "parsererror"
  IN [q EXCEPT !.state = 2, !.timer = FALSE, !.transport = FALSE,
               !.received = response, !.data = IF isSuccess THEN data ELSE "none",
               !.told = Told(q, IF isSuccess THEN "success" ELSE "error")]

\* done, for the record q of a request: data is what ajaxConvert returned; a response of
\* 304 has none.
done(q, status, data, response) ==
  LET isSuccess == status \in {200, 304} /\ data # "parsererror"
  IN IF q.state = 2 THEN q
     ELSE [q EXCEPT !.state = 2, !.timer = FALSE, !.transport = FALSE,
                    !.received = response, !.data = IF isSuccess THEN data ELSE "none",
                    !.told = Told(q, IF isSuccess THEN "success" ELSE "error")]

\* done with a status that is none: an abort, a timeout, an exception.
doneWithout(q) == done(q, 0, "none", Nothing)

\* --jQuery.active, where done goes through.
Ended(r) == active' = IF jqXHR[r].state # 2 /\ FireGlobals(r) THEN active - 1 ELSE active

\* abort of the transport: the XHR is aborted and its callback not called, the script
\* taken from the page.
abortTransport(q) == IF q.transport THEN [q EXCEPT !.callback = FALSE] ELSE q

Aborts(r) ==
  /\ jqXHR' = [jqXHR EXCEPT ![r] = doneWithout(abortTransport(@))]
  /\ browser' = [browser EXCEPT ![r] = IF @ = "sent" /\ jqXHR[r].transport /\ r \in Xhrs
                                       THEN "over" ELSE @]
  /\ Ended(r)
  /\ UNCHANGED container

-----------------------------------------------------------------------------
\* ajax, up to the send of its transport: the handlers are installed and the timeout set.
ajax(q, timeout) ==
  [q EXCEPT !.state = 1, !.timer = timeout, !.transport = TRUE, !.handlers = TRUE]

\* The transport sends the XHR. An exception ends the request; the transport has no
\* callback yet.
SendXhr(r, timeout, throws) ==
  /\ r \in Xhrs
  /\ jqXHR[r].state = 0
  /\ IF throws
     THEN /\ jqXHR' = [jqXHR EXCEPT ![r] = doneWithout(ajax(@, timeout))]
          /\ UNCHANGED <<browser, active>>
     ELSE /\ jqXHR' = [jqXHR EXCEPT ![r] = [ajax(@, timeout) EXCEPT !.callback = TRUE]]
          /\ browser' = [browser EXCEPT ![r] = "sent"]
          /\ active' = IF FireGlobals(r) THEN active + 1 ELSE active
  /\ UNCHANGED container

\* The transport puts the script into the page.
SendScript(r, timeout) ==
  /\ r \in Scripts
  /\ jqXHR[r].state = 0
  /\ jqXHR' = [jqXHR EXCEPT ![r] = [ajax(@, timeout) EXCEPT !.callback = TRUE]]
  /\ browser' = [browser EXCEPT ![r] = "sent"]
  /\ active' = IF FireGlobals(r) THEN active + 1 ELSE active
  /\ UNCHANGED container

\* ajax, when beforeSend says no: nobody is told, and active is as before.
Veto(r) ==
  /\ jqXHR[r].state = 0
  /\ jqXHR' = [jqXHR EXCEPT ![r] = doneWithout(@)]
  /\ UNCHANGED <<browser, container, active>>

\* jqXHR.abort, as cometd.js calls it, at any time.
Abort(r) ==
  /\ jqXHR[r].state # 0
  /\ Aborts(r)

\* The timeout of the request.
Timeout(r) ==
  /\ jqXHR[r].timer
  /\ Aborts(r)

\* The XHR has readyState 4, with a response or, where the network failed, none.
OnReadyState(r, response) ==
  /\ r \in Xhrs
  /\ browser[r] = "sent"
  /\ browser' = [browser EXCEPT ![r] = "over"]
  /\ IF jqXHR[r].callback
     THEN /\ LET types == ajaxHandleResponses(dataTypes(r), response)
                 data == IF response.status = 200
                         THEN ajaxConvert(types, response.wellFormed) ELSE "none"
             IN jqXHR' = [jqXHR EXCEPT ![r] =
                            done([@ EXCEPT !.callback = FALSE], response.status, data, response)]
          /\ Ended(r)
     ELSE UNCHANGED <<jqXHR, active>>
  /\ UNCHANGED container

\* The script arrives and runs. It calls the function that the prefilter made for
\* it, which done has taken back (always of the prefilter).
ScriptRuns(r, calls) ==
  /\ r \in Scripts
  /\ browser[r] = "sent"
  /\ browser' = [browser EXCEPT ![r] = "ran"]
  /\ container' = IF calls /\ jqXHR[r].state # 2 THEN container \cup {r} ELSE container
  /\ UNCHANGED <<jqXHR, active>>

\* Its onload: a script that has not called back is a parsererror (ajaxConvert).
ScriptLoaded(r) ==
  /\ browser[r] = "ran"
  /\ browser' = [browser EXCEPT ![r] = "over"]
  /\ IF jqXHR[r].callback
     THEN /\ jqXHR' = [jqXHR EXCEPT ![r] =
                         done([@ EXCEPT !.callback = FALSE], 200,
                              ajaxConvert(dataTypes(r), r \in container), Nothing)]
          /\ Ended(r)
     ELSE UNCHANGED <<jqXHR, active>>
  /\ UNCHANGED container

\* A script that does not load says nothing.
ScriptLost(r) ==
  /\ r \in Scripts
  /\ browser[r] = "sent"
  /\ browser' = [browser EXCEPT ![r] = "over"]
  /\ UNCHANGED <<jqXHR, container, active>>

Next ==
  \E r \in Requests :
    \/ (\E timeout, throws \in BOOLEAN : SendXhr(r, timeout, throws))
    \/ (\E timeout \in BOOLEAN : SendScript(r, timeout)) \/ Veto(r)
    \/ Abort(r) \/ Timeout(r)
    \/ (\E response \in Responses \cup {Nothing} : OnReadyState(r, response))
    \/ (\E calls \in BOOLEAN : ScriptRuns(r, calls)) \/ ScriptLoaded(r) \/ ScriptLost(r)

Spec == Init /\ [][Next]_vars

-----------------------------------------------------------------------------
\* Whatever ends a request, and however often, its handlers are told once, success
\* or error and then complete (done, "Called once"). A success has the data that the
\* response claims to be, never a body that is not what its type says or a script that
\* did not call back. jQuery.active counts the requests under way, so that ajaxStart and
\* ajaxStop are triggered in pairs.
EndsOnce ==
  /\ \A r \in Requests :
       jqXHR[r].told \in IF jqXHR[r].state = 2 /\ jqXHR[r].handlers
                         THEN {<<"success", "complete">>, <<"error", "complete">>} ELSE {<<>>}
  /\ \A r \in Requests :
       LET q == jqXHR[r]
       IN CASE q.data \in {"json", "xml"} ->
                 IF r \in Scripts THEN r \in container
                 ELSE q.received.contentType = q.data /\ q.received.wellFormed
            [] q.data = "html" -> q.received.contentType = "html"
            [] q.data = "text" -> q.received.contentType = "unknown"
            [] OTHER -> "success" \in {q.told[i] : i \in DOMAIN q.told} => q.received.status = 304
  /\ active = Cardinality({r \in Xhrs : jqXHR[r].state = 1})
=============================================================================
