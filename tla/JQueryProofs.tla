----------------------------- MODULE JQueryProofs -----------------------------
(***************************************************************************)
(* Proofs about what the page uses of jQuery.                              *)
(*                                                                         *)
(* Ajax, for any requests by XHR and by script: however a request ends,    *)
(* and however often, its handlers are told once, a success has the data   *)
(* that the response claims to be, and jQuery.active counts the requests   *)
(* that are under way.                                                     *)
(*                                                                         *)
(* Deferred, for any handlers and watchers and any number of notices:      *)
(* however the calls of its lists nest, every step is one of a promise, or *)
(* none that a promise shows.                                              *)
(***************************************************************************)
EXTENDS Ajax, Deferred, FiniteSetTheorems, SequenceTheorems, TLAPS

-----------------------------------------------------------------------------
(* Short tuples.                                                           *)

LEMMA Singles ==
  ASSUME NEW x
  PROVE  <<x>> \o << >> = <<x>> /\ Head(<<x>>) = x
OBVIOUS

LEMMA NoElements == << >> \o << >> = << >>
<1>1. << >> \in Seq({})
  OBVIOUS
<1> QED BY <1>1, ConcatEmptySeq

LEMMA Pairs ==
  ASSUME NEW x, NEW y
  PROVE  <<x>> \o <<y>> = <<x, y>>
<1>1. <<x>> \in Seq({x, y}) /\ <<y>> \in Seq({x, y}) /\ <<x, y>> \in Seq({x, y})
  OBVIOUS
<1>2. Len(<<x>>) = 1 /\ Len(<<y>>) = 1 /\ Len(<<x, y>>) = 2
  OBVIOUS
<1>3. PICK s : s = <<x>> \o <<y>>
  OBVIOUS
<1>4. /\ s \in Seq({x, y}) /\ Len(s) = 2
      /\ \A i \in 1 .. 2 : s[i] = IF i <= 1 THEN <<x>>[i] ELSE <<y>>[i - 1]
  BY <1>1, <1>2, <1>3, ConcatProperties
<1>5. \A i \in 1 .. 2 : s[i] = <<x, y>>[i]
  <2>1. s[1] = x /\ s[2] = y
    BY <1>4
  <2> QED BY <2>1
<1>6. s = <<x, y>>
  BY <1>1, <1>2, <1>4, <1>5, SeqEqual
<1> QED BY <1>3, <1>6

LEMMA Steps ==
  ASSUME NEW x, NEW y, NEW s, s = <<x, y>>
  PROVE  {<<s[i - 1], s[i]>> : i \in 2 .. Len(s)} = {<<x, y>>} /\ s[Len(s)] = y
OBVIOUS

LEMMA NoSteps ==
  ASSUME NEW x, NEW s, s = <<x>>
  PROVE  {<<s[i - 1], s[i]>> : i \in 2 .. Len(s)} = {} /\ s[Len(s)] = x
OBVIOUS

(* The data of a response.  ajaxHandleResponses and ajaxConvert lead to the*)
(* content type or fail; to text where there is none.                      *)

LEMMA FinalText ==
  ASSUME NEW types, NEW there, there = <<"text">>
  PROVE  finalDataType(types, there) = "text"
<1> DEFINE direct == {i \in DOMAIN there : types # << >> /\ there[i] = Head(types)}
           convertible == {i \in DOMAIN there :
             types = << >> \/ <<there[i], Head(types)>> \in Converters}
           from == IF direct # {} THEN direct
                   ELSE IF convertible # {} THEN convertible ELSE DOMAIN there
<1>1. DOMAIN there = {1} /\ there[1] = "text"
  OBVIOUS
<1>2. direct \subseteq {1} /\ convertible \subseteq {1}
  BY <1>1
<1> HIDE DEF direct, convertible
<1>3. from = {1}
  BY <1>1, <1>2
<1> HIDE DEF from
<1>4. (CHOOSE i \in from : \A j \in from : i <= j) = 1
  BY <1>3
<1>5. there[CHOOSE i \in from : \A j \in from : i <= j] = "text"
  BY <1>1, <1>4
<1> QED BY <1>5 DEF finalDataType, from, direct, convertible

LEMMA FinalXml ==
  ASSUME NEW types, types = <<"xml">>, NEW there, there = <<"xml", "text">>
  PROVE  finalDataType(types, there) = "xml"
<1> DEFINE direct == {i \in DOMAIN there : types # << >> /\ there[i] = Head(types)}
           convertible == {i \in DOMAIN there :
             types = << >> \/ <<there[i], Head(types)>> \in Converters}
           from == IF direct # {} THEN direct
                   ELSE IF convertible # {} THEN convertible ELSE DOMAIN there
<1>1. /\ DOMAIN there = {1, 2} /\ there[1] = "xml" /\ there[2] = "text"
      /\ types # << >> /\ Head(types) = "xml"
  OBVIOUS
<1>2. direct = {1}
  BY <1>1
<1> HIDE DEF direct, convertible
<1>3. from = {1}
  BY <1>2
<1> HIDE DEF from
<1>4. (CHOOSE i \in from : \A j \in from : i <= j) = 1
  BY <1>3
<1>5. there[CHOOSE i \in from : \A j \in from : i <= j] = "xml"
  BY <1>1, <1>4
<1> QED BY <1>5 DEF finalDataType, from, direct, convertible

LEMMA Types ==
  ASSUME NEW response \in Responses
  PROVE  ajaxHandleResponses(<<"*">>, response) =
           IF response.contentType = "unknown" THEN <<"text">>
           ELSE IF response.contentType = "xml" /\ response.wellFormed
           THEN <<"xml">> ELSE <<"text", response.contentType>>
<1>1. PICK type, there : type = response.contentType
                         /\ there = responseTypes(response)
  OBVIOUS
<1>2. /\ type \in {"json", "html", "xml", "unknown"}
      /\ there = IF type = "xml" /\ response.wellFormed
                 THEN <<"xml", "text">> ELSE <<"text">>
  BY <1>1 DEF Responses, responseTypes
<1>3. PICK content : content = IF type = "unknown" THEN << >> ELSE <<type>>
  OBVIOUS
<1>4. PICK final : final = finalDataType(content, there)
  OBVIOUS
<1>5. ajaxHandleResponses(<<"*">>, response) =
        IF content # << >> /\ final = Head(content) THEN content
        ELSE <<final>> \o content
  <2>1. Head(<<"*">>) = "*" /\ Tail(<<"*">>) = << >>
    OBVIOUS
  <2>2. content \o << >> = content
    BY <1>3, Singles, NoElements
  <2> QED BY <1>1, <1>3, <1>4, <2>1, <2>2 DEF ajaxHandleResponses
<1>6. CASE type = "unknown"
  <2>1. content = << >> /\ <<"text">> \o << >> = <<"text">>
    BY <1>3, <1>6, Singles
  <2>2. final = "text"
    BY <1>2, <1>4, <1>6, FinalText
  <2> QED BY <1>1, <1>5, <1>6, <2>1, <2>2
<1>7. CASE type = "xml" /\ response.wellFormed
  <2>1. content = <<"xml">> /\ Head(content) = "xml" /\ content # << >>
    BY <1>3, <1>7
  <2>2. final = "xml"
    BY <1>2, <1>4, <1>7, <2>1, FinalXml
  <2> QED BY <1>1, <1>5, <1>7, <2>1, <2>2
<1>8. CASE type # "unknown" /\ ~ (type = "xml" /\ response.wellFormed)
  <2>1. content = <<type>>
    BY <1>3, <1>8
  <2>2. Head(content) = type /\ type # "text"
    BY <1>2, <2>1, Singles
  <2>3. final = "text"
    BY <1>2, <1>4, <1>8, FinalText
  <2>4. <<"text">> \o content = <<"text", type>>
    BY <2>1, Pairs
  <2> QED BY <1>1, <1>5, <1>8, <2>2, <2>3, <2>4
<1> QED BY <1>6, <1>7, <1>8

LEMMA Converted ==
  ASSUME NEW response \in Responses,
         NEW data,
         data = ajaxConvert(ajaxHandleResponses(<<"*">>, response),
                            response.wellFormed)
  PROVE  /\ data \in {"parsererror", "json", "xml", "html", "text"}
         /\ data \in {"json", "xml"} =>
              response.contentType = data /\ response.wellFormed
         /\ data = "html" => response.contentType = "html"
         /\ data = "text" => response.contentType = "unknown"
<1>1. PICK type : type = response.contentType
  OBVIOUS
<1>2. type \in {"json", "html", "xml", "unknown"}
  BY <1>1 DEF Responses
<1>3. PICK types : types = ajaxHandleResponses(<<"*">>, response)
  OBVIOUS
<1>4. CASE type = "unknown"
  <2>1. types = <<"text">>
    BY <1>1, <1>3, <1>4, Types
  <2>2. data \in {"parsererror", "text"}
    BY <1>3, <2>1, NoSteps DEF ajaxConvert
  <2> QED BY <1>1, <1>4, <2>2
<1>5. CASE type = "xml" /\ response.wellFormed
  <2>1. types = <<"xml">>
    BY <1>1, <1>3, <1>5, Types
  <2>2. data \in {"parsererror", "xml"}
    BY <1>3, <2>1, NoSteps DEF ajaxConvert
  <2> QED BY <1>1, <1>5, <2>2
<1>6. CASE type # "unknown" /\ ~ (type = "xml" /\ response.wellFormed)
  <2>1. types = <<"text", type>>
    BY <1>1, <1>3, <1>6, Types
  <2>2. /\ {<<types[i - 1], types[i]>> : i \in 2 .. Len(types)} = {<<"text", type>>}
        /\ types[Len(types)] = type
    BY <2>1, Steps
  <2>3. data = IF /\ {<<"text", type>>} \subseteq Converters
                  /\ \/ response.wellFormed
                     \/ {<<"text", type>>} \subseteq {<<"text", "html">>}
               THEN type ELSE "parsererror"
    BY <1>3, <2>2 DEF ajaxConvert
  <2>4. {<<"text", type>>} \subseteq {<<"text", "html">>} => type = "html"
    OBVIOUS
  <2> QED BY <1>1, <1>2, <1>6, <2>3, <2>4
<1> QED BY <1>4, <1>5, <1>6

(* What a script has called back with is of type json.                     *)
LEMMA ScriptConverted ==
  ASSUME NEW r, NEW ran
  PROVE  ajaxConvert(<<"script", "json">>, r \in ran) =
           IF r \in ran THEN "json" ELSE "parsererror"
<1>1. PICK types : types = <<"script", "json">>
  OBVIOUS
<1>2. {<<types[i - 1], types[i]>> : i \in 2 .. Len(types)} = {<<"script", "json">>}
      /\ types[Len(types)] = "json"
  BY <1>1, Steps
<1>3. /\ {<<"script", "json">>} \subseteq Converters
      /\ ~ {<<"script", "json">>} \subseteq {<<"text", "html">>}
  BY DEF Converters
<1>4. ajaxConvert(types, r \in ran) = IF r \in ran THEN "json" ELSE "parsererror"
  BY <1>2, <1>3 DEF ajaxConvert
<1> QED BY <1>1, <1>4

-----------------------------------------------------------------------------
(* The requests.                                                           *)

Success == <<"success", "complete">>
Failure == <<"error", "complete">>
Ends == {Success, Failure}
Data == {"none", "json", "xml", "html", "text"}

Request ==
  [state : 0 .. 2, timer : BOOLEAN, transport : BOOLEAN, callback : BOOLEAN,
   handlers : BOOLEAN, told : Ends \union {<< >>},
   received : Responses \union {Nothing}, data : Data]

(* The data of a request r that has ended, by what it has received and by  *)
(* which scripts have called back.                                         *)
DataOK(r, q, ran) ==
  /\ q.data \in {"json", "xml"} =>
       IF r \in Scripts THEN r \in ran
       ELSE q.received.contentType = q.data /\ q.received.wellFormed
  /\ q.data = "html" => q.received.contentType = "html"
  /\ q.data = "text" => q.received.contentType = "unknown"
  /\ q.data = "none" /\ q.told = Success =>
       q.received.status = 304

RequestOK(r, q, ran) ==
  /\ q \in Request
  /\ q.timer => q.state = 1
  /\ q.callback => q.state # 0
  /\ q.state = 0 => ~ q.handlers
  /\ q.told \in IF q.state = 2 /\ q.handlers THEN Ends ELSE {<< >>}
  /\ q.state # 2 => q.data = "none"
  /\ DataOK(r, q, ran)

Under == {r \in Xhrs : jqXHR[r].state = 1}

IInv ==
  /\ DOMAIN jqXHR = Requests
  /\ \A r \in Requests : RequestOK(r, jqXHR[r], container)
  /\ DOMAIN browser = Requests
  /\ container \subseteq Scripts
  /\ active = Cardinality(Under)

LEMMA EndsAreTwo ==
  /\ Success # Failure /\ Success # << >> /\ Failure # << >>
  /\ << >> \o Success = Success /\ << >> \o Failure = Failure
<1>1. ASSUME NEW x, NEW y
      PROVE  << >> \o <<x, y>> = <<x, y>>
  <2>1. <<x, y>> \in Seq({x, y})
    OBVIOUS
  <2> QED BY <2>1, ConcatEmptySeq
<1>2. << >> \o Success = Success /\ << >> \o Failure = Failure
  BY <1>1 DEF Success, Failure
<1>3. Success[1] = "success" /\ Failure[1] = "error"
      /\ Len(Success) = 2 /\ Len(Failure) = 2 /\ Len(<< >>) = 0
  BY DEF Success, Failure
<1> QED BY <1>2, <1>3

IsSuccess(status, data) == status \in {200, 304} /\ data # "parsererror"

(* The record that done leaves: a success or not, told to the handlers.    *)
IsDone(p, status, data, response) ==
  /\ p \in Request /\ p.state = 2 /\ ~ p.timer
  /\ p.received = response
  /\ p.data = IF IsSuccess(status, data) THEN data ELSE "none"
  /\ p.told = IF p.handlers
              THEN IF IsSuccess(status, data) THEN Success ELSE Failure
              ELSE << >>

LEMMA DoneRecord ==
  ASSUME NEW q \in Request, q.state # 2, q.told = << >>,
         NEW status, NEW data \in Data \union {"parsererror"},
         NEW response \in Responses \union {Nothing},
         NEW p, p = done(q, status, data, response)
  PROVE  IsDone(p, status, data, response)
<1>1. PICK told : told = Told(q, IF IsSuccess(status, data) THEN "success" ELSE "error")
  OBVIOUS
<1>2. told = IF q.handlers
             THEN IF IsSuccess(status, data) THEN Success ELSE Failure ELSE << >>
  <2>1. CASE IsSuccess(status, data)
    <3>1. told = Told(q, "success")
      BY <1>1, <2>1
    <3> QED BY <2>1, <3>1, EndsAreTwo DEF Told, Success
  <2>2. CASE ~ IsSuccess(status, data)
    <3>1. told = Told(q, "error")
      BY <1>1, <2>2
    <3> QED BY <2>2, <3>1, EndsAreTwo DEF Told, Failure
  <2> QED BY <2>1, <2>2
<1>3. PICK saved : saved = IF IsSuccess(status, data) THEN data ELSE "none"
  OBVIOUS
<1>4. p = [q EXCEPT !.state = 2, !.timer = FALSE, !.transport = FALSE,
                    !.received = response, !.data = saved, !.told = told]
  BY <1>1, <1>3 DEF done, IsSuccess
<1>5. saved \in Data /\ told \in Ends \union {<< >>}
  BY <1>2, <1>3 DEF Data, Ends, IsSuccess
<1>6. /\ p.state = 2 /\ p.received = response /\ p.data = saved
      /\ p.told = told
  BY ONLY <1>4, q \in Request DEF Request
<1>9. /\ ~ p.timer /\ p.timer \in BOOLEAN /\ p.transport \in BOOLEAN
      /\ p.callback \in BOOLEAN /\ p.handlers \in BOOLEAN
  BY ONLY <1>4, q \in Request DEF Request
<1>10. p.handlers <=> q.handlers
  BY ONLY <1>4, q \in Request DEF Request
<1>7. p = [state |-> p.state, timer |-> p.timer, transport |-> p.transport,
           callback |-> p.callback, handlers |-> p.handlers, told |-> p.told,
           received |-> p.received, data |-> p.data]
  BY ONLY <1>4, q \in Request DEF Request
<1>8. p \in Request
  <2>2. /\ p.told \in Ends \union {<< >>} /\ p.data \in Data
        /\ p.received \in Responses \union {Nothing}
    BY <1>5, <1>6
  <2>3. p.state \in 0 .. 2
    BY ONLY <1>6
  <2> QED BY ONLY <1>7, <1>9, <2>2, <2>3 DEF Request
<1> QED BY <1>2, <1>3, <1>6, <1>8, <1>9, <1>10 DEF IsDone

(* done leaves a request as it must be, told once.                         *)
LEMMA DoneOK ==
  ASSUME NEW r, NEW q, NEW ran, RequestOK(r, q, ran),
         NEW status \in {0, 200, 304, 500}, NEW data \in Data \union {"parsererror"},
         NEW response \in Responses \union {Nothing},
         data \in {"json", "xml"} =>
           IF r \in Scripts THEN r \in ran
           ELSE response.contentType = data /\ response.wellFormed,
         data = "html" => response.contentType = "html",
         data = "text" => response.contentType = "unknown",
         status = 200 => data # "none",
         status = 304 => response.status = 304
  PROVE  /\ RequestOK(r, done(q, status, data, response), ran)
         /\ done(q, status, data, response).state = 2
<1>1. CASE q.state = 2
  BY <1>1 DEF done
<1>2. CASE q.state # 2
  <2>1. PICK p : p = done(q, status, data, response)
    OBVIOUS
  <2>2. q \in Request /\ q.told = << >>
    BY <1>2 DEF RequestOK
  <2>3. IsDone(p, status, data, response)
    BY <1>2, <2>1, <2>2, DoneRecord
  <2>4. p.told \in IF p.state = 2 /\ p.handlers THEN Ends ELSE {<< >>}
    BY <2>3 DEF Ends, IsDone
  <2>5. DataOK(r, p, ran)
    BY <2>3, EndsAreTwo DEF DataOK, IsSuccess, IsDone
  <2> QED BY <2>1, <2>3, <2>4, <2>5 DEF RequestOK, IsDone
<1> QED BY <1>1, <1>2

-----------------------------------------------------------------------------
(* The steps.  A step is about one request; Ended keeps the count when the *)
(* request was under way and has ended, or was not and has not begun.      *)

LEMMA CountKept ==
  ASSUME IInv, NEW r \in Requests, DOMAIN jqXHR' = Requests,
         \A s \in Requests : s # r => jqXHR'[s] = jqXHR[s],
         \/ active' = active /\ (r \in Xhrs =>
              (jqXHR'[r].state = 1 <=> jqXHR[r].state = 1))
         \/ r \in Xhrs /\ jqXHR[r].state # 1 /\ jqXHR'[r].state = 1
              /\ active' = active + 1
         \/ r \in Xhrs /\ jqXHR[r].state = 1 /\ jqXHR'[r].state # 1
              /\ active' = active - 1
  PROVE  active' = Cardinality(Under')
<1>1. active = Cardinality(Under) /\ IsFiniteSet(Under)
  <2>1. Under \in SUBSET Xhrs
    BY DEF Under
  <2> QED BY <2>1, FS_Subset, KindsAssumption DEF IInv
<1>2. \A s \in Xhrs : s # r => (s \in Under' <=> s \in Under)
  BY DEF Under, Requests
<1>3. CASE active' = active /\ (r \in Xhrs =>
             (jqXHR'[r].state = 1 <=> jqXHR[r].state = 1))
  <2>1. Under' = Under
    BY <1>2, <1>3 DEF Under
  <2> QED BY <1>1, <1>3, <2>1
<1>4. CASE r \in Xhrs /\ jqXHR[r].state # 1 /\ jqXHR'[r].state = 1
             /\ active' = active + 1
  <2>1. Under' = Under \union {r} /\ r \notin Under
    BY <1>2, <1>4 DEF Under
  <2> QED BY <1>1, <1>4, <2>1, FS_AddElement
<1>5. CASE r \in Xhrs /\ jqXHR[r].state = 1 /\ jqXHR'[r].state # 1
             /\ active' = active - 1
  <2>1. Under' = Under \ {r} /\ r \in Under
    BY <1>2, <1>5 DEF Under
  <2> QED BY <1>1, <1>5, <2>1, FS_RemoveElement
<1> QED BY <1>3, <1>4, <1>5

(* The request of the step is as it must be, and the container has grown   *)
(* by it at most.                                                          *)
LEMMA RequestStep ==
  ASSUME IInv, NEW r \in Requests, NEW q,
         jqXHR' = [jqXHR EXCEPT ![r] = q],
         \A s \in Requests : s # r => (s \in container' <=> s \in container),
         RequestOK(r, q, container'), container' \subseteq Scripts,
         DOMAIN browser' = Requests,
         \/ active' = active /\ (r \in Xhrs => (q.state = 1 <=> jqXHR[r].state = 1))
         \/ r \in Xhrs /\ jqXHR[r].state # 1 /\ q.state = 1 /\ active' = active + 1
         \/ r \in Xhrs /\ jqXHR[r].state = 1 /\ q.state # 1 /\ active' = active - 1
  PROVE  IInv'
<1>1. /\ DOMAIN jqXHR' = Requests /\ jqXHR'[r] = q
      /\ \A s \in Requests : s # r => jqXHR'[s] = jqXHR[s]
  BY DEF IInv
<1>2. active' = Cardinality(Under')
  BY <1>1, CountKept
<1>3. ASSUME NEW s \in Requests
      PROVE  RequestOK(s, jqXHR'[s], container')
  <2>1. CASE s = r
    BY <1>1, <2>1
  <2>2. CASE s # r
    BY <1>1, <2>2 DEF IInv, RequestOK, DataOK
  <2> QED BY <2>1, <2>2
<1> QED BY <1>1, <1>2, <1>3 DEF IInv, Under

(* An end without a response, of a request under way.                      *)
LEMMA WithoutOK ==
  ASSUME NEW r, NEW q, NEW ran, RequestOK(r, q, ran)
  PROVE  /\ RequestOK(r, doneWithout(q), ran)
         /\ doneWithout(q).state = 2
<1>1. Nothing.contentType = "unknown" /\ Nothing.status = 0
  BY DEF Nothing
<1>2. "none" \in Data
  BY DEF Data
<1> QED BY <1>1, <1>2, DoneOK DEF doneWithout

LEMMA CallbackOff ==
  ASSUME NEW r, NEW q, NEW ran, RequestOK(r, q, ran),
         NEW p, p = [q EXCEPT !.callback = FALSE]
  PROVE  RequestOK(r, p, ran) /\ p.state = q.state
<1>1. q \in Request
  BY DEF RequestOK
<1>2. /\ p \in Request /\ p.state = q.state /\ (p.timer <=> q.timer)
      /\ (p.handlers <=> q.handlers) /\ p.told = q.told
      /\ p.received = q.received /\ p.data = q.data /\ ~ p.callback
  BY <1>1 DEF Request
<1> QED BY <1>2 DEF RequestOK, DataOK

LEMMA AbortsStep ==
  ASSUME IInv, NEW r \in Requests,
         jqXHR[r].state # 0, Aborts(r)
  PROVE  IInv'
<1>1. PICK q, p, d : /\ q = jqXHR[r] /\ p = abortTransport(q) /\ d = doneWithout(p)
  OBVIOUS
<1>2. /\ jqXHR' = [jqXHR EXCEPT ![r] = d]
      /\ DOMAIN browser' = DOMAIN browser /\ container' = container
      /\ active' = IF q.state # 2 /\ r \in Xhrs THEN active - 1 ELSE active
  BY <1>1 DEF Aborts, Ended, FireGlobals
<1>3. RequestOK(r, q, container) /\ q.state \in {1, 2}
  BY <1>1 DEF IInv, RequestOK, Request
<1>4. RequestOK(r, p, container)
  BY <1>1, <1>3, CallbackOff DEF abortTransport
<1>5. RequestOK(r, d, container) /\ d.state = 2
  BY <1>1, <1>4, WithoutOK
<1> QED BY <1>1, <1>2, <1>3, <1>5, RequestStep DEF IInv

(* A request that is sent: its handlers are there and are told nothing.    *)
LEMMA SentOK ==
  ASSUME NEW r, NEW q, NEW ran, RequestOK(r, q, ran), q.state = 0,
         NEW timeout \in BOOLEAN, NEW p, p = ajax(q, timeout)
  PROVE  /\ RequestOK(r, p, ran) /\ p.state = 1
         /\ RequestOK(r, [p EXCEPT !.callback = TRUE], ran)
         /\ [p EXCEPT !.callback = TRUE].state = 1
<1>1. q \in Request /\ q.told = << >> /\ q.data = "none"
  BY DEF RequestOK
<1>2. /\ p \in Request /\ p.state = 1 /\ p.told = << >> /\ p.data = "none"
  <2>1. p = [q EXCEPT !.state = 1, !.timer = timeout, !.transport = TRUE,
                      !.handlers = TRUE]
    BY DEF ajax
  <2>2. /\ p.state = 1 /\ p.told = q.told /\ p.received = q.received
        /\ p.data = q.data
    BY ONLY <1>1, <2>1 DEF Request
  <2>3. /\ p.timer \in BOOLEAN /\ p.transport \in BOOLEAN
        /\ p.callback \in BOOLEAN /\ p.handlers \in BOOLEAN
    BY ONLY <1>1, <2>1, timeout \in BOOLEAN DEF Request
  <2>4. p = [state |-> p.state, timer |-> p.timer, transport |-> p.transport,
             callback |-> p.callback, handlers |-> p.handlers, told |-> p.told,
             received |-> p.received, data |-> p.data]
    BY ONLY <1>1, <2>1 DEF Request
  <2>5. /\ p.state \in 0 .. 2 /\ p.told \in Ends \union {<< >>}
        /\ p.received \in Responses \union {Nothing} /\ p.data \in Data
    BY <1>1, <2>2 DEF Request
  <2> QED BY ONLY <1>1, <2>2, <2>3, <2>4, <2>5 DEF Request
<1>3. PICK s : s = [p EXCEPT !.callback = TRUE]
  OBVIOUS
<1>4. s \in Request /\ s.state = 1 /\ s.told = << >> /\ s.data = "none"
  BY <1>2, <1>3 DEF Request
<1> QED BY <1>2, <1>3, <1>4, EndsAreTwo DEF RequestOK, DataOK

LEMMA SendXhrStep ==
  ASSUME IInv, NEW r \in Requests,
         NEW timeout \in BOOLEAN, NEW throws \in BOOLEAN, SendXhr(r, timeout, throws)
  PROVE  IInv'
<1>1. PICK q, p : q = jqXHR[r] /\ p = ajax(q, timeout)
  OBVIOUS
<1>2. /\ q.state = 0 /\ r \in Xhrs /\ container' = container
      /\ RequestOK(r, q, container) /\ container \subseteq Scripts
      /\ DOMAIN browser = Requests
  BY <1>1 DEF SendXhr, IInv
<1>3. /\ RequestOK(r, p, container)
      /\ RequestOK(r, [p EXCEPT !.callback = TRUE], container)
      /\ [p EXCEPT !.callback = TRUE].state = 1
  BY <1>1, <1>2, SentOK
<1>4. CASE throws
  <2>1. PICK d : d = doneWithout(p)
    OBVIOUS
  <2>2. jqXHR' = [jqXHR EXCEPT ![r] = d] /\ UNCHANGED <<browser, active>>
    BY <1>1, <1>4, <2>1 DEF SendXhr
  <2>3. RequestOK(r, d, container) /\ d.state = 2
    BY <1>3, <2>1, WithoutOK
  <2>4. DOMAIN browser' = Requests /\ d.state # 1 /\ jqXHR[r].state # 1
    BY <1>1, <1>2, <2>2, <2>3
  <2> QED BY <1>1, <1>2, <2>2, <2>3, <2>4, RequestStep
<1>5. CASE ~ throws
  <2>1. PICK s : s = [p EXCEPT !.callback = TRUE]
    OBVIOUS
  <2>2. /\ jqXHR' = [jqXHR EXCEPT ![r] = s]
        /\ DOMAIN browser' = DOMAIN browser /\ active' = active + 1
    BY <1>1, <1>2, <1>5, <2>1 DEF SendXhr, FireGlobals
  <2>3. jqXHR[r].state # 1 /\ s.state = 1 /\ RequestOK(r, s, container)
    BY <1>1, <1>2, <1>3, <2>1
  <2> QED BY <1>2, <2>2, <2>3, RequestStep
<1> QED BY <1>4, <1>5

LEMMA SendScriptStep ==
  ASSUME IInv, NEW r \in Requests,
         NEW timeout \in BOOLEAN, SendScript(r, timeout)
  PROVE  IInv'
<1>1. PICK q, p, s : /\ q = jqXHR[r] /\ p = ajax(q, timeout)
                     /\ s = [p EXCEPT !.callback = TRUE]
  OBVIOUS
<1>2. /\ q.state = 0 /\ r \in Scripts /\ r \notin Xhrs /\ container' = container
      /\ RequestOK(r, q, container)
      /\ jqXHR' = [jqXHR EXCEPT ![r] = s]
      /\ DOMAIN browser' = DOMAIN browser /\ active' = active
  BY <1>1, KindsAssumption DEF SendScript, IInv, FireGlobals
<1>3. RequestOK(r, s, container)
  BY <1>1, <1>2, SentOK
<1> QED BY <1>1, <1>2, <1>3, RequestStep DEF IInv

LEMMA VetoStep ==
  ASSUME IInv, NEW r \in Requests, Veto(r)
  PROVE  IInv'
<1>1. PICK q, d : q = jqXHR[r] /\ d = doneWithout(q)
  OBVIOUS
<1>2. /\ q.state = 0 /\ jqXHR' = [jqXHR EXCEPT ![r] = d]
      /\ UNCHANGED <<browser, container, active>>
      /\ RequestOK(r, q, container) /\ container \subseteq Scripts
      /\ DOMAIN browser = Requests
  BY <1>1 DEF Veto, IInv
<1>3. RequestOK(r, d, container) /\ d.state = 2
  BY <1>1, <1>2, WithoutOK
<1>4. DOMAIN browser' = Requests /\ d.state # 1 /\ jqXHR[r].state # 1
  BY <1>1, <1>2, <1>3
<1> QED BY <1>2, <1>3, <1>4, RequestStep

LEMMA OnReadyStateStep ==
  ASSUME IInv, NEW r \in Requests,
         NEW response \in Responses \union {Nothing}, OnReadyState(r, response)
  PROVE  IInv'
<1>1. PICK q, p : q = jqXHR[r] /\ p = [q EXCEPT !.callback = FALSE]
  OBVIOUS
<1>2. /\ r \in Xhrs /\ r \notin Scripts /\ container' = container
      /\ DOMAIN browser' = DOMAIN browser /\ RequestOK(r, q, container)
  BY <1>1, KindsAssumption DEF OnReadyState, IInv
<1>3. CASE ~ q.callback
  <2>1. UNCHANGED <<jqXHR, active>>
    BY <1>1, <1>3 DEF OnReadyState
  <2> QED BY <1>2, <2>1 DEF IInv, Under
<1>4. CASE q.callback
  <2>1. PICK data, d :
          /\ data = IF response.status = 200
                    THEN ajaxConvert(ajaxHandleResponses(dataTypes(r), response),
                                     response.wellFormed)
                    ELSE "none"
          /\ d = done(p, response.status, data, response)
    OBVIOUS
  <2>2. jqXHR' = [jqXHR EXCEPT ![r] = d]
        /\ active' = IF q.state # 2 THEN active - 1 ELSE active
    BY <1>1, <1>2, <1>4, <2>1 DEF OnReadyState, Ended, FireGlobals
  <2>3. RequestOK(r, p, container) /\ p.state = q.state /\ q.state \in {1, 2}
    BY <1>1, <1>2, <1>4, CallbackOff DEF RequestOK, Request
  <2>4. /\ response.status \in {0, 200, 304, 500}
        /\ response.status = 200 => response \in Responses
    <3>1. CASE response = Nothing
      BY <3>1 DEF Nothing
    <3>2. CASE response \in Responses
      BY <3>2, ZenonT(60) DEF Responses
    <3> QED BY <3>1, <3>2
  <2>5. /\ data \in Data \union {"parsererror"}
        /\ data \in {"json", "xml"} =>
             response.contentType = data /\ response.wellFormed
        /\ data = "html" => response.contentType = "html"
        /\ data = "text" => response.contentType = "unknown"
        /\ response.status = 200 => data # "none"
    <3>1. dataTypes(r) = <<"*">>
      BY <1>2 DEF dataTypes
    <3> QED BY <2>1, <2>4, <3>1, Converted DEF Data
  <2>6. RequestOK(r, d, container) /\ d.state = 2
    BY <1>2, <2>1, <2>3, <2>4, <2>5, DoneOK
  <2> QED BY <1>1, <1>2, <2>2, <2>3, <2>6, RequestStep DEF IInv
<1> QED BY <1>3, <1>4

LEMMA ScriptRunsStep ==
  ASSUME IInv, NEW r \in Requests,
         NEW calls \in BOOLEAN, ScriptRuns(r, calls)
  PROVE  IInv'
<1>1. /\ r \in Scripts /\ DOMAIN browser' = DOMAIN browser
      /\ UNCHANGED <<jqXHR, active>>
      /\ container' \subseteq Scripts
      /\ \A s : s \in container => s \in container'
  BY DEF ScriptRuns, IInv
<1>2. \A s \in Requests \ Scripts : s \notin container /\ s \notin container'
  BY <1>1 DEF IInv
<1>3. ASSUME NEW s \in Requests
      PROVE  RequestOK(s, jqXHR'[s], container')
  BY <1>1 DEF IInv, RequestOK, DataOK
<1> QED BY <1>1, <1>3 DEF IInv, Under

LEMMA ScriptLoadedStep ==
  ASSUME IInv, NEW r \in Requests,
         browser[r] = "ran" => r \in Scripts, ScriptLoaded(r)
  PROVE  IInv'
<1>1. PICK q, p : q = jqXHR[r] /\ p = [q EXCEPT !.callback = FALSE]
  OBVIOUS
<1>2. /\ r \in Scripts /\ r \notin Xhrs /\ container' = container
      /\ DOMAIN browser' = DOMAIN browser /\ RequestOK(r, q, container)
  BY <1>1, KindsAssumption DEF ScriptLoaded, IInv
<1>3. CASE ~ q.callback
  <2>1. UNCHANGED <<jqXHR, active>>
    BY <1>1, <1>3 DEF ScriptLoaded
  <2> QED BY <1>2, <2>1 DEF IInv, Under
<1>4. CASE q.callback
  <2>1. PICK data, d : /\ data = ajaxConvert(dataTypes(r), r \in container)
                       /\ d = done(p, 200, data, Nothing)
    OBVIOUS
  <2>2. jqXHR' = [jqXHR EXCEPT ![r] = d] /\ active' = active
    BY <1>1, <1>2, <1>4, <2>1 DEF ScriptLoaded, Ended, FireGlobals
  <2>3. RequestOK(r, p, container)
    BY <1>1, <1>2, CallbackOff
  <2>4. data = IF r \in container THEN "json" ELSE "parsererror"
    <3>1. dataTypes(r) = <<"script", "json">>
      BY <1>2 DEF dataTypes
    <3> QED BY <2>1, <3>1, ScriptConverted
  <2>5. data \in Data \union {"parsererror"}
    BY <2>4 DEF Data
  <2>6. RequestOK(r, d, container) /\ d.state = 2
    BY <1>2, <2>1, <2>3, <2>4, <2>5, DoneOK
  <2> QED BY <1>1, <1>2, <2>2, <2>6, RequestStep DEF IInv
<1> QED BY <1>3, <1>4

-----------------------------------------------------------------------------
(* Only a script runs.                                                     *)
OnlyScriptsRun ==
  /\ browser \in [Requests -> {"idle", "sent", "ran", "over"}]
  /\ \A r \in Requests : browser[r] = "ran" => r \in Scripts

LEMMA OnlyScriptsRunStep ==
  OnlyScriptsRun /\ [Next]_vars => OnlyScriptsRun'
<1> SUFFICES ASSUME OnlyScriptsRun, [Next]_vars
             PROVE  OnlyScriptsRun'
  OBVIOUS
<1>1. CASE UNCHANGED browser
  BY <1>1 DEF OnlyScriptsRun
<1>2. ASSUME NEW r \in Requests, NEW state \in {"sent", "ran", "over"},
             browser' = [browser EXCEPT ![r] = state],
             state = "ran" => r \in Scripts
      PROVE  OnlyScriptsRun'
  BY <1>2 DEF OnlyScriptsRun
<1>3. ASSUME NEW r \in Requests, Aborts(r)
      PROVE  OnlyScriptsRun'
  <2>1. UNCHANGED browser \/ browser' = [browser EXCEPT ![r] = "over"]
    BY <1>3 DEF Aborts, OnlyScriptsRun
  <2> QED BY <1>1, <1>2, <2>1
<1>4. CASE Next
  <2>1. PICK r \in Requests :
          \/ (\E timeout, throws \in BOOLEAN : SendXhr(r, timeout, throws))
          \/ (\E timeout \in BOOLEAN : SendScript(r, timeout)) \/ Veto(r)
          \/ Abort(r) \/ Timeout(r)
          \/ (\E response \in Responses \cup {Nothing} : OnReadyState(r, response))
          \/ (\E calls \in BOOLEAN : ScriptRuns(r, calls))
          \/ ScriptLoaded(r) \/ ScriptLost(r)
    BY <1>4 DEF Next
  <2>2. CASE \E timeout, throws \in BOOLEAN : SendXhr(r, timeout, throws)
    BY <1>1, <1>2, <2>2 DEF SendXhr
  <2>3. CASE \E timeout \in BOOLEAN : SendScript(r, timeout)
    BY <1>2, <2>3 DEF SendScript
  <2>4. CASE Veto(r)
    BY <1>1, <2>4 DEF Veto
  <2>5. CASE Abort(r) \/ Timeout(r)
    BY <1>3, <2>5 DEF Abort, Timeout
  <2>6. CASE \E response \in Responses \cup {Nothing} : OnReadyState(r, response)
    BY <1>2, <2>6 DEF OnReadyState
  <2>7. CASE \E calls \in BOOLEAN : ScriptRuns(r, calls)
    BY <1>2, <2>7 DEF ScriptRuns
  <2>8. CASE ScriptLoaded(r)
    BY <1>2, <2>8 DEF ScriptLoaded
  <2>9. CASE ScriptLost(r)
    BY <1>2, <2>9 DEF ScriptLost
  <2> QED BY <2>1, <2>2, <2>3, <2>4, <2>5, <2>6, <2>7, <2>8, <2>9
<1> QED BY <1>1, <1>4 DEF vars

LEMMA IInvStep ==
  ASSUME IInv, OnlyScriptsRun,
         [Next]_vars
  PROVE  IInv'
<1>1. CASE UNCHANGED vars
  BY <1>1 DEF vars, IInv, Under
<1>2. CASE Next
  <2>1. PICK r \in Requests :
          \/ (\E timeout, throws \in BOOLEAN : SendXhr(r, timeout, throws))
          \/ (\E timeout \in BOOLEAN : SendScript(r, timeout)) \/ Veto(r)
          \/ Abort(r) \/ Timeout(r)
          \/ (\E response \in Responses \cup {Nothing} : OnReadyState(r, response))
          \/ (\E calls \in BOOLEAN : ScriptRuns(r, calls))
          \/ ScriptLoaded(r) \/ ScriptLost(r)
    BY <1>2 DEF Next
  <2>2. CASE Abort(r)
    BY <2>2, AbortsStep DEF Abort
  <2>3. CASE Timeout(r)
    <3>1. jqXHR[r].state # 0
      BY <2>3 DEF Timeout, IInv, RequestOK
    <3> QED BY <2>3, <3>1, AbortsStep DEF Timeout
  <2>4. CASE ScriptLoaded(r)
    <3>1. r \in Scripts
      BY <2>4 DEF ScriptLoaded, OnlyScriptsRun
    <3> QED BY <2>4, <3>1, ScriptLoadedStep
  <2>5. CASE ScriptLost(r)
    BY <2>5 DEF ScriptLost, IInv, Under
  <2>6. CASE Veto(r)
    BY <2>6, VetoStep
  <2>7. CASE \E timeout, throws \in BOOLEAN : SendXhr(r, timeout, throws)
    BY <2>7, SendXhrStep
  <2>8. CASE \E timeout \in BOOLEAN : SendScript(r, timeout)
    BY <2>8, SendScriptStep
  <2>9. CASE \E response \in Responses \cup {Nothing} : OnReadyState(r, response)
    BY <2>9, OnReadyStateStep
  <2>10. CASE \E calls \in BOOLEAN : ScriptRuns(r, calls)
    BY <2>10, ScriptRunsStep
  <2> QED BY <2>1, <2>2, <2>3, <2>4, <2>5, <2>6, <2>7, <2>8, <2>9, <2>10
<1> QED BY <1>1, <1>2

LEMMA IInvInit ==
  Init => IInv /\ OnlyScriptsRun
<1> SUFFICES ASSUME Init
             PROVE  IInv /\ OnlyScriptsRun
  OBVIOUS
<1>1. PICK q : q = [state |-> 0, timer |-> FALSE, transport |-> FALSE,
                    callback |-> FALSE, handlers |-> FALSE, told |-> << >>,
                    received |-> Nothing, data |-> "none"]
  OBVIOUS
<1>2. /\ jqXHR = [r \in Requests |-> q]
      /\ browser = [r \in Requests |-> "idle"] /\ container = {} /\ active = 0
  BY <1>1 DEF Init
<1>3. /\ q \in Request /\ q.state = 0 /\ ~ q.timer /\ ~ q.callback
      /\ ~ q.handlers /\ q.told = << >> /\ q.data = "none"
  BY <1>1 DEF Request, Data
<1>4. \A r \in Requests : RequestOK(r, q, container)
  BY <1>3, EndsAreTwo DEF RequestOK, DataOK
<1>5. Under = {}
  BY <1>2, <1>3 DEF Under, Requests
<1> QED BY <1>2, <1>4, <1>5, FS_EmptySet DEF IInv, OnlyScriptsRun

LEMMA IInvEndsOnce ==
  IInv => EndsOnce
<1> SUFFICES ASSUME IInv
             PROVE  EndsOnce
  OBVIOUS
<1>1. ASSUME NEW r \in Requests
      PROVE  jqXHR[r].told \in IF jqXHR[r].state = 2 /\ jqXHR[r].handlers
               THEN {<<"success", "complete">>, <<"error", "complete">>} ELSE {<< >>}
  BY DEF IInv, RequestOK, Ends, Success, Failure
<1>2. ASSUME NEW r \in Requests, NEW q, q = jqXHR[r]
      PROVE  CASE q.data \in {"json", "xml"} ->
                    IF r \in Scripts THEN r \in container
                    ELSE q.received.contentType = q.data /\ q.received.wellFormed
               [] q.data = "html" -> q.received.contentType = "html"
               [] q.data = "text" -> q.received.contentType = "unknown"
               [] OTHER -> "success" \in {q.told[i] : i \in DOMAIN q.told} =>
                             q.received.status = 304
  <2>1. DataOK(r, q, container) /\ q.data \in Data /\ q.told \in Ends \union {<< >>}
    BY <1>2 DEF IInv, RequestOK, Request
  <2>2. "success" \in {q.told[i] : i \in DOMAIN q.told} => q.told = Success
    <3>1. DOMAIN Failure = {1, 2} /\ Failure[1] = "error" /\ Failure[2] = "complete"
      BY DEF Failure
    <3>2. DOMAIN << >> = {}
      OBVIOUS
    <3> QED BY <2>1, <3>1, <3>2 DEF Ends
  <2>3. CASE q.data \in {"json", "xml"}
    BY <2>1, <2>3 DEF DataOK
  <2>4. CASE q.data = "html"
    BY <2>1, <2>4 DEF DataOK
  <2>5. CASE q.data = "text"
    BY <2>1, <2>5 DEF DataOK
  <2>6. CASE q.data = "none"
    BY <2>1, <2>2, <2>6 DEF DataOK
  <2> QED BY <2>1, <2>3, <2>4, <2>5, <2>6 DEF Data
<1> QED BY <1>1, <1>2 DEF EndsOnce, IInv, Under

(* However a request ends, and however often, its handlers are told once,  *)
(* with data that is what the response claims to be; jQuery.active counts  *)
(* the requests under way (done, "Called once").                           *)
THEOREM RequestsEndOnce == Spec => []EndsOnce
<1>1. (IInv /\ OnlyScriptsRun) /\ [Next]_vars => (IInv /\ OnlyScriptsRun)'
  BY IInvStep, OnlyScriptsRunStep
<1> QED BY <1>1, IInvInit, IInvEndsOnce, PTL DEF Spec

-----------------------------------------------------------------------------
(* Deferred: its lists.                                                    *)

\* The lists that settle a Deferred.
Outcomes == {"done", "fail"}

\* The function of a list that disables the other.
FirstOf(l) == IF l = "done" THEN "disableFail" ELSE "disableDone"

\* A Callbacks object with functions of S.
CallbacksOf(S) ==
  [list : Seq(S), stack : Seq(Nat), memory : Nat, firing : BOOLEAN, index : Nat,
   start : Nat, length : Nat, off : BOOLEAN, locked : BOOLEAN]

\* The loop of progress stays within the list.
ProgressOK(c) ==
  /\ c \in CallbacksOf(Watchers)
  /\ c.firing /\ ~c.off => c.length <= Len(c.list)

\* A list of done or fail: at its head the Deferred's own functions until it has fired
\* them, then handlers only; it keeps them only while it waits or fires.
OutcomeOK(l, c) ==
  /\ c \in CallbacksOf(Handlers \cup OwnFunctions)
  /\ Own(c) <= Len(c.list)
  /\ Own(c) = 2 => c.list[1] = FirstOf(l) /\ c.list[2] = "lockProgress"
  /\ \A i \in Own(c) + 1 .. Len(c.list) : c.list[i] \in Handlers
  /\ c.start = 0 /\ c.locked = c.off
  /\ c.off => c.list = <<>> /\ c.memory = 0
  /\ c.firing => c.memory # 0 /\ c.length = Len(c.list) /\ c.index <= c.length
  /\ ~c.firing /\ c.memory # 0 => c.list = <<>>
  /\ ~c.firing /\ c.memory = 0 /\ ~c.off => Own(c) = 2

(* A handler that is appended comes last of those ahead.                   *)
LEMMA AppendedLast ==
  ASSUME NEW S, NEW s \in Seq(S), NEW x \in S, NEW n \in 0 .. Len(s)
  PROVE  SubSeq(Append(s, x), n + 1, Len(Append(s, x)))
           = Append(SubSeq(s, n + 1, Len(s)), x)
<1> DEFINE t == Append(s, x)
           left == SubSeq(t, n + 1, Len(t))
           old == SubSeq(s, n + 1, Len(s))
           right == Append(old, x)
<1>1. /\ t \in Seq(S) /\ Len(t) = Len(s) + 1 /\ t[Len(s) + 1] = x
      /\ \A i \in 1 .. Len(s) : t[i] = s[i]
  BY AppendProperties
<1>2. Len(s) \in Nat /\ n \in Nat
  BY LenProperties
<1>3. /\ old \in Seq(S) /\ Len(old) = Len(s) - n
      /\ \A i \in 1 .. Len(s) - n : old[i] = s[n + i]
  <2>1. \A i \in n + 1 .. Len(s) : s[i] \in S
    BY <1>2, ElementOfSeq
  <2> QED BY <2>1, <1>2, SubSeqProperties
<1> HIDE DEF t
<1>4. /\ left \in Seq(S) /\ Len(left) = Len(s) + 1 - n
      /\ \A i \in 1 .. Len(s) + 1 - n : left[i] = t[n + i]
  <2>1. \A i \in n + 1 .. Len(t) : t[i] \in S
    BY <1>1, <1>2, ElementOfSeq
  <2> QED BY <2>1, <1>1, <1>2, SubSeqProperties
<1> HIDE DEF old
<1>5. /\ right \in Seq(S) /\ Len(right) = Len(s) + 1 - n
      /\ \A i \in 1 .. Len(s) - n : right[i] = old[i]
      /\ right[Len(s) + 1 - n] = x
  BY <1>2, <1>3, AppendProperties
<1> HIDE DEF left, right
<1>6. \A i \in 1 .. Len(left) : left[i] = right[i]
  <2> TAKE i \in 1 .. Len(left)
  <2>1. CASE i = Len(s) + 1 - n
    BY <2>1, <1>1, <1>2, <1>4, <1>5
  <2>2. CASE i # Len(s) + 1 - n
    <3>1. i \in 1 .. Len(s) - n /\ n + i \in 1 .. Len(s)
      <4>1. Len(left) = Len(s) + 1 - n
        BY <1>4
      <4> QED BY <4>1, <2>2, <1>2
    <3>2. left[i] = t[n + i]
      BY <3>1, <1>2, <1>4
    <3>3. t[n + i] = s[n + i]
      BY <3>1, <1>1
    <3>4. right[i] = old[i] /\ old[i] = s[n + i]
      BY <3>1, <1>3, <1>5
    <3> QED BY <3>2, <3>3, <3>4
  <2> QED BY <2>1, <2>2
<1>7. left = right
  BY <1>4, <1>5, <1>6, <1>2, SeqEqual
<1> QED BY <1>7 DEF left, right, old, t

(* The first of those ahead is the function called next.                   *)
LEMMA NextAhead ==
  ASSUME NEW S, NEW s \in Seq(S), NEW n \in 0 .. Len(s) - 1
  PROVE  /\ SubSeq(s, n + 1, Len(s)) # <<>>
         /\ Head(SubSeq(s, n + 1, Len(s))) = s[n + 1]
         /\ Tail(SubSeq(s, n + 1, Len(s))) = SubSeq(s, n + 2, Len(s))
<1>1. Len(s) \in Nat /\ n + 1 \in 1 .. Len(s) /\ Len(s) \in n + 1 .. Len(s)
  BY LenProperties
<1>2. (n + 1) + 1 = n + 2
  BY <1>1
<1>3. Len(SubSeq(s, n + 1, Len(s))) = Len(s) - n
  <2>1. \A i \in n + 1 .. Len(s) : s[i] \in S
    BY <1>1, ElementOfSeq
  <2> QED BY <2>1, <1>1, SubSeqProperties
<1>4. SubSeq(s, n + 1, Len(s)) # <<>>
  <2>1. Len(<<>>) = 0
    BY EmptySeq
  <2>2. Len(s) - n # 0
    BY <1>1
  <2>3. ASSUME SubSeq(s, n + 1, Len(s)) = <<>> PROVE FALSE
    <3>1. Len(SubSeq(s, n + 1, Len(s))) = 0
      BY <2>1, <2>3
    <3> QED BY <3>1, <2>2, <1>3
  <2> QED BY <2>3
<1>5. /\ Head(SubSeq(s, n + 1, Len(s))) = s[n + 1]
      /\ Tail(SubSeq(s, n + 1, Len(s))) = SubSeq(s, (n + 1) + 1, Len(s))
  BY <1>1, HeadTailOfSubSeq
<1> QED BY <1>2, <1>4, <1>5

(* The loop counts on, and as far as the list is long.                     *)
LEMMA SetIndex ==
  ASSUME NEW S, NEW c \in CallbacksOf(S), NEW n \in Nat,
         NEW d, d = [c EXCEPT !.index = n]
  PROVE  /\ d \in CallbacksOf(S)
         /\ d.list = c.list /\ d.memory = c.memory /\ d.firing = c.firing
         /\ d.index = n /\ d.start = c.start /\ d.length = c.length
         /\ d.off = c.off /\ d.locked = c.locked
BY DEF CallbacksOf

\* The record once its loop has counted on.
CountedOn(c) == [c EXCEPT !.index = @ + 1]

LEMMA NextIndex ==
  ASSUME NEW S, NEW c \in CallbacksOf(S), NEW d, d = CountedOn(c)
  PROVE  /\ d \in CallbacksOf(S)
         /\ d.list = c.list /\ d.memory = c.memory /\ d.firing = c.firing
         /\ d.index = c.index + 1 /\ d.start = c.start /\ d.length = c.length
         /\ d.off = c.off /\ d.locked = c.locked
<1>1. c.index \in Nat
  BY DEF CallbacksOf
<1>2. PICK n \in Nat : n = c.index + 1
  BY <1>1
<1>3. d = [c EXCEPT !.index = n]
  BY <1>2 DEF CountedOn
<1> QED BY <1>2, <1>3, SetIndex

LEMMA SetLength ==
  ASSUME NEW S, NEW c \in CallbacksOf(S), NEW n \in Nat,
         NEW d, d = [c EXCEPT !.length = n]
  PROVE  /\ d \in CallbacksOf(S)
         /\ d.list = c.list /\ d.memory = c.memory /\ d.firing = c.firing
         /\ d.index = c.index /\ d.start = c.start /\ d.length = n
         /\ d.off = c.off /\ d.locked = c.locked
BY DEF CallbacksOf

(* What add does to a list of done or fail that is not disabled.           *)
LEMMA AddKeeps ==
  ASSUME NEW l \in Outcomes, NEW c, OutcomeOK(l, c), ~c.off, NEW h \in Handlers
  PROVE  /\ OutcomeOK(l, add(c, h))
         /\ add(c, h).memory = c.memory /\ ~add(c, h).off
         /\ (add(c, h).firing <=> c.firing \/ addFires(c))
         /\ Ahead(add(c, h)) = Append(Ahead(c), h)
<1> DEFINE S == Handlers \cup OwnFunctions
           t == Append(c.list, h)
           d == add(c, h)
<1>1. c \in CallbacksOf(S) /\ c.list \in Seq(S) /\ h \in S /\ Len(c.list) \in Nat
  BY LenProperties DEF OutcomeOK, CallbacksOf
<1>2. /\ t \in Seq(S) /\ Len(t) = Len(c.list) + 1 /\ t # <<>> /\ t[Len(c.list) + 1] = h
      /\ \A i \in 1 .. Len(c.list) : t[i] = c.list[i]
  BY <1>1, AppendProperties
<1>3. c.list = <<>> <=> Len(c.list) = 0
  BY <1>1, EmptySeq
<1> HIDE DEF S, t
<1>4. d.list = t /\ Own(d) = Own(c)
  <2>1. d.list = t
    BY <1>1 DEF add, addFires, fire, longer, CallbacksOf, t
  <2>2. CASE c.list = <<>>
    BY <2>1, <2>2, <1>2, <1>3 DEF Own
  <2>3. CASE c.list # <<>>
    BY <2>1, <2>3, <1>1, <1>2, <1>3 DEF Own
  <2> QED BY <2>1, <2>2, <2>3
<1>5. /\ d \in CallbacksOf(S)
      /\ d.memory = c.memory /\ d.start = 0 /\ d.locked = c.locked /\ d.off = c.off
      /\ (d.firing <=> c.firing \/ addFires(c))
      /\ d.firing => d.length = Len(t)
      /\ d.index = IF addFires(c) THEN Len(c.list) ELSE c.index
  <2>1. c.start = 0 /\ ~c.off
    BY DEF OutcomeOK
  <2> DEFINE w == longer(c, h)
  <2>2. /\ w \in CallbacksOf(S)
        /\ w.list = t /\ w.memory = c.memory /\ w.start = 0
        /\ w.locked = c.locked /\ w.off = c.off /\ w.firing = c.firing
        /\ w.index = c.index
    BY <2>1, <1>1, <1>2 DEF CallbacksOf, longer, t
  <2>3. CASE c.firing
    <3>1. d = [w EXCEPT !.length = Len(c.list) + 1] /\ ~addFires(c)
      BY <2>1, <2>3 DEF add, addFires
    <3> HIDE DEF w, d
    <3>2. Len(t) \in Nat /\ d = [w EXCEPT !.length = Len(t)]
      BY <3>1, <1>1, <1>2
    <3>3. PICK n \in Nat : n = Len(t)
      BY <3>2
    <3>4. d = [w EXCEPT !.length = n]
      BY <3>2, <3>3
    <3>5. /\ d \in CallbacksOf(S)
          /\ d.list = w.list /\ d.memory = w.memory /\ d.firing = w.firing
          /\ d.index = w.index /\ d.start = w.start /\ d.length = n
          /\ d.off = w.off /\ d.locked = w.locked
      BY <2>2, <3>4, SetLength
    <3> QED BY <2>2, <2>3, <3>1, <3>3, <3>5
  <2>4. CASE ~c.firing /\ c.memory # 0
    <3> DEFINE begun == [w EXCEPT !.start = Len(c.list)]
    <3>1. d = fire(begun, c.memory) /\ addFires(c)
      BY <2>1, <2>4 DEF add, addFires
    <3> HIDE DEF w, d
    <3>2. /\ begun \in CallbacksOf(S)
          /\ begun.list = t /\ begun.start = Len(c.list)
          /\ begun.locked = c.locked /\ begun.off = c.off
      BY <2>2, <1>1 DEF CallbacksOf
    <3> HIDE DEF begun
    <3>3. c.memory \in Nat /\ Len(t) \in Nat
      BY <1>1, <1>2 DEF CallbacksOf
    <3> QED BY <2>4, <3>1, <3>2, <3>3, <1>1 DEF CallbacksOf, fire
  <2>5. CASE ~c.firing /\ c.memory = 0
    <3>1. d = w /\ ~addFires(c)
      BY <2>1, <2>5 DEF add, addFires
    <3> HIDE DEF w, d
    <3> QED BY <2>2, <2>5, <3>1
  <2> QED BY <2>3, <2>4, <2>5, <1>1 DEF CallbacksOf
<1>6. Own(c) \in {0, 2}
  BY DEF Own
<1>7. addFires(c) => Len(c.list) = 0 /\ c.memory # 0 /\ Own(c) = 0
  BY <1>3 DEF addFires, OutcomeOK, Own
<1>8. OutcomeOK(l, d)
  <2> HIDE DEF d
  <2>1. Own(d) <= Len(d.list)
    BY <1>1, <1>2, <1>4, <1>6 DEF OutcomeOK
  <2>2. Own(d) = 2 => d.list[1] = FirstOf(l) /\ d.list[2] = "lockProgress"
    BY <1>1, <1>2, <1>4, <1>6 DEF OutcomeOK
  <2>3. \A i \in Own(d) + 1 .. Len(d.list) : d.list[i] \in Handlers
    BY <1>1, <1>2, <1>4, <1>6 DEF OutcomeOK
  <2>4. d.firing => d.memory # 0 /\ d.length = Len(d.list) /\ d.index <= d.length
    <3>1. CASE addFires(c)
      BY <3>1, <1>1, <1>2, <1>4, <1>5, <1>7
    <3>2. CASE ~addFires(c)
      BY <3>2, <1>1, <1>2, <1>4, <1>5 DEF OutcomeOK, CallbacksOf
    <3> QED BY <3>1, <3>2
  <2>5. d.memory # 0 => d.firing
    BY <1>5 DEF addFires
  <2>6. d.memory = 0 /\ ~d.firing => Own(d) = 2
    BY <1>4, <1>5 DEF OutcomeOK
  <2> QED BY <1>5, <2>1, <2>2, <2>3, <2>4, <2>5, <2>6 DEF OutcomeOK, S
<1>9. Ahead(d) = Append(Ahead(c), h)
  <2> DEFINE passed(a) == IF a.firing /\ a.index > Own(a) THEN a.index ELSE Own(a)
  <2>1. passed(d) = passed(c)
    <3> HIDE DEF d
    <3>1. CASE addFires(c)
      <4>1. ~c.firing /\ d.index = 0 /\ Own(c) = 0
        BY <3>1, <1>5, <1>7 DEF addFires
      <4> QED BY <4>1, <1>4
    <3>2. CASE ~addFires(c)
      <4>1. (d.firing <=> c.firing) /\ d.index = c.index
        BY <3>2, <1>5
      <4> QED BY <4>1, <1>4
    <3> QED BY <3>1, <3>2
  <2>2. passed(c) \in 0 .. Len(c.list)
    BY <1>1, <1>6 DEF OutcomeOK, CallbacksOf
  <2>3. Ahead(d) = SubSeq(t, passed(c) + 1, Len(t))
    BY <2>1, <1>4 DEF Ahead
  <2>4. Ahead(c) = SubSeq(c.list, passed(c) + 1, Len(c.list))
    BY DEF Ahead
  <2> QED BY <1>1, <2>2, <2>3, <2>4, AppendedLast DEF t
<1> QED BY <1>5, <1>8, <1>9

(* A list that fires has all its handlers ahead and begins with its own    *)
(* functions.                                                              *)
LEMMA FireKeeps ==
  ASSUME NEW l \in Outcomes, NEW c, OutcomeOK(l, c), fires(l, c)
  PROVE  /\ OutcomeOK(l, fire(c, 1))
         /\ fire(c, 1).memory = 1 /\ ~fire(c, 1).off
         /\ fire(c, 1).firing /\ fire(c, 1).index = 0 /\ Own(fire(c, 1)) = 2
         /\ Ahead(fire(c, 1)) = Ahead(c)
         /\ c.memory = 0 /\ ~c.off
<1> DEFINE d == fire(c, 1)
<1>1. /\ c \in CallbacksOf(Handlers \cup OwnFunctions)
      /\ c.memory = 0 /\ ~c.off /\ ~c.firing /\ Own(c) = 2 /\ c.start = 0
  BY DEF OutcomeOK, fires, Outcomes, Once
<1>2. /\ d \in CallbacksOf(Handlers \cup OwnFunctions)
      /\ d.list = c.list /\ d.memory = 1 /\ d.firing /\ d.index = 0 /\ d.start = 0
      /\ d.length = Len(c.list) /\ d.off = c.off /\ d.locked = c.locked
  <2>1. Len(c.list) \in Nat
    BY <1>1, LenProperties DEF CallbacksOf
  <2> QED BY <1>1, <2>1 DEF fire, CallbacksOf
<1> HIDE DEF d
<1>3. Own(d) = Own(c)
  BY <1>2 DEF Own
<1>4. d.index <= d.length
  BY <1>1, <1>2, LenProperties DEF CallbacksOf
<1>5. OutcomeOK(l, d)
  BY <1>1, <1>2, <1>3, <1>4 DEF OutcomeOK
<1>6. Ahead(d) = Ahead(c)
  BY <1>1, <1>2, <1>3 DEF Ahead
<1> QED BY <1>1, <1>2, <1>3, <1>5, <1>6 DEF d

(* A list that does not fire can be disabled.                              *)
LEMMA DisableKeeps ==
  ASSUME NEW l \in Outcomes, NEW c, OutcomeOK(l, c), ~c.firing
  PROVE  OutcomeOK(l, disable(c)) /\ disable(c).memory = 0 /\ disable(c).off
<1> DEFINE d == disable(c)
<1>1. c \in CallbacksOf(Handlers \cup OwnFunctions) /\ c.start = 0
  BY DEF OutcomeOK
<1>2. /\ d \in CallbacksOf(Handlers \cup OwnFunctions)
      /\ d.list = <<>> /\ d.memory = 0 /\ ~d.firing /\ d.start = 0 /\ d.off /\ d.locked
  BY <1>1, EmptySeq DEF disable, CallbacksOf
<1> HIDE DEF d
<1>3. Own(d) = 0 /\ Len(d.list) = 0
  BY <1>2, EmptySeq DEF Own
<1>4. OutcomeOK(l, d)
  BY <1>2, <1>3 DEF OutcomeOK
<1> QED BY <1>2, <1>4 DEF d

(* The function called next is one of the list's own, or the first handler *)
(* ahead.                                                                  *)
LEMMA CallKeeps ==
  ASSUME NEW l \in Outcomes, NEW c, OutcomeOK(l, c), c.firing, c.index < c.length,
         NEW d, d = CountedOn(c)
  PROVE  /\ OutcomeOK(l, d)
         /\ d.memory = c.memory /\ d.off = c.off /\ d.firing /\ d.index = c.index + 1
         /\ \/ /\ c.list[c.index + 1] = FirstOf(l) /\ c.index = 0
               /\ Ahead(d) = Ahead(c)
            \/ /\ c.list[c.index + 1] = "lockProgress" /\ c.index # 0
               /\ Ahead(d) = Ahead(c)
            \/ /\ c.list[c.index + 1] \in Handlers
               /\ ~(c.index = 0 /\ Own(c) = 2)
               /\ Ahead(c) # <<>>
               /\ c.list[c.index + 1] = Head(Ahead(c)) /\ Ahead(d) = Tail(Ahead(c))
<1> DEFINE S == Handlers \cup OwnFunctions
<1>1. /\ c \in CallbacksOf(S) /\ c.list \in Seq(S) /\ Len(c.list) \in Nat
      /\ c.index \in Nat /\ c.length = Len(c.list) /\ c.memory # 0 /\ ~c.off
      /\ Own(c) \in {0, 2} /\ Own(c) <= Len(c.list)
  BY LenProperties DEF OutcomeOK, CallbacksOf, Own
<1> HIDE DEF S
<1>2. /\ d \in CallbacksOf(S)
      /\ d.list = c.list /\ d.memory = c.memory /\ d.firing /\ d.index = c.index + 1
      /\ d.start = c.start /\ d.length = c.length /\ d.off = c.off /\ d.locked = c.locked
  BY <1>1, NextIndex
<1>3. Own(d) = Own(c)
  BY <1>2 DEF Own
<1>4. OutcomeOK(l, d)
  BY <1>1, <1>2, <1>3 DEF OutcomeOK, S
<1>5. CASE c.index < Own(c)
  <2>1. Own(c) = 2 /\ c.index \in {0, 1} /\ d.index <= 2
    BY <1>1, <1>2, <1>5
  <2>2. /\ Ahead(d) = SubSeq(c.list, 3, Len(c.list))
        /\ Ahead(c) = SubSeq(c.list, 3, Len(c.list))
    <3>1. ~(d.index > 2) /\ ~(c.index > 2)
      BY <2>1, <1>2
    <3> QED BY <2>1, <3>1, <1>2, <1>3 DEF Ahead
  <2>3. /\ c.index = 0 => c.list[c.index + 1] = FirstOf(l)
        /\ c.index # 0 => c.list[c.index + 1] = "lockProgress"
    BY <2>1 DEF OutcomeOK
  <2> QED BY <1>2, <1>4, <2>2, <2>3
<1>6. CASE ~(c.index < Own(c))
  <2>1. c.index >= Own(c) /\ c.index \in 0 .. Len(c.list) - 1
    BY <1>1, <1>6
  <2>2. c.list[c.index + 1] \in Handlers
    BY <1>1, <2>1 DEF OutcomeOK
  <2>3. Ahead(c) = SubSeq(c.list, c.index + 1, Len(c.list))
    <3>1. (IF c.firing /\ c.index > Own(c) THEN c.index ELSE Own(c)) = c.index
      BY <1>1, <2>1
    <3> QED BY <3>1 DEF Ahead
  <2>4. Ahead(d) = SubSeq(c.list, c.index + 2, Len(c.list))
    <3>1. (IF d.firing /\ d.index > Own(d) THEN d.index ELSE Own(d)) = c.index + 1
      BY <1>1, <1>2, <1>3, <2>1
    <3>2. (c.index + 1) + 1 = c.index + 2
      BY <1>1
    <3> QED BY <3>1, <3>2, <1>2 DEF Ahead
  <2>5. ~(c.index = 0 /\ Own(c) = 2)
    BY <2>1, <1>1
  <2>6. /\ Ahead(c) # <<>> /\ Head(Ahead(c)) = c.list[c.index + 1]
        /\ Tail(Ahead(c)) = Ahead(d)
    BY <1>1, <2>1, <2>3, <2>4, NextAhead
  <2> QED BY <1>2, <1>4, <2>2, <2>5, <2>6
<1> QED BY <1>5, <1>6

(* The loop ends when the last handler is called and leaves none ahead.    *)
LEMMA EndKeeps ==
  ASSUME NEW l \in Outcomes, NEW c, OutcomeOK(l, c), c.firing,
         c.off \/ c.index >= c.length
  PROVE  /\ OutcomeOK(l, ended(l, c))
         /\ ended(l, c).memory = c.memory /\ ended(l, c).off = c.off
         /\ ~ended(l, c).firing
         /\ Ahead(c) = <<>> /\ Ahead(ended(l, c)) = <<>>
         /\ ~(c.index = 0 /\ Own(c) = 2)
<1> DEFINE S == Handlers \cup OwnFunctions
           d == ended(l, c)
<1>1. /\ c \in CallbacksOf(S) /\ c.list \in Seq(S) /\ Len(c.list) \in Nat
      /\ c.index = Len(c.list) /\ c.memory # 0 /\ ~c.off /\ c.locked = c.off
      /\ c.start = 0
      /\ Own(c) \in {0, 2} /\ Own(c) <= Len(c.list)
  BY LenProperties DEF OutcomeOK, CallbacksOf, Own
<1> HIDE DEF S
<1>2. /\ d \in CallbacksOf(S) /\ d.list = <<>> /\ d.memory = c.memory /\ ~d.firing
      /\ d.off = c.off /\ d.locked = c.locked /\ d.start = 0
  BY <1>1, EmptySeq DEF ended, CallbacksOf, Outcomes, Once
<1> HIDE DEF d
<1>3. Own(d) = 0 /\ Len(d.list) = 0
  BY <1>2, EmptySeq DEF Own
<1>4. OutcomeOK(l, d)
  BY <1>1, <1>2, <1>3 DEF OutcomeOK, S
<1>5. Ahead(c) = <<>>
  <2>1. (IF c.firing /\ c.index > Own(c) THEN c.index ELSE Own(c)) = Len(c.list)
    BY <1>1
  <2> QED BY <2>1, <1>1, SubSeqEmpty DEF Ahead
<1>6. Ahead(d) = <<>>
  BY <1>2, <1>3, SubSeqEmpty DEF Ahead
<1>7. ~(c.index = 0 /\ Own(c) = 2)
  BY <1>1
<1> QED BY <1>1, <1>2, <1>4, <1>5, <1>6, <1>7 DEF d

-----------------------------------------------------------------------------
(* The list of progress.                                                   *)

(* lock keeps the list of progress as it must be, and its firing.          *)
LEMMA ProgressLocks ==
  ASSUME NEW c, ProgressOK(c)
  PROVE  ProgressOK(lock(c)) /\ lock(c).firing = c.firing
<1>1. c \in CallbacksOf(Watchers)
  BY DEF ProgressOK
<1>2. CASE c.memory = 0
  <2> DEFINE d == disable(c)
  <2>1. d \in CallbacksOf(Watchers) /\ d.firing = c.firing /\ d.off
    BY <1>1, EmptySeq DEF disable, CallbacksOf
  <2> HIDE DEF d
  <2>2. lock(c) = d
    BY <1>2 DEF lock, d
  <2> QED BY <2>1, <2>2 DEF ProgressOK
<1>3. CASE c.memory # 0
  <2> DEFINE d == [c EXCEPT !.stack = <<>>, !.locked = TRUE]
  <2>1. /\ d \in CallbacksOf(Watchers) /\ d.firing = c.firing /\ d.off = c.off
        /\ d.length = c.length /\ d.list = c.list
    BY <1>1, EmptySeq DEF CallbacksOf
  <2> HIDE DEF d
  <2>2. lock(c) = d
    BY <1>3 DEF lock, d
  <2> QED BY <2>1, <2>2 DEF ProgressOK
<1> QED BY <1>2, <1>3

(* The loop of progress calls watchers only.                               *)
LEMMA ProgressCalls ==
  ASSUME NEW c, ProgressOK(c), c.firing, ~c.off, c.index < c.length,
         NEW d, d = CountedOn(c)
  PROVE  ProgressOK(d) /\ d.firing /\ c.list[c.index + 1] \in Watchers
<1>1. c \in CallbacksOf(Watchers) /\ c.list \in Seq(Watchers) /\ Len(c.list) \in Nat
  BY LenProperties DEF ProgressOK, CallbacksOf
<1>2. c.index \in Nat /\ c.length \in Nat /\ c.length <= Len(c.list)
  BY <1>1 DEF ProgressOK, CallbacksOf
<1>4. c \in CallbacksOf(Watchers)
  BY <1>1
<1>5. /\ d \in CallbacksOf(Watchers)
      /\ d.list = c.list /\ d.memory = c.memory /\ d.firing = c.firing
      /\ d.index = c.index + 1 /\ d.start = c.start /\ d.length = c.length
      /\ d.off = c.off /\ d.locked = c.locked
  BY <1>4, NextIndex, ZenonT(60)
<1>6. c.index + 1 \in 1 .. Len(c.list)
  BY <1>1, <1>2
<1>7. c.list[c.index + 1] \in Watchers
  BY <1>1, <1>6, ElementOfSeq
<1> QED BY <1>5, <1>7 DEF ProgressOK

(* fire begins with as many functions as there are.                        *)
LEMMA ProgressFires ==
  ASSUME NEW c \in CallbacksOf(Watchers), NEW value \in Nat
  PROVE  ProgressOK(fire(c, value)) /\ fire(c, value).firing
<1> DEFINE d == fire(c, value)
<1>1. c.list \in Seq(Watchers) /\ Len(c.list) \in Nat /\ c.start \in Nat
  BY LenProperties DEF CallbacksOf
<1>2. d \in CallbacksOf(Watchers) /\ d.firing /\ d.length = Len(c.list) /\ d.list = c.list
  BY <1>1 DEF CallbacksOf, fire
<1> HIDE DEF d
<1>3. ProgressOK(d)
  BY <1>1, <1>2 DEF ProgressOK
<1> QED BY <1>2, <1>3 DEF d

(* A notice is fired, put on the stack, or lost on a locked list.          *)
LEMMA ProgressNotified ==
  ASSUME NEW c, ProgressOK(c), NEW value \in Nat
  PROVE  /\ ProgressOK(fireWith("progress", c, value))
         /\ fireWith("progress", c, value).firing
              <=> c.firing \/ fires("progress", c)
<1>1. c \in CallbacksOf(Watchers)
  BY DEF ProgressOK
<1>2. CASE fires("progress", c)
  <2>1. fireWith("progress", c, value) = fire(c, value)
    BY <1>2 DEF fireWith, fires
  <2> QED BY <1>1, <1>2, <2>1, ProgressFires
<1>3. CASE ~fires("progress", c) /\ ~c.locked /\ c.firing
  <2> DEFINE d == [c EXCEPT !.stack = Append(@, value)]
  <2>1. Append(c.stack, value) \in Seq(Nat)
    BY <1>1, AppendProperties DEF CallbacksOf
  <2>2. /\ d \in CallbacksOf(Watchers) /\ d.firing = c.firing /\ d.off = c.off
        /\ d.length = c.length /\ d.list = c.list
    BY <1>1, <2>1 DEF CallbacksOf
  <2> HIDE DEF d
  <2>3. fireWith("progress", c, value) = d
    BY <1>3 DEF fireWith, Once, d
  <2> QED BY <1>3, <2>2, <2>3 DEF ProgressOK
<1>4. CASE ~fires("progress", c) /\ ~(~c.locked /\ c.firing)
  <2>1. fireWith("progress", c, value) = c
    BY <1>4 DEF fireWith
  <2> QED BY <1>4, <2>1
<1> QED BY <1>2, <1>3, <1>4

(* A watcher is added and, once there is memory, called.                   *)
LEMMA ProgressAdds ==
  ASSUME NEW c, ProgressOK(c), NEW w \in Watchers
  PROVE  ProgressOK(add(c, w)) /\ (add(c, w).firing <=> c.firing \/ addFires(c))
<1> DEFINE t == Append(c.list, w)
           d == longer(c, w)
<1>1. c \in CallbacksOf(Watchers) /\ c.list \in Seq(Watchers) /\ Len(c.list) \in Nat
  BY LenProperties DEF ProgressOK, CallbacksOf
<1>2. t \in Seq(Watchers) /\ Len(t) = Len(c.list) + 1
  BY <1>1, AppendProperties
<1> HIDE DEF t
<1>3. /\ d \in CallbacksOf(Watchers) /\ d.firing = c.firing /\ d.off = c.off
      /\ d.length = c.length /\ d.list = t
  BY <1>1, <1>2 DEF longer, CallbacksOf, t
<1> HIDE DEF d
<1>4. CASE c.off
  <2>1. add(c, w) = c /\ ~addFires(c)
    BY <1>4 DEF add, addFires
  <2> QED BY <2>1
<1>5. CASE ~c.off /\ c.firing
  <2>1. PICK n \in Nat : n = Len(c.list) + 1
    BY <1>1
  <2>2. add(c, w) = [d EXCEPT !.length = n]
    BY <1>5, <2>1 DEF add, addFires, d
  <2>3. PICK e : e = [d EXCEPT !.length = n]
    OBVIOUS
  <2>4. /\ e \in CallbacksOf(Watchers) /\ e.firing = d.firing /\ e.off = d.off
        /\ e.length = n /\ e.list = d.list
    BY <1>3, <2>1, <2>3, SetLength
  <2>5. ProgressOK(e)
    BY <1>1, <1>2, <1>3, <2>1, <2>4 DEF ProgressOK
  <2> QED BY <1>3, <1>5, <2>2, <2>3, <2>4, <2>5
<1>6. CASE addFires(c)
  <2> DEFINE begun == [d EXCEPT !.start = Len(c.list)]
  <2>1. add(c, w) = fire(begun, c.memory)
    BY <1>6 DEF add, addFires, d
  <2>2. begun \in CallbacksOf(Watchers) /\ c.memory \in Nat
    BY <1>1, <1>3 DEF CallbacksOf
  <2> HIDE DEF begun
  <2> QED BY <1>6, <2>1, <2>2, ProgressFires
<1>7. CASE ~c.off /\ ~c.firing /\ ~addFires(c)
  <2>1. add(c, w) = d
    BY <1>7 DEF add, d
  <2> QED BY <1>3, <1>7, <2>1 DEF ProgressOK
<1> QED BY <1>4, <1>5, <1>6, <1>7

(* At its end the loop goes on with the stack, or stops.                   *)
LEMMA ProgressEnds ==
  ASSUME NEW c, ProgressOK(c)
  PROVE  ProgressOK(ended("progress", c))
<1> DEFINE still == [c EXCEPT !.firing = FALSE]
           popped == [still EXCEPT !.stack = Tail(@)]
<1>1. c \in CallbacksOf(Watchers) /\ c.stack \in Seq(Nat)
  BY DEF ProgressOK, CallbacksOf
<1>2. still \in CallbacksOf(Watchers) /\ ~still.firing /\ still.stack = c.stack
  BY <1>1 DEF CallbacksOf
<1> HIDE DEF still
<1>3. ProgressOK(still)
  BY <1>2 DEF ProgressOK
<1>4. CASE c.off
  <2>1. ended("progress", c) = still
    BY <1>4 DEF ended, still
  <2> QED BY <1>3, <2>1
<1>5. CASE ~c.off /\ c.stack # <<>>
  <2>1. Head(c.stack) \in Nat /\ Tail(c.stack) \in Seq(Nat)
    BY <1>1, <1>5, HeadTailProperties
  <2>2. popped \in CallbacksOf(Watchers) /\ ~popped.firing
    BY <1>2, <2>1 DEF CallbacksOf
  <2>3. ended("progress", c) = fireWith("progress", popped, Head(c.stack))
    BY <1>5 DEF ended, Once, still
  <2> HIDE DEF popped
  <2>4. ProgressOK(popped)
    BY <2>2 DEF ProgressOK
  <2> QED BY <2>1, <2>3, <2>4, ProgressNotified
<1>6. CASE ~c.off /\ ~(c.stack # <<>>)
  <2>1. ended("progress", c) = still
    BY <1>6 DEF ended, Once, still
  <2> QED BY <1>3, <2>1
<1> QED BY <1>4, <1>5, <1>6

-----------------------------------------------------------------------------
(* The calls under way.                                                    *)

Running == Handlers \cup Watchers \cup OwnFunctions \cup {""}
Frames == [list : Lists, running : Running]

\* Each call is of a list that fires, and of one each.
FramesOK(b, fs) ==
  /\ fs \in Seq(Frames)
  /\ \A i \in 1 .. Len(fs) : b[fs[i].list].firing
  /\ \A i, j \in 1 .. Len(fs) : i # j => fs[i].list # fs[j].list

(* A call under way is of a list that fires.                               *)
LEMMA OfLists ==
  ASSUME NEW b, NEW fs, FramesOK(b, fs), NEW i \in 1 .. Len(fs)
  PROVE  fs[i] \in Frames /\ fs[i].list \in Lists /\ b[fs[i].list].firing
<1>1. fs[i] \in Frames
  BY ElementOfSeq DEF FramesOK
<1> QED BY <1>1 DEF FramesOK, Frames

(* An element before the others.                                           *)
LEMMA PushedFirst ==
  ASSUME NEW S, NEW s \in Seq(S), NEW x \in S
  PROVE  LET t == <<x>> \o s
         IN /\ t \in Seq(S) /\ t # <<>> /\ Len(t) = Len(s) + 1 /\ Head(t) = x
            /\ t[1] = x /\ \A i \in 1 .. Len(s) : t[i + 1] = s[i]
<1>1. <<x>> \in Seq(S) /\ Len(<<x>>) = 1 /\ <<x>>[1] = x
  OBVIOUS
<1>2. PICK r : r = <<x>>
  OBVIOUS
<1>3. r \in Seq(S) /\ Len(r) = 1 /\ r[1] = x
  BY <1>1, <1>2
<1>4. PICK t : t = r \o s
  OBVIOUS
<1>5. /\ t \in Seq(S) /\ Len(t) = 1 + Len(s)
      /\ \A i \in 1 .. 1 + Len(s) : t[i] = IF i <= 1 THEN r[i] ELSE s[i - 1]
  <2>1. /\ r \o s \in Seq(S) /\ Len(r \o s) = Len(r) + Len(s)
        /\ \A i \in 1 .. Len(r) + Len(s) :
             (r \o s)[i] = IF i <= Len(r) THEN r[i] ELSE s[i - Len(r)]
    BY <1>3, ConcatProperties
  <2> QED BY <2>1, <1>3, <1>4
<1>6. Len(s) \in Nat
  BY LenProperties
<1>7. t[1] = x
  BY <1>3, <1>5, <1>6
<1>8. ASSUME NEW i \in 1 .. Len(s) PROVE t[i + 1] = s[i]
  <2>1. i + 1 \in 1 .. 1 + Len(s) /\ ~(i + 1 <= 1) /\ (i + 1) - 1 = i
    BY <1>6
  <2> QED BY <2>1, <1>5
<1>9. t # <<>>
  BY <1>5, <1>6, EmptySeq
<1>10. Head(t) = x
  BY <1>5, <1>7, <1>9
<1> QED BY <1>2, <1>4, <1>5, <1>6, <1>7, <1>8, <1>9, <1>10

(* A list begins to fire: its call is the innermost.                       *)
LEMMA Enters ==
  ASSUME NEW b, NEW d, NEW fs, NEW gs, FramesOK(b, fs),
         NEW f \in Frames, ~b[f.list].firing, d[f.list].firing,
         \A m \in Lists : b[m].firing => d[m].firing,
         gs = <<f>> \o fs
  PROVE  FramesOK(d, gs) /\ gs # <<>> /\ Head(gs) = f
<1>2. fs \in Seq(Frames) /\ Len(fs) \in Nat
  BY LenProperties DEF FramesOK
<1>3. /\ gs \in Seq(Frames) /\ gs # <<>> /\ Len(gs) = Len(fs) + 1 /\ Head(gs) = f
      /\ gs[1] = f /\ \A i \in 1 .. Len(fs) : gs[i + 1] = fs[i]
  BY <1>2, PushedFirst
<1>4. \A i \in 1 .. Len(gs) : i # 1 => i - 1 \in 1 .. Len(fs) /\ gs[i] = fs[i - 1]
  <2> TAKE i \in 1 .. Len(gs)
  <2> HAVE i # 1
  <2>1. i - 1 \in 1 .. Len(fs) /\ (i - 1) + 1 = i
    BY <1>2, <1>3
  <2> QED BY <2>1, <1>3
<1>5. ASSUME NEW i \in 1 .. Len(fs)
      PROVE  fs[i].list \in Lists /\ b[fs[i].list].firing
  BY OfLists
<1>6. ASSUME NEW i \in 1 .. Len(gs)
      PROVE  d[gs[i].list].firing
  <2>1. CASE i = 1
    BY <2>1, <1>3
  <2>2. CASE i # 1
    BY <2>2, <1>4, <1>5
  <2> QED BY <2>1, <2>2
<1>7. ASSUME NEW i \in 1 .. Len(gs), NEW j \in 1 .. Len(gs), i # j
      PROVE  gs[i].list # gs[j].list
  <2>1. CASE i = 1
    <3>1. b[gs[j].list].firing
      BY <2>1, <1>4, <1>5, <1>7
    <3> QED BY <3>1, <2>1, <1>3
  <2>2. CASE j = 1
    <3>1. b[gs[i].list].firing
      BY <2>2, <1>4, <1>5, <1>7
    <3> QED BY <3>1, <2>2, <1>3
  <2>3. CASE i # 1 /\ j # 1
    <3>1. i - 1 # j - 1
      BY <1>7, <1>2, <1>3
    <3>2. /\ i - 1 \in 1 .. Len(fs) /\ gs[i] = fs[i - 1]
          /\ j - 1 \in 1 .. Len(fs) /\ gs[j] = fs[j - 1]
      BY <2>3, <1>4
    <3>3. fs[i - 1].list # fs[j - 1].list
      BY <3>1, <3>2 DEF FramesOK
    <3> QED BY <3>2, <3>3
  <2> QED BY <2>1, <2>2, <2>3
<1> QED BY <1>3, <1>6, <1>7 DEF FramesOK

(* Calls under way stay so while their lists fire.                         *)
LEMMA Stays ==
  ASSUME NEW b, NEW d, NEW fs, FramesOK(b, fs),
         \A m \in Lists : b[m].firing => d[m].firing
  PROVE  FramesOK(d, fs)
<1>1. \A i \in 1 .. Len(fs) : fs[i].list \in Lists
  BY OfLists
<1> QED BY <1>1 DEF FramesOK

(* The innermost call.                                                     *)
LEMMA FirstFrame ==
  ASSUME NEW b, NEW fs, FramesOK(b, fs), fs # <<>>
  PROVE  /\ Len(fs) \in Nat \ {0} /\ Head(fs) = fs[1] /\ fs[1] \in Frames
         /\ Head(fs).list \in Lists /\ b[Head(fs).list].firing
<1>1. fs \in Seq(Frames)
  BY DEF FramesOK
<1>2. Len(fs) \in Nat \ {0}
  BY <1>1, EmptySeq
<1>3. Head(fs) = fs[1]
  BY <1>1
<1>4. fs[1] \in Frames
  BY <1>1, <1>2, ElementOfSeq
<1> QED BY <1>2, <1>3, <1>4 DEF FramesOK, Frames

\* The innermost call runs f.
RunsNow(fs, f) == [fs EXCEPT ![1].running = f]

(* The innermost call runs a function of its list.                         *)
LEMMA Runs ==
  ASSUME NEW b, NEW d, NEW fs, NEW gs, NEW f \in Running, FramesOK(b, fs), fs # <<>>,
         \A m \in Lists : b[m].firing => d[m].firing,
         gs = RunsNow(fs, f)
  PROVE  /\ FramesOK(d, gs)
         /\ gs # <<>> /\ Head(gs).list = Head(fs).list /\ Head(gs).running = f
<1>1. fs \in Seq(Frames)
  BY DEF FramesOK
<1>2. /\ Len(fs) \in Nat \ {0} /\ 1 \in 1 .. Len(fs) /\ Head(fs) = fs[1] /\ fs[1] \in Frames
  BY FirstFrame
<1>3. PICK e : e = [fs[1] EXCEPT !.running = f]
  OBVIOUS
<1>4. e \in Frames /\ e.list = fs[1].list /\ e.running = f
  BY <1>2, <1>3 DEF Frames
<1>5. gs = [fs EXCEPT ![1] = e]
  BY <1>3 DEF RunsNow
<1>6. /\ gs \in Seq(Frames) /\ Len(gs) = Len(fs)
      /\ \A j \in 1 .. Len(fs) : gs[j] = IF j = 1 THEN e ELSE fs[j]
  BY <1>1, <1>2, <1>4, <1>5, ExceptSeq
<1>7. \A j \in 1 .. Len(fs) : gs[j].list = fs[j].list
  BY <1>4, <1>6
<1>8. FramesOK(b, gs)
  BY <1>6, <1>7 DEF FramesOK
<1>9. FramesOK(d, gs)
  BY <1>8, Stays
<1>10. gs # <<>>
  BY <1>2, <1>6, EmptySeq
<1>11. Head(gs) = e
  BY <1>2, <1>6, <1>10
<1> QED BY <1>2, <1>4, <1>9, <1>10, <1>11

(* The innermost call is over, and its list may have stopped.              *)
LEMMA Leaves ==
  ASSUME NEW b, NEW d, NEW fs, FramesOK(b, fs), fs # <<>>,
         \A m \in Lists : m # Head(fs).list /\ b[m].firing => d[m].firing
  PROVE  FramesOK(d, Tail(fs))
<1> DEFINE gs == Tail(fs)
<1>1. fs \in Seq(Frames) /\ Len(fs) \in Nat \ {0} /\ Head(fs) = fs[1]
  BY FirstFrame DEF FramesOK
<1>2. /\ gs \in Seq(Frames) /\ Len(gs) = Len(fs) - 1
      /\ \A i \in 1 .. Len(gs) : gs[i] = fs[i + 1]
  BY <1>1, HeadTailProperties
<1> HIDE DEF gs
<1>3. \A i \in 1 .. Len(gs) :
        /\ i + 1 \in 1 .. Len(fs) /\ i + 1 # 1 /\ 1 \in 1 .. Len(fs)
        /\ gs[i].list = fs[i + 1].list
  BY <1>1, <1>2
<1>4. \A i \in 1 .. Len(fs) : fs[i].list \in Lists /\ b[fs[i].list].firing
  BY OfLists
<1>5. \A i \in 1 .. Len(gs) : d[gs[i].list].firing
  <2> TAKE i \in 1 .. Len(gs)
  <2>1. fs[i + 1].list # fs[1].list
    BY <1>3 DEF FramesOK
  <2> QED BY <2>1, <1>1, <1>3, <1>4
<1>6. \A i, j \in 1 .. Len(gs) : i # j => gs[i].list # gs[j].list
  <2> TAKE i, j \in 1 .. Len(gs)
  <2> HAVE i # j
  <2>1. i + 1 # j + 1
    BY <1>2
  <2> QED BY <2>1, <1>3 DEF FramesOK
<1> QED BY <1>2, <1>5, <1>6 DEF FramesOK, gs

-----------------------------------------------------------------------------
(* The invariant.                                                          *)

\* A list has begun to fire and its first call, to come next, disables the other.
Disabling(b, fs, l) ==
  /\ fs # <<>> /\ Head(fs).list = l /\ Head(fs).running = ""
  /\ b[l].firing /\ b[l].index = 0 /\ Own(b[l]) = 2

\* A list that has fired has disabled the other or is about to, and no list is disabled
\* otherwise.
OnlyOne(b, fs) ==
  \A l \in Outcomes :
    /\ b[l].memory # 0 =>
         b[Other(l)].memory = 0 /\ (b[Other(l)].off \/ Disabling(b, fs, l))
    /\ b[l].off => b[Other(l)].memory # 0

DeferredOK(b, fs) ==
  /\ b = [l \in Lists |-> b[l]]
  /\ ProgressOK(b["progress"])
  /\ \A l \in Outcomes : OutcomeOK(l, b[l])
  /\ FramesOK(b, fs)
  /\ OnlyOne(b, fs)

DeferredInv == DeferredOK(cb, frames)

(* The lists.                                                              *)
LEMMA Others ==
  /\ \A l \in Outcomes : Other(l) \in Outcomes /\ Other(l) # l /\ Other(Other(l)) = l
  /\ \A l, m \in Outcomes : m = l \/ m = Other(l)
  /\ Outcomes \subseteq Lists /\ "progress" \in Lists /\ "progress" \notin Outcomes
BY DEF Outcomes, Other, Lists

(* One of the three lists is changed.                                      *)
LEMMA Changed ==
  ASSUME NEW b, b = [l \in Lists |-> b[l]], NEW k \in Lists, NEW x,
         NEW d, d = [b EXCEPT ![k] = x]
  PROVE  /\ d = [l \in Lists |-> d[l]]
         /\ d[k] = x /\ \A l \in Lists : l # k => d[l] = b[l]
OBVIOUS

(* A list is replaced by itself.                                           *)
LEMMA Unchanged ==
  ASSUME NEW b, b = [l \in Lists |-> b[l]], NEW k \in Lists
  PROVE  [b EXCEPT ![k] = b[k]] = b
OBVIOUS

(* While code of the page runs, a list that has fired has disabled the     *)
(* other.                                                                  *)
LEMMA WhilePageRuns ==
  ASSUME PageRuns
  PROVE  \A l \in Outcomes : ~Disabling(cb, frames, l)
<1>1. "" \notin Handlers \cup Watchers
  BY HandlersAssumption
<1>2. ASSUME NEW l \in Outcomes, Disabling(cb, frames, l) PROVE FALSE
  <2>1. frames # <<>> /\ Head(frames).running = ""
    BY <1>2 DEF Disabling
  <2> QED BY <2>1, <1>1 DEF PageRuns
<1> QED BY <1>2

-----------------------------------------------------------------------------
(* What the promise sees.                                                  *)

OutcomeOf(b) == CASE b["done"].memory # 0 -> "done"
                  [] b["fail"].memory # 0 -> "fail"
                  [] OTHER -> "pending"

RemainingOf(b, l) == IF b[Other(l)].memory # 0 THEN <<>> ELSE Ahead(b[l])

(* The outcome is the list with memory.                                    *)
LEMMA OutcomeIs ==
  ASSUME NEW b, NEW fs, OnlyOne(b, fs)
  PROVE  /\ \A l \in Outcomes : OutcomeOf(b) = l <=> b[l].memory # 0
         /\ OutcomeOf(b) = "pending" <=> \A l \in Outcomes : b[l].memory = 0
<1>1. b["done"].memory # 0 => b["fail"].memory = 0
  BY DEF OnlyOne, Outcomes, Other
<1>2. CASE b["done"].memory # 0
  <2>1. OutcomeOf(b) = "done"
    BY <1>1, <1>2 DEF OutcomeOf
  <2> QED BY <1>1, <1>2, <2>1 DEF Outcomes
<1>3. CASE b["fail"].memory # 0
  <2>1. OutcomeOf(b) = "fail"
    BY <1>1, <1>3 DEF OutcomeOf
  <2> QED BY <1>1, <1>3, <2>1 DEF Outcomes
<1>4. CASE b["done"].memory = 0 /\ b["fail"].memory = 0
  <2>1. OutcomeOf(b) = "pending"
    BY <1>4 DEF OutcomeOf
  <2> QED BY <1>4, <2>1 DEF Outcomes
<1> QED BY <1>2, <1>3, <1>4

(* The state of the promise, here as operators of the lists.               *)
LEMMA Mapped ==
  /\ Outcome = OutcomeOf(cb) /\ Outcome' = OutcomeOf(cb')
  /\ \A l : Remaining(l) = RemainingOf(cb, l) /\ (Remaining(l))' = RemainingOf(cb', l)
BY DEF Outcome, OutcomeOf, Remaining, RemainingOf

(* A step that leaves memories and handlers alone.                         *)
LEMMA Stutters ==
  ASSUME called' = called,
         \A l \in Outcomes : cb'[l].memory = cb[l].memory
                               /\ RemainingOf(cb', l) = RemainingOf(cb, l)
  PROVE  UNCHANGED PromiseOf!promiseVars
<1>1. Outcome' = Outcome
  <2>1. /\ cb'["done"].memory = cb["done"].memory
        /\ cb'["fail"].memory = cb["fail"].memory
    BY DEF Outcomes
  <2> QED BY <2>1 DEF Outcome
<1>2. [l \in {"done", "fail"} |-> Remaining(l)]' = [l \in {"done", "fail"} |-> Remaining(l)]
  BY Mapped DEF Outcomes
<1> QED BY <1>1, <1>2 DEF PromiseOf!promiseVars

(* One list's handlers change, as Promise says it.                         *)
LEMMA Waits ==
  ASSUME NEW l \in Outcomes, NEW x, RemainingOf(cb', l) = x,
         RemainingOf(cb', Other(l)) = RemainingOf(cb, Other(l))
  PROVE  [k \in {"done", "fail"} |-> Remaining(k)]'
           = [[k \in {"done", "fail"} |-> Remaining(k)] EXCEPT ![l] = x]
<1>1. \A k \in {"done", "fail"} :
        RemainingOf(cb', k) = IF k = l THEN x ELSE RemainingOf(cb, k)
  BY Others DEF Outcomes
<1> QED BY <1>1, Mapped DEF Outcomes

-----------------------------------------------------------------------------
(* The steps.                                                              *)

(* done and fail.                                                          *)
LEMMA AddStep ==
  ASSUME DeferredInv, NEW l \in Outcomes, NEW h \in Handlers, Add(l, h)
  PROVE  DeferredInv' /\ (PromiseOf!PNext \/ UNCHANGED PromiseOf!promiseVars)
<1> DEFINE c == cb[l]
           d == add(c, h)
           o == Other(l)
<1>1. /\ cb = [k \in Lists |-> cb[k]] /\ OutcomeOK(l, c) /\ l \in Lists
      /\ o \in Outcomes /\ o \in Lists /\ o # l
      /\ cb' = [cb EXCEPT ![l] = d] /\ called' = called
  BY Others DEF DeferredInv, DeferredOK, Add
<1>2. CASE c.off
  <2>1. d = c /\ ~addFires(c)
    BY <1>2 DEF add, addFires
  <2>2. cb' = cb
    BY <1>1, <2>1, Unchanged
  <2>3. frames' = frames
    BY <2>1 DEF Add
  <2>4. UNCHANGED PromiseOf!promiseVars
    BY <1>1, <2>2, Stutters
  <2> QED BY <2>2, <2>3, <2>4 DEF DeferredInv
<1>3. CASE ~c.off
  <2>1. /\ OutcomeOK(l, d) /\ d.memory = c.memory /\ ~d.off
        /\ (d.firing <=> c.firing \/ addFires(c))
        /\ Ahead(d) = Append(Ahead(c), h)
    BY <1>1, <1>3, AddKeeps
  <2>2. /\ cb' = [k \in Lists |-> cb'[k]]
        /\ cb'[l] = d /\ \A k \in Lists : k # l => cb'[k] = cb[k]
    BY <1>1, Changed
  <2> HIDE DEF d
  <2>3. \A k \in Lists : cb[k].firing => cb'[k].firing
    BY <2>1, <2>2
  <2>4. FramesOK(cb, frames)
    BY DEF DeferredInv, DeferredOK
  <2>5. FramesOK(cb', frames')
    <3>1. CASE addFires(c)
      <4> DEFINE f == [list |-> l, running |-> ""]
      <4>1. f \in Frames /\ f.list = l
        BY <1>1 DEF Frames, Running
      <4>2. frames' = <<f>> \o frames
        BY <3>1 DEF Add, Enter
      <4> HIDE DEF f
      <4>3. ~cb[f.list].firing /\ cb'[f.list].firing
        BY <3>1, <4>1, <2>1, <2>2 DEF addFires
      <4> QED BY <2>3, <2>4, <4>1, <4>2, <4>3, Enters
    <3>2. CASE ~addFires(c)
      <4>1. frames' = frames
        BY <3>2 DEF Add
      <4> QED BY <2>3, <2>4, <4>1, Stays
    <3> QED BY <3>1, <3>2
  <2>6. /\ c.memory # 0 => cb[o].memory = 0 /\ cb[o].off
        /\ cb[o].memory = 0
        /\ cb[o].off => c.memory # 0
    BY <1>1, <1>3, Others, WhilePageRuns DEF DeferredInv, DeferredOK, OnlyOne, Add
  <2>7. OnlyOne(cb', frames')
    <3> SUFFICES ASSUME NEW k \in Outcomes
                 PROVE  /\ cb'[k].memory # 0 => cb'[Other(k)].memory = 0 /\ cb'[Other(k)].off
                        /\ cb'[k].off => cb'[Other(k)].memory # 0
      BY DEF OnlyOne
    <3>1. CASE k = l
      BY <3>1, <1>1, <2>1, <2>2, <2>6
    <3>2. CASE k = o
      BY <3>2, <1>1, <2>1, <2>2, <2>6, Others
    <3> QED BY <3>1, <3>2, Others
  <2>8. DeferredInv'
    <3>1. \A k \in Outcomes : OutcomeOK(k, cb'[k])
      BY <2>1, <2>2, Others DEF DeferredInv, DeferredOK
    <3>2. ProgressOK(cb'["progress"])
      BY <2>2, Others DEF DeferredInv, DeferredOK
    <3> QED BY <2>2, <2>5, <2>7, <3>1, <3>2 DEF DeferredInv, DeferredOK
  <2>9. PromiseOf!Give(l, h)
    <3>1. Outcome \in {"pending", l}
      <4>1. OnlyOne(cb, frames)
        BY DEF DeferredInv, DeferredOK
      <4> QED BY <4>1, <2>6, OutcomeIs, Mapped, Others
    <3>2. Outcome' = Outcome
      <4>1. \A k \in Outcomes : cb'[k].memory = cb[k].memory
        BY <2>1, <2>2, Others
      <4> QED BY <4>1 DEF Outcome, Outcomes
    <3>3. RemainingOf(cb', l) = Append(RemainingOf(cb, l), h)
      BY <1>1, <2>1, <2>2, <2>6 DEF RemainingOf
    <3>4. RemainingOf(cb', o) = RemainingOf(cb, o)
      BY <1>1, <2>1, <2>2, Others DEF RemainingOf
    <3>5. [k \in {"done", "fail"} |-> Remaining(k)]'
            = [[k \in {"done", "fail"} |-> Remaining(k)]
                 EXCEPT ![l] = Append(RemainingOf(cb, l), h)]
      BY <3>3, <3>4, Waits
    <3>6. [k \in {"done", "fail"} |-> Remaining(k)][l] = RemainingOf(cb, l)
      BY Mapped DEF Outcomes
    <3> QED BY <1>1, <3>1, <3>2, <3>5, <3>6 DEF PromiseOf!Give
  <2> QED BY <2>8, <2>9 DEF PromiseOf!PNext, Outcomes
<1> QED BY <1>2, <1>3

(* A step of progress does not disturb the others.                         *)
LEMMA ProgressOnly ==
  ASSUME DeferredInv, NEW x, ProgressOK(x), cb' = [cb EXCEPT !["progress"] = x],
         called' = called, FramesOK(cb', frames'),
         \A l \in Outcomes : ~Disabling(cb, frames, l)
  PROVE  DeferredInv' /\ UNCHANGED PromiseOf!promiseVars
<1>1. cb = [k \in Lists |-> cb[k]]
  BY DEF DeferredInv, DeferredOK
<1>2. /\ cb' = [k \in Lists |-> cb'[k]]
      /\ cb'["progress"] = x /\ \A k \in Outcomes : cb'[k] = cb[k]
  BY <1>1, Changed, Others
<1>3. OnlyOne(cb', frames')
  <2> SUFFICES ASSUME NEW k \in Outcomes
               PROVE  /\ cb'[k].memory # 0 => cb'[Other(k)].memory = 0 /\ cb'[Other(k)].off
                      /\ cb'[k].off => cb'[Other(k)].memory # 0
    BY DEF OnlyOne
  <2> QED BY <1>2, Others DEF DeferredInv, DeferredOK, OnlyOne
<1>4. \A k \in Outcomes : OutcomeOK(k, cb'[k])
  BY <1>2 DEF DeferredInv, DeferredOK
<1>5. \A k \in Outcomes : RemainingOf(cb', k) = RemainingOf(cb, k)
  BY <1>2, Others DEF RemainingOf
<1> QED BY <1>2, <1>3, <1>4, <1>5, Stutters DEF DeferredInv, DeferredOK

(* A list that begins to fire becomes the innermost call.                  *)
LEMMA EnterStep ==
  ASSUME NEW l \in Lists, FramesOK(cb, frames), Enter(l), ~cb[l].firing, cb'[l].firing,
         \A k \in Lists : cb[k].firing => cb'[k].firing
  PROVE  /\ FramesOK(cb', frames')
         /\ frames' # <<>> /\ Head(frames').list = l /\ Head(frames').running = ""
<1> DEFINE f == [list |-> l, running |-> ""]
<1>1. f \in Frames /\ f.list = l /\ f.running = ""
  BY DEF Frames, Running
<1>2. frames' = <<f>> \o frames
  BY DEF Enter
<1> HIDE DEF f
<1>3. FramesOK(cb', frames') /\ frames' # <<>> /\ Head(frames') = f
  BY <1>1, <1>2, Enters
<1> QED BY <1>1, <1>3

(* progress.                                                               *)
LEMMA WatchStep ==
  ASSUME DeferredInv, NEW w \in Watchers, Add("progress", w)
  PROVE  DeferredInv' /\ UNCHANGED PromiseOf!promiseVars
<1> DEFINE c == cb["progress"]
           d == add(c, w)
<1>1. /\ cb = [k \in Lists |-> cb[k]] /\ ProgressOK(c) /\ FramesOK(cb, frames)
      /\ cb' = [cb EXCEPT !["progress"] = d] /\ called' = called
  BY DEF DeferredInv, DeferredOK, Add
<1>2. ProgressOK(d) /\ (d.firing <=> c.firing \/ addFires(c))
  BY <1>1, ProgressAdds
<1> HIDE DEF d
<1>3. cb'["progress"] = d /\ \A k \in Lists : k # "progress" => cb'[k] = cb[k]
  BY <1>1, Changed, Others
<1>4. \A k \in Lists : cb[k].firing => cb'[k].firing
  BY <1>2, <1>3
<1>5. FramesOK(cb', frames')
  <2>1. CASE addFires(c)
    <3>1. Enter("progress") /\ ~c.firing /\ cb'["progress"].firing
      BY <2>1, <1>2, <1>3 DEF Add, addFires
    <3> QED BY <3>1, <1>1, <1>4, Others, EnterStep
  <2>2. CASE ~addFires(c)
    <3>1. frames' = frames
      BY <2>2 DEF Add
    <3> QED BY <3>1, <1>1, <1>4, Stays
  <2> QED BY <2>1, <2>2
<1>6. \A l \in Outcomes : ~Disabling(cb, frames, l)
  BY WhilePageRuns DEF Add
<1> QED BY <1>1, <1>2, <1>5, <1>6, ProgressOnly

(* notify.                                                                 *)
LEMMA NotifyStep ==
  ASSUME DeferredInv, notices \in Nat, Notify
  PROVE  DeferredInv' /\ UNCHANGED PromiseOf!promiseVars
<1> DEFINE c == cb["progress"]
           n == notices + 1
           d == fireWith("progress", c, n)
<1>1. /\ cb = [k \in Lists |-> cb[k]] /\ ProgressOK(c) /\ FramesOK(cb, frames)
      /\ cb' = [cb EXCEPT !["progress"] = d] /\ called' = called
  BY DEF DeferredInv, DeferredOK, Notify
<1>2. n \in Nat
  OBVIOUS
<1> HIDE DEF n
<1>3. ProgressOK(d) /\ (d.firing <=> c.firing \/ fires("progress", c))
  BY <1>1, <1>2, ProgressNotified
<1> HIDE DEF d
<1>4. cb'["progress"] = d /\ \A k \in Lists : k # "progress" => cb'[k] = cb[k]
  BY <1>1, Changed, Others
<1>5. \A k \in Lists : cb[k].firing => cb'[k].firing
  BY <1>3, <1>4
<1>6. FramesOK(cb', frames')
  <2>1. CASE fires("progress", c)
    <3>1. Enter("progress") /\ ~c.firing /\ cb'["progress"].firing
      BY <2>1, <1>3, <1>4 DEF Notify, fires
    <3> QED BY <3>1, <1>1, <1>5, Others, EnterStep
  <2>2. CASE ~fires("progress", c)
    <3>1. frames' = frames
      BY <2>2 DEF Notify
    <3> QED BY <3>1, <1>1, <1>5, Stays
  <2> QED BY <2>1, <2>2
<1>7. \A l \in Outcomes : ~Disabling(cb, frames, l)
  BY WhilePageRuns DEF Notify
<1> QED BY <1>1, <1>3, <1>6, <1>7, ProgressOnly

(* resolve and reject.                                                     *)
LEMMA SettleStep ==
  ASSUME DeferredInv, NEW l \in Outcomes, Settle(l)
  PROVE  DeferredInv' /\ (PromiseOf!PNext \/ UNCHANGED PromiseOf!promiseVars)
<1> DEFINE c == cb[l]
           d == fireWith(l, c, 1)
           o == Other(l)
<1>1. /\ cb = [k \in Lists |-> cb[k]] /\ OutcomeOK(l, c) /\ l \in Lists
      /\ o \in Outcomes /\ o \in Lists /\ o # l
      /\ cb' = [cb EXCEPT ![l] = d] /\ called' = called
      /\ FramesOK(cb, frames) /\ OnlyOne(cb, frames)
  BY Others DEF DeferredInv, DeferredOK, Settle
<1>2. CASE ~fires(l, c)
  <2>1. d = c
    BY <1>2 DEF fireWith, fires, Outcomes, Once
  <2>2. cb' = cb
    BY <1>1, <2>1, Unchanged
  <2>3. frames' = frames
    BY <1>2 DEF Settle
  <2>4. UNCHANGED PromiseOf!promiseVars
    BY <1>1, <2>2, Stutters
  <2> QED BY <2>2, <2>3, <2>4 DEF DeferredInv
<1>3. CASE fires(l, c)
  <2>1. /\ OutcomeOK(l, d) /\ d.memory = 1 /\ ~d.off
        /\ d.firing /\ d.index = 0 /\ Own(d) = 2 /\ Ahead(d) = Ahead(c)
        /\ c.memory = 0 /\ ~c.off /\ ~c.firing
    <3>1. d = fire(c, 1)
      BY <1>3 DEF fireWith, fires
    <3> QED BY <3>1, <1>1, <1>3, FireKeeps DEF fires
  <2> HIDE DEF d
  <2>2. /\ cb' = [k \in Lists |-> cb'[k]]
        /\ cb'[l] = d /\ \A k \in Lists : k # l => cb'[k] = cb[k]
    BY <1>1, Changed
  <2>3. /\ FramesOK(cb', frames')
        /\ frames' # <<>> /\ Head(frames').list = l /\ Head(frames').running = ""
    <3>1. Enter(l) /\ \A k \in Lists : cb[k].firing => cb'[k].firing
      BY <1>3, <2>1, <2>2 DEF Settle
    <3> QED BY <3>1, <1>1, <2>1, <2>2, EnterStep
  <2>4. cb[o].memory = 0 /\ ~cb[o].off
    BY <1>1, <2>1, Others, WhilePageRuns DEF OnlyOne, Settle
  <2>5. OnlyOne(cb', frames')
    <3>1. Disabling(cb', frames', l)
      BY <2>1, <2>2, <2>3 DEF Disabling
    <3> SUFFICES ASSUME NEW k \in Outcomes
                 PROVE  /\ cb'[k].memory # 0 =>
                             cb'[Other(k)].memory = 0
                               /\ (cb'[Other(k)].off \/ Disabling(cb', frames', k))
                        /\ cb'[k].off => cb'[Other(k)].memory # 0
      BY DEF OnlyOne
    <3>2. CASE k = l
      BY <3>1, <3>2, <1>1, <2>1, <2>2, <2>4
    <3>3. CASE k = o
      BY <3>3, <1>1, <2>2, <2>4
    <3> QED BY <3>2, <3>3, Others
  <2>6. DeferredInv'
    <3>1. \A k \in Outcomes : OutcomeOK(k, cb'[k])
      BY <2>1, <2>2, Others DEF DeferredInv, DeferredOK
    <3>2. ProgressOK(cb'["progress"])
      BY <2>2, Others DEF DeferredInv, DeferredOK
    <3> QED BY <2>2, <2>3, <2>5, <3>1, <3>2 DEF DeferredInv, DeferredOK
  <2>7. PromiseOf!Settle(l)
    <3>1. Outcome = "pending" /\ Outcome' = l
      BY <1>1, <2>1, <2>2, <2>4, <2>5, OutcomeIs, Mapped, Others
    <3>2. RemainingOf(cb', l) = RemainingOf(cb, l) /\ RemainingOf(cb', o) = <<>>
      BY <1>1, <2>1, <2>2, <2>4, Others DEF RemainingOf
    <3>3. [k \in {"done", "fail"} |-> Remaining(k)]'
            = [k \in {"done", "fail"} |->
                 IF k = l THEN [m \in {"done", "fail"} |-> Remaining(m)][k] ELSE <<>>]
      <4>1. \A k \in {"done", "fail"} :
              RemainingOf(cb', k) = IF k = l THEN RemainingOf(cb, k) ELSE <<>>
        BY <3>2, Others DEF Outcomes
      <4> QED BY <4>1, Mapped
    <3> QED BY <1>1, <3>1, <3>3 DEF PromiseOf!Settle
  <2> QED BY <2>6, <2>7 DEF PromiseOf!PNext, Outcomes
<1> QED BY <1>2, <1>3

(* A function has been called: what it did to the lists is told by cases.  *)
LEMMA CallStep ==
  ASSUME DeferredInv, CallFunction
  PROVE  DeferredInv' /\ (PromiseOf!PNext \/ UNCHANGED PromiseOf!promiseVars)
<1> DEFINE l == Head(frames).list
           c == cb[l]
           f == c.list[c.index + 1]
           e == [c EXCEPT !.index = @ + 1]
           mid == [cb EXCEPT ![l] = e]
           o == Other(l)
<1>1. /\ cb = [k \in Lists |-> cb[k]] /\ l \in Lists /\ c.firing
      /\ frames # <<>> /\ FramesOK(cb, frames) /\ OnlyOne(cb, frames)
      /\ ProgressOK(cb["progress"])
      /\ ~c.off /\ c.index < c.length
      /\ cb' = Effect(f, mid)
      /\ frames' = [frames EXCEPT ![1].running = f]
      /\ called' = IF f \in Handlers THEN Append(called, f) ELSE called
  BY FirstFrame DEF CallFunction, Firing, DeferredInv, DeferredOK
<1>2. /\ mid = [k \in Lists |-> mid[k]]
      /\ mid[l] = e /\ \A k \in Lists : k # l => mid[k] = cb[k]
  BY <1>1, Changed
<1>3. \A g : g \notin OwnFunctions => Effect(g, mid) = mid
  BY DEF Effect, OwnFunctions
<1>6. /\ e = CountedOn(c) /\ f = c.list[c.index + 1]
      /\ mid = [cb EXCEPT ![l] = e]
  BY DEF CountedOn
<1> HIDE DEF e, f, mid
<1>7. ASSUME f \in Running, \A k \in Lists : cb[k].firing => cb'[k].firing
      PROVE  FramesOK(cb', frames')
  <2>1. /\ FramesOK(cb, frames) /\ frames # <<>>
        /\ frames' = RunsNow(frames, f)
    BY <1>1 DEF RunsNow
  <2> QED BY <2>1, <1>7, Runs
<1>4. CASE l = "progress"
  <2>1. ProgressOK(e) /\ e.firing /\ f \in Watchers
    <3>1. /\ ProgressOK(c) /\ c.firing /\ ~c.off /\ c.index < c.length
      BY <1>1, <1>4
    <3> HIDE DEF c
    <3> QED BY <3>1, <1>6, ProgressCalls
  <2>2. f \notin OwnFunctions /\ f \notin Handlers /\ f \in Running
    BY <2>1, HandlersAssumption DEF Running
  <2>3. cb' = mid /\ called' = called
    BY <1>1, <1>3, <2>2
  <2>4. FramesOK(cb', frames')
    <3>1. \A k \in Lists : cb[k].firing => cb'[k].firing
      BY <1>2, <2>1, <2>3
    <3> QED BY <3>1, <1>7, <2>2
  <2>5. \A k \in Outcomes : ~Disabling(cb, frames, k)
    BY <1>4, Others DEF Disabling
  <2>6. cb' = [cb EXCEPT !["progress"] = e]
    BY <1>4, <1>6, <2>3
  <2> QED BY <2>1, <2>3, <2>4, <2>5, <2>6, ProgressOnly
<1>5. CASE l \in Outcomes
  <2>1. OutcomeOK(l, c) /\ o \in Outcomes /\ o \in Lists /\ o # l /\ OutcomeOK(o, cb[o])
    BY <1>5, Others DEF DeferredInv, DeferredOK
  <2>2. /\ OutcomeOK(l, e)
        /\ e.memory = c.memory /\ e.off = c.off /\ e.firing /\ e.index = c.index + 1
        /\ \/ f = FirstOf(l) /\ c.index = 0 /\ Ahead(e) = Ahead(c)
           \/ f = "lockProgress" /\ c.index # 0 /\ Ahead(e) = Ahead(c)
           \/ /\ f \in Handlers /\ ~(c.index = 0 /\ Own(c) = 2)
              /\ Ahead(c) # <<>> /\ f = Head(Ahead(c)) /\ Ahead(e) = Tail(Ahead(c))
    <3>1. OutcomeOK(l, c) /\ c.firing /\ c.index < c.length
      BY <1>1, <2>1
    <3> HIDE DEF c, l
    <3> QED BY <3>1, <1>5, <1>6, CallKeeps
  <2>3. c.memory # 0 /\ cb[o].memory = 0 /\ (cb[o].off \/ Disabling(cb, frames, l))
    BY <1>1, <1>5, <2>1 DEF OutcomeOK, OnlyOne
  <2>4. f \in Running /\ FirstOf(l) \in OwnFunctions
    BY <2>2 DEF Running, OwnFunctions, FirstOf
  \* What remains once the effect of the function is known.
  <2>5. ASSUME cb' = [k \in Lists |-> cb'[k]], cb'[l] = e,
               OutcomeOK(o, cb'[o]), cb'[o].memory = 0, cb'[o].off,
               ProgressOK(cb'["progress"]),
               \A k \in Lists : cb[k].firing => cb'[k].firing
        PROVE  DeferredInv'
    <3>1. FramesOK(cb', frames')
      BY <1>7, <2>4, <2>5
    <3>2. OnlyOne(cb', frames')
      <4> SUFFICES ASSUME NEW k \in Outcomes
                   PROVE  /\ cb'[k].memory # 0 =>
                               cb'[Other(k)].memory = 0 /\ cb'[Other(k)].off
                          /\ cb'[k].off => cb'[Other(k)].memory # 0
        BY DEF OnlyOne
      <4>1. CASE k = l
        BY <4>1, <1>1, <2>2, <2>5
      <4>2. CASE k = o
        BY <4>2, <1>5, <2>2, <2>3, <2>5, Others
      <4> QED BY <4>1, <4>2, <1>5, Others
    <3>3. \A k \in Outcomes : OutcomeOK(k, cb'[k])
      BY <1>5, <2>2, <2>5, Others
    <3> QED BY <2>5, <3>1, <3>2, <3>3 DEF DeferredInv, DeferredOK
  <2>6. ASSUME cb'[l] = e, cb'[o].memory = 0, Ahead(e) = Ahead(c), called' = called
        PROVE  UNCHANGED PromiseOf!promiseVars
    <3>1. RemainingOf(cb', l) = RemainingOf(cb, l) /\ RemainingOf(cb', o) = RemainingOf(cb, o)
      BY <1>5, <2>2, <2>3, <2>6, Others DEF RemainingOf
    <3>2. \A k \in Outcomes : /\ cb'[k].memory = cb[k].memory
                              /\ RemainingOf(cb', k) = RemainingOf(cb, k)
      <4> TAKE k \in Outcomes
      <4>1. k = l \/ k = o
        BY <1>5, Others
      <4> QED BY <4>1, <3>1, <2>2, <2>3, <2>6
    <3> QED BY <3>2, <2>6, Stutters
  <2>7. CASE f = FirstOf(l) /\ c.index = 0 /\ Ahead(e) = Ahead(c)
    <3>1. f \notin Handlers
      BY <2>4, <2>7, HandlersAssumption
    <3>2. cb' = [mid EXCEPT ![o] = disable(mid[o])]
      BY <1>1, <1>5, <2>7 DEF Effect, FirstOf, Other, Outcomes
    <3>3. /\ cb' = [k \in Lists |-> cb'[k]] /\ cb'[o] = disable(mid[o])
          /\ \A k \in Lists : k # o => cb'[k] = mid[k]
      BY <1>2, <2>1, <3>2, Changed
    <3>4. mid[o] = cb[o]
      BY <1>2, <2>1
    <3>5. ~cb[o].firing
      BY <2>1, <2>3 DEF OutcomeOK
    <3>6. OutcomeOK(o, cb'[o]) /\ cb'[o].memory = 0 /\ cb'[o].off
      BY <2>1, <3>3, <3>4, <3>5, DisableKeeps
    <3>7. cb'[l] = e
      BY <1>1, <1>2, <2>1, <3>3
    <3>8. ProgressOK(cb'["progress"])
      BY <1>1, <1>2, <1>5, <2>1, <3>3, Others
    <3>9. \A k \in Lists : cb[k].firing => cb'[k].firing
      BY <1>2, <2>2, <3>3, <3>5
    <3>10. called' = called
      BY <1>1, <3>1
    <3> QED BY <2>5, <2>6, <2>7, <3>3, <3>6, <3>7, <3>8, <3>9, <3>10
  <2>8. CASE f = "lockProgress" /\ c.index # 0 /\ Ahead(e) = Ahead(c)
    <3>1. f \notin Handlers
      BY <2>8, HandlersAssumption DEF OwnFunctions
    <3>2. cb' = [mid EXCEPT !["progress"] = lock(mid["progress"])]
      BY <1>1, <2>8 DEF Effect
    <3>3. /\ cb' = [k \in Lists |-> cb'[k]] /\ cb'["progress"] = lock(mid["progress"])
          /\ \A k \in Lists : k # "progress" => cb'[k] = mid[k]
      BY <1>2, <3>2, Changed, Others
    <3>4. mid["progress"] = cb["progress"]
      BY <1>2, <1>5, Others
    <3>5. ProgressOK(cb'["progress"]) /\ cb'["progress"].firing = cb["progress"].firing
      <4>1. ProgressOK(cb["progress"])
        BY <1>1
      <4> QED BY <4>1, <3>3, <3>4, ProgressLocks
    <3>6. cb'[l] = e /\ cb'[o] = cb[o]
      BY <1>1, <1>2, <1>5, <2>1, <3>3, Others
    <3>7. cb[o].off
      BY <2>3, <2>8 DEF Disabling
    <3>8. \A k \in Lists : cb[k].firing => cb'[k].firing
      BY <1>2, <2>2, <3>3, <3>5
    <3>9. called' = called
      BY <1>1, <3>1
    <3> QED BY <2>1, <2>3, <2>5, <2>6, <2>8, <3>3, <3>5, <3>6, <3>7, <3>8, <3>9
  <2>9. CASE /\ f \in Handlers /\ ~(c.index = 0 /\ Own(c) = 2)
             /\ Ahead(c) # <<>> /\ f = Head(Ahead(c)) /\ Ahead(e) = Tail(Ahead(c))
    <3>1. f \notin OwnFunctions
      BY <2>9, HandlersAssumption
    <3>2. cb' = mid /\ called' = Append(called, f)
      BY <1>1, <1>3, <2>9, <3>1
    <3>3. cb'[l] = e /\ cb'[o] = cb[o] /\ cb'["progress"] = cb["progress"]
      BY <1>2, <1>5, <2>1, <3>2, Others
    <3>4. cb[o].off
      BY <2>3, <2>9 DEF Disabling
    <3>5. \A k \in Lists : cb[k].firing => cb'[k].firing
      BY <1>2, <2>2, <3>2
    <3>6. DeferredInv'
      BY <1>1, <1>2, <2>1, <2>3, <2>5, <3>2, <3>3, <3>4, <3>5
    <3>7. PromiseOf!CallNext(l)
      <4>1. Outcome = l
        BY <1>1, <1>5, <2>3, OutcomeIs, Mapped
      <4>2. Outcome' = Outcome
        <5>1. \A k \in Outcomes : cb'[k].memory = cb[k].memory
          <6> TAKE k \in Outcomes
          <6>1. k = l \/ k = o
            BY <1>5, Others
          <6> QED BY <6>1, <2>2, <3>3
        <5> QED BY <5>1 DEF Outcome, Outcomes
      <4>3. RemainingOf(cb, l) = Ahead(c) /\ RemainingOf(cb', l) = Tail(Ahead(c))
        BY <2>3, <2>9, <3>3 DEF RemainingOf
      <4>4. RemainingOf(cb', o) = RemainingOf(cb, o)
        BY <1>5, <2>2, <2>3, <3>3, Others DEF RemainingOf
      <4>5. [k \in {"done", "fail"} |-> Remaining(k)]'
              = [[k \in {"done", "fail"} |-> Remaining(k)] EXCEPT ![l] = Tail(Ahead(c))]
        BY <1>5, <4>3, <4>4, Waits
      <4>6. [k \in {"done", "fail"} |-> Remaining(k)][l] = Ahead(c)
        BY <1>5, <4>3, Mapped DEF Outcomes
      <4> HIDE DEF l, c, o
      <4> QED BY <2>9, <3>2, <4>1, <4>2, <4>5, <4>6 DEF PromiseOf!CallNext
    <3> QED BY <1>5, <3>6, <3>7 DEF PromiseOf!PNext, Outcomes
  <2> QED BY <2>2, <2>7, <2>8, <2>9
<1> QED BY <1>1, <1>4, <1>5 DEF Lists, Outcomes

(* The loop of the innermost call has ended.                               *)
LEMMA EndStep ==
  ASSUME DeferredInv, EndOfLoop
  PROVE  DeferredInv' /\ UNCHANGED PromiseOf!promiseVars
<1> DEFINE l == Head(frames).list
           c == cb[l]
           e == ended(l, c)
           o == Other(l)
<1>1. /\ cb = [k \in Lists |-> cb[k]] /\ l \in Lists /\ c.firing
      /\ frames # <<>> /\ FramesOK(cb, frames) /\ OnlyOne(cb, frames)
      /\ ProgressOK(cb["progress"])
      /\ c.off \/ c.index >= c.length
      /\ cb' = [cb EXCEPT ![l] = e] /\ called' = called
      /\ frames' = IF e.firing THEN [frames EXCEPT ![1].running = ""] ELSE Tail(frames)
  BY FirstFrame DEF EndOfLoop, Firing, DeferredInv, DeferredOK
<1> HIDE DEF e
<1>2. /\ cb' = [k \in Lists |-> cb'[k]]
      /\ cb'[l] = e /\ \A k \in Lists : k # l => cb'[k] = cb[k]
  BY <1>1, Changed
<1>3. FramesOK(cb', frames')
  <2>1. CASE e.firing
    <3>1. \A k \in Lists : cb[k].firing => cb'[k].firing
      BY <1>2, <2>1
    <3>2. "" \in Running
      BY DEF Running
    <3>3. /\ FramesOK(cb, frames) /\ frames # <<>>
          /\ frames' = RunsNow(frames, "")
      BY <1>1, <2>1 DEF RunsNow
    <3> QED BY <3>1, <3>2, <3>3, Runs
  <2>2. CASE ~e.firing
    BY <1>1, <1>2, <2>2, Leaves
  <2> QED BY <2>1, <2>2
<1>4. CASE l = "progress"
  <2>1. ProgressOK(e)
    BY <1>1, <1>4, ProgressEnds DEF e
  <2>2. \A k \in Outcomes : ~Disabling(cb, frames, k)
    BY <1>4, Others DEF Disabling
  <2> QED BY <1>1, <1>3, <1>4, <2>1, <2>2, ProgressOnly
<1>5. CASE l \in Outcomes
  <2>1. OutcomeOK(l, c) /\ o \in Outcomes /\ o \in Lists /\ o # l
    BY <1>5, Others DEF DeferredInv, DeferredOK
  <2>2. /\ OutcomeOK(l, e)
        /\ e.memory = c.memory /\ e.off = c.off /\ ~e.firing
        /\ Ahead(c) = <<>> /\ Ahead(e) = <<>>
        /\ ~(c.index = 0 /\ Own(c) = 2)
    BY <1>1, <1>5, <2>1, EndKeeps DEF e
  <2>3. c.memory # 0 /\ cb[o].memory = 0 /\ cb[o].off
    BY <1>1, <1>5, <2>1, <2>2 DEF OutcomeOK, OnlyOne, Disabling
  <2>4. cb'[o] = cb[o] /\ cb'["progress"] = cb["progress"]
    BY <1>2, <1>5, <2>1, Others
  <2>5. OnlyOne(cb', frames')
    <3> SUFFICES ASSUME NEW k \in Outcomes
                 PROVE  /\ cb'[k].memory # 0 =>
                             cb'[Other(k)].memory = 0 /\ cb'[Other(k)].off
                        /\ cb'[k].off => cb'[Other(k)].memory # 0
      BY DEF OnlyOne
    <3>1. CASE k = l
      <4>1. /\ cb'[k] = e /\ cb'[Other(k)] = cb[o] /\ ~c.off
        BY <3>1, <1>2, <2>3, <2>4, <1>1, <2>1, Others DEF OutcomeOK
      <4> HIDE DEF c
      <4> QED BY <4>1, <2>2, <2>3
    <3>2. CASE k = o
      BY <3>2, <1>2, <1>5, <2>2, <2>3, <2>4, Others
    <3> QED BY <3>1, <3>2, <1>5, Others
  <2>6. \A k \in Outcomes : OutcomeOK(k, cb'[k])
    <3> TAKE k \in Outcomes
    <3>1. k = l \/ k = o
      BY <1>5, Others
    <3> QED BY <3>1, <1>2, <2>2, <2>4 DEF DeferredInv, DeferredOK
  <2>7. \A k \in Outcomes : /\ cb'[k].memory = cb[k].memory
                            /\ RemainingOf(cb', k) = RemainingOf(cb, k)
    <3> TAKE k \in Outcomes
    <3>1. k = l \/ k = o
      BY <1>5, Others
    <3> QED BY <3>1, <1>2, <1>5, <2>2, <2>3, <2>4, Others DEF RemainingOf
  <2> QED BY <1>1, <1>2, <1>3, <2>4, <2>5, <2>6, <2>7, Stutters DEF DeferredInv, DeferredOK
<1> QED BY <1>1, <1>4, <1>5 DEF Lists, Outcomes

(* The initial state of a Deferred is that of a promise.                   *)
LEMMA Begin ==
  ASSUME DeferredInit
  PROVE  DeferredInv /\ PromiseOf!PInit
<1>1. /\ cb = [l \in Lists |-> NewList(OwnOf(l))] /\ frames = <<>> /\ called = <<>>
  BY DEF DeferredInit
<1>2. /\ cb = [l \in Lists |-> cb[l]]
      /\ \A l \in Lists : cb[l] = NewList(OwnOf(l))
  BY <1>1
<1>3. \A S : << >> \in Seq(S) /\ Len(<< >>) = 0
  BY EmptySeq
<1>4. ASSUME NEW l \in Outcomes
      PROVE  OutcomeOK(l, cb[l]) /\ cb[l].memory = 0 /\ ~cb[l].off /\ Ahead(cb[l]) = <<>>
  <2> DEFINE s == OwnOf(l)
             c == NewList(s)
             S == Handlers \cup OwnFunctions
  <2>1. s = <<FirstOf(l), "lockProgress">>
    BY DEF OwnOf, FirstOf, Outcomes
  <2>2. FirstOf(l) \in S /\ "lockProgress" \in S /\ FirstOf(l) \notin Handlers
    BY HandlersAssumption DEF FirstOf, OwnFunctions
  <2> HIDE DEF s, S
  <2>3. s \in Seq(S) /\ Len(s) = 2 /\ s[1] = FirstOf(l) /\ s[2] = "lockProgress"
    BY <2>1, <2>2
  <2>4. /\ c \in CallbacksOf(S) /\ c.list = s /\ c.memory = 0 /\ ~c.firing /\ ~c.off
        /\ ~c.locked /\ c.start = 0 /\ c.index = 0
    BY <2>3, <1>3 DEF NewList, CallbacksOf
  <2> HIDE DEF c
  <2>5. s # <<>>
    <3>1. ASSUME s = <<>> PROVE FALSE
      <4>1. Len(s) = 0
        BY <3>1, <1>3
      <4> QED BY <4>1, <2>3
    <3> QED BY <3>1
  <2>6. Own(c) = 2
    BY <2>2, <2>3, <2>4, <2>5 DEF Own
  <2>7. OutcomeOK(l, c)
    <3>1. \A i \in Own(c) + 1 .. Len(c.list) : c.list[i] \in Handlers
      <4>1. Own(c) + 1 = 3 /\ Len(c.list) = 2
        BY <2>3, <2>4, <2>6
      <4> QED BY <4>1
    <3>2. c.list[1] = FirstOf(l) /\ c.list[2] = "lockProgress"
      <4>1. c.list = s
        BY <2>4
      <4> QED BY <4>1, <2>3
    <3>3. Own(c) <= Len(c.list)
      <4>1. Len(c.list) = 2
        BY <2>3, <2>4
      <4> QED BY <4>1, <2>6
    <3>4. c.memory = 0 /\ ~c.firing /\ ~c.off /\ ~c.locked /\ c.start = 0
      BY <2>4
    <3>5. c.locked = c.off
      BY <2>4 DEF CallbacksOf
    <3>6. c \in CallbacksOf(Handlers \cup OwnFunctions)
      BY <2>4 DEF S
    <3> QED BY <3>1, <3>2, <3>3, <3>4, <3>5, <3>6, <2>6 DEF OutcomeOK
  <2>8. Ahead(c) = <<>>
    <3>1. Ahead(c) = SubSeq(s, 2 + 1, Len(s))
      BY <2>4, <2>6 DEF Ahead
    <3>2. 2 + 1 \in Int /\ Len(s) \in Int /\ Len(s) < 2 + 1
      BY <2>3
    <3> QED BY <3>1, <3>2, SubSeqEmpty
  <2>9. cb[l] = c
    BY <1>2, Others DEF c, s
  <2> QED BY <2>4, <2>7, <2>8, <2>9
<1>5. ProgressOK(cb["progress"])
  <2>1. cb["progress"] = NewList(<<>>)
    BY <1>2, Others DEF OwnOf
  <2> QED BY <1>3, <2>1 DEF NewList, ProgressOK, CallbacksOf
<1>6. FramesOK(cb, frames)
  <2>1. frames \in Seq(Frames) /\ Len(frames) = 0
    BY <1>1, <1>3
  <2> QED BY <2>1 DEF FramesOK
<1>7. OnlyOne(cb, frames)
  BY <1>4 DEF OnlyOne
<1>8. DeferredInv
  BY <1>2, <1>4, <1>5, <1>6, <1>7 DEF DeferredInv, DeferredOK
<1>9. Outcome = "pending"
  BY <1>4, <1>7, OutcomeIs, Mapped
<1>10. \A k \in Outcomes : Remaining(k) = <<>>
  BY <1>4, Others, Mapped DEF RemainingOf
<1> QED BY <1>1, <1>8, <1>9, <1>10 DEF PromiseOf!PInit, Outcomes

(* However the calls of its lists nest, a Deferred is settled once, and    *)
(* each handler of its outcome is called once and in turn: ImplementsPromise *)
(* without its fairness.                                                   *)
THEOREM DeferredIsAPromise ==
  DeferredSpec => PromiseOf!PInit /\ [][PromiseOf!PNext]_(PromiseOf!promiseVars)
<1> DEFINE Counted == notices \in Nat
<1>1. DeferredInit => DeferredInv /\ Counted /\ PromiseOf!PInit
  BY Begin DEF DeferredInit
<1>2. DeferredInv /\ Counted /\ [DeferredNext]_deferredVars
        => DeferredInv' /\ Counted' /\ [PromiseOf!PNext]_(PromiseOf!promiseVars)
  <2> SUFFICES ASSUME DeferredInv, Counted, [DeferredNext]_deferredVars
               PROVE  DeferredInv' /\ Counted' /\ [PromiseOf!PNext]_(PromiseOf!promiseVars)
    OBVIOUS
  <2>1. Counted'
    <3>1. notices' = notices \/ Notify
      BY DEF DeferredNext, deferredVars, Add, Settle, CallFunction, EndOfLoop
    <3>2. CASE Notify
      <4>1. notices' = notices + 1
        BY <3>2 DEF Notify
      <4> QED BY <4>1
    <3> QED BY <3>1, <3>2
  <2>2. CASE UNCHANGED deferredVars
    <3>1. cb' = cb /\ frames' = frames /\ called' = called
      BY <2>2 DEF deferredVars
    <3> QED BY <2>1, <3>1, Stutters DEF DeferredInv
  <2>3. CASE \E l \in {"done", "fail"}, h \in Handlers : Add(l, h)
    BY <2>1, <2>3, AddStep DEF Outcomes
  <2>4. CASE \E w \in Watchers : Add("progress", w)
    BY <2>1, <2>4, WatchStep
  <2>5. CASE \E l \in {"done", "fail"} : Settle(l)
    BY <2>1, <2>5, SettleStep DEF Outcomes
  <2>6. CASE Notify
    BY <2>1, <2>6, NotifyStep
  <2>7. CASE CallFunction
    BY <2>1, <2>7, CallStep
  <2>8. CASE EndOfLoop
    BY <2>1, <2>8, EndStep
  <2> QED BY <2>2, <2>3, <2>4, <2>5, <2>6, <2>7, <2>8 DEF DeferredNext
<1> QED BY <1>1, <1>2, PTL DEF DeferredSpec
=============================================================================
