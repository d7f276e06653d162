------------------------------ MODULE MessageBox ------------------------------
(***************************************************************************)
(* The page's message box: js/app/messages.js over the effects of          *)
(* jquery-1.7.1.js. messages.js keeps the messages that wait and shows     *)
(* each for three seconds; the box opens and closes in animations of 250 ms *)
(* that jQuery keeps in a queue of the element. One interval steps all the *)
(* animations of the page; the timers that an animation has, one for each  *)
(* property, start and end together and stand here as one.                 *)
(***************************************************************************)
EXTENDS Naturals, Sequences, SequencesExt, FiniteSetsExt

CONSTANT MaxMessages  \* bound: messages of a game, 1, 2, ...

VARIABLES
  queue,    \* _queue of messages.js
  timeout,  \* whether its timeout is set
  box,      \* [text, visible, fx, running, interval]: the element, its fx queue,
            \*   the animations in jQuery.timers and whether timerId is set
  last      \* history: the last message queued

vars == <<queue, timeout, box, last>>

Init ==
  /\ queue = <<>>
  /\ timeout = FALSE
  /\ box = [text |-> 0, visible |-> FALSE, fx |-> <<>>, running |-> <<>>, interval |-> FALSE]
  /\ last = 0

-----------------------------------------------------------------------------
\* The effects of jQuery, on a box b.

\* show() and hide() without a speed: the display of the element.
shown(b) == [b EXCEPT !.visible = TRUE]
hidden(b) == [b EXCEPT !.visible = FALSE]

\* custom: the animation joins the others, and the interval that steps them all is set
\* unless it is. The first step is not the last: 250 ms have not gone by.
custom(b, kind) == [b EXCEPT !.running = Append(@, kind), !.interval = TRUE]

\* show and hide of jQuery.fx: an opening box is visible first, a closing one until its
\* last step.
fxShow(b) == shown(custom(b, "show"))
fxHide(b) == custom(b, "hide")

\* An animation to where the element is already completes at once.
completesAtOnce(kind, visible) == (kind = "show") <=> visible

\* doAnimation of one that does not.
doAnimation(b, kind) == IF kind = "show" THEN fxShow(b) ELSE fxHide(b)

\* Mutant of dequeue: no sentinel is left for the animation that runs.
DequeueWithoutSentinel(b) ==
  LET rest == SelectSeq(b.fx, LAMBDA f : f # "inprogress")
      runs == {i \in DOMAIN rest : ~completesAtOnce(rest[i], b.visible)}
      first == Min(runs)
  IN IF runs = {} THEN [b EXCEPT !.fx = <<>>]
     ELSE doAnimation([b EXCEPT !.fx = SubSeq(rest, first + 1, Len(rest))], rest[first])

\* dequeue: the first animation in the queue that takes time starts, and the
\* sentinel stays at the head of the queue while it runs.
dequeue(b) ==
  LET rest == SelectSeq(b.fx, LAMBDA f : f # "inprogress")
      runs == {i \in DOMAIN rest : ~completesAtOnce(rest[i], b.visible)}
      first == Min(runs)
  IN IF runs = {} THEN [b EXCEPT !.fx = <<>>]
     ELSE doAnimation([b EXCEPT !.fx = <<"inprogress">> \o SubSeq(rest, first + 1, Len(rest))],
                      rest[first])

\* The end of an animation that speed sets: the next one of the queue.
complete(b) == dequeue(b)

\* jQuery.queue
pushed(b, kind) == [b EXCEPT !.fx = Append(@, kind)]

\* queue of an element: the animation starts unless one runs.
enqueue(b, kind) ==
  LET longer == pushed(b, kind)
  IN IF Head(longer.fx) = "inprogress" THEN longer ELSE dequeue(longer)

\* animate, which show and hide with a speed call.
animate(b, kind) == enqueue(b, kind)

\* step of an animation whose time is over: it completes.
step(b, kind) ==
  LET gone == [b EXCEPT !.running = Tail(@)]
  IN complete(IF kind = "hide" THEN hidden(gone) ELSE gone)

\* stop: no interval.
stop(b) == [b EXCEPT !.interval = FALSE]

\* tick, when the time of the animation that runs is over. One that it starts has
\* its first step in the same tick and goes on.
tick(b) ==
  LET stepped == FoldLeft(step, b, b.running)
  IN IF stepped.running = <<>> THEN stop(stepped) ELSE stepped

-----------------------------------------------------------------------------
\* messages.js

show(b, message) == animate([b EXCEPT !.text = message], "show")

queueMessage ==
  /\ last < MaxMessages
  /\ last' = last + 1
  /\ queue' = Append(queue, last + 1)
  /\ IF queue = <<>> THEN box' = show(box, last + 1) /\ timeout' = TRUE
                     ELSE UNCHANGED <<box, timeout>>

\* The timeout that _show sets: it runs off after 3 seconds, when the animations of
\* 250 ms that were started before it are over.
Timeout ==
  /\ timeout
  /\ ~box.interval
  /\ queue' = Tail(queue)
  /\ LET closing == animate(box, "hide")
     IN IF Tail(queue) = <<>> THEN box' = closing /\ timeout' = FALSE
                              ELSE box' = show(closing, Head(Tail(queue))) /\ UNCHANGED timeout
  /\ UNCHANGED last

Tick ==
  /\ box.interval
  /\ box' = tick(box)
  /\ UNCHANGED <<queue, timeout, last>>

Next == queueMessage \/ Timeout \/ Tick

Fairness == WF_vars(Timeout) /\ WF_vars(Tick)

Spec == Init /\ [][Next]_vars /\ Fairness

-----------------------------------------------------------------------------
Open(message) == box.visible /\ box.running = <<>> /\ box.text = message

\* Every message that is queued stands in the box when it is fully open, also one
\* whose text is set while the box still closes over the one before (messages.js:8).
MessagesShown == 
  \A m \in 1 .. MaxMessages : (\E i \in DOMAIN queue : queue[i] = m) ~> Open(m)
=============================================================================
