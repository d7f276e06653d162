------------------------------- MODULE Deferred -------------------------------
(***************************************************************************)
(* jQuery.Callbacks and jQuery.Deferred of jquery-1.7.1.js, which run      *)
(* $(document).ready and the handlers of the requests of the page. A       *)
(* Deferred is three lists of functions that know of each other only       *)
(* through functions of their own at the head of two of them. A function   *)
(* that is called may itself add functions and settle or notify the        *)
(* Deferred, so calls of fire nest: the frames are the calls under way, the *)
(* innermost first, and a step is one function called, or what it does.    *)
(*                                                                         *)
(* Left out: contexts and arguments, the name that state() returns, which  *)
(* the first function of a list sets, remove, and the flags unique and     *)
(* stopOnFalse, which a Deferred does not use.                             *)
(***************************************************************************)
EXTENDS Naturals, Sequences, FiniteSets

CONSTANTS
  Handlers,     \* functions given to done or fail, each of them once
  Watchers,     \* functions given to progress
  MaxNotices    \* bound: calls of notify

\* The functions that a Deferred puts into its lists.
OwnFunctions == {"disableFail", "disableDone", "lockProgress"}

ASSUME HandlersAssumption ==
  /\ Handlers \cap Watchers = {}
  /\ (Handlers \cup Watchers) \cap (OwnFunctions \cup {""}) = {}
ASSUME NoticesAssumption == MaxNotices \in Nat

Lists == {"done", "fail", "progress"}
Once(l) == l # "progress"

VARIABLES
  cb,       \* the three Callbacks objects; memory holds what was fired last, 0 for
            \*   nothing, off and locked stand for an undefined list and stack
  frames,   \* the calls of fire under way: list and function called
  called,   \* history: handlers called
  notices   \* history: calls of notify

deferredVars == <<cb, frames, called, notices>>

NewList(functions) ==
  [list |-> functions, stack |-> <<>>, memory |-> 0, firing |-> FALSE, index |-> 0,
   start |-> 0, length |-> 0, off |-> FALSE, locked |-> FALSE]

\* What Deferred puts at the head of a list.
OwnOf(l) == CASE l = "done" -> <<"disableFail", "lockProgress">>
              [] l = "fail" -> <<"disableDone", "lockProgress">>
              [] OTHER -> <<>>

DeferredInit ==
  /\ cb = [l \in Lists |-> NewList(OwnOf(l))]
  /\ frames = <<>>
  /\ called = <<>>
  /\ notices = 0

\* Code of the page runs: outside of every call, or in the function that the
\* innermost call of fire has called.
PageRuns == IF frames = <<>> THEN TRUE ELSE Head(frames).running \in Handlers \cup Watchers

-----------------------------------------------------------------------------
\* The operators of a Callbacks object c.

disable(c) == [c EXCEPT !.list = <<>>, !.stack = <<>>, !.memory = 0,
                        !.off = TRUE, !.locked = TRUE]

lock(c) == IF c.memory = 0 THEN disable(c) ELSE [c EXCEPT !.stack = <<>>, !.locked = TRUE]

\* fire up to its loop.
fire(c, value) ==
  [c EXCEPT !.memory = value, !.firing = TRUE, !.index = c.start, !.start = 0,
            !.length = Len(c.list)]

\* Whether fireWith starts to fire.
fires(l, c) == ~c.locked /\ ~c.firing /\ ~(Once(l) /\ c.memory # 0)

fireWith(l, c, value) ==
  CASE fires(l, c) -> fire(c, value)
    [] ~c.locked /\ c.firing /\ ~Once(l) -> [c EXCEPT !.stack = Append(@, value)]
    [] OTHER -> c

\* Whether add starts to fire: for a list that has fired and is not firing.
addFires(c) == ~c.off /\ ~c.firing /\ c.memory # 0

\* The list with a function more.
longer(c, f) == [c EXCEPT !.list = Append(@, f)]

\* Mutant of add: a function that is added while the list fires waits for the next time.
AddLater(c, f) ==
  CASE c.off -> c
    [] addFires(c) -> fire([longer(c, f) EXCEPT !.start = Len(c.list)], c.memory)
    [] OTHER -> longer(c, f)

add(c, f) ==
  CASE c.off -> c
    [] ~c.off /\ c.firing -> [longer(c, f) EXCEPT !.length = Len(c.list) + 1]
    [] addFires(c) -> fire([longer(c, f) EXCEPT !.start = Len(c.list)], c.memory)
    [] OTHER -> longer(c, f)

\* The loop of fire has ended: a list that fires once is emptied, another goes on
\* with what was fired meanwhile.
ended(l, c) ==
  LET still == [c EXCEPT !.firing = FALSE]
  IN CASE c.off -> still
       [] ~c.off /\ Once(l) -> [still EXCEPT !.list = <<>>]
       [] ~c.off /\ ~Once(l) /\ c.stack # <<>> ->
            fireWith(l, [still EXCEPT !.stack = Tail(@)], Head(c.stack))
       [] OTHER -> still

-----------------------------------------------------------------------------
\* What the code of the page does.

Given == UNION {{cb[l].list[i] : i \in DOMAIN cb[l].list} : l \in Lists}

Enter(l) == frames' = <<[list |-> l, running |-> ""]>> \o frames

\* done, fail and progress.
Add(l, f) ==
  /\ PageRuns
  /\ f \notin Given /\ \A i \in DOMAIN called : called[i] # f
  /\ cb' = [cb EXCEPT ![l] = add(@, f)]
  /\ IF addFires(cb[l]) THEN Enter(l) ELSE UNCHANGED frames
  /\ UNCHANGED <<called, notices>>

\* resolve and reject.
Settle(l) ==
  /\ PageRuns
  /\ cb' = [cb EXCEPT ![l] = fireWith(l, @, 1)]
  /\ IF fires(l, cb[l]) THEN Enter(l) ELSE UNCHANGED frames
  /\ UNCHANGED <<called, notices>>

Notify ==
  /\ PageRuns
  /\ notices < MaxNotices
  /\ notices' = notices + 1
  /\ cb' = [cb EXCEPT !["progress"] = fireWith("progress", @, notices + 1)]
  /\ IF fires("progress", cb["progress"]) THEN Enter("progress") ELSE UNCHANGED frames
  /\ UNCHANGED <<called>>

-----------------------------------------------------------------------------
\* The loop of the innermost call of fire.

Firing == frames # <<>>

\* What calling f does to the lists.
Effect(f, c) ==
  CASE f = "disableFail" -> [c EXCEPT !["fail"] = disable(@)]
    [] f = "disableDone" -> [c EXCEPT !["done"] = disable(@)]
    [] f = "lockProgress" -> [c EXCEPT !["progress"] = lock(@)]
    [] OTHER -> c

CallFunction ==
  /\ Firing
  /\ LET l == Head(frames).list
         c == cb[l]
         f == c.list[c.index + 1]
     IN /\ ~c.off /\ c.index < c.length
        /\ cb' = Effect(f, [cb EXCEPT ![l].index = @ + 1])
        /\ frames' = [frames EXCEPT ![1].running = f]
        /\ called' = IF f \in Handlers THEN Append(called, f) ELSE called
  /\ UNCHANGED notices

EndOfLoop ==
  /\ Firing
  /\ LET l == Head(frames).list
         c == cb[l]
     IN /\ c.off \/ c.index >= c.length
        /\ cb' = [cb EXCEPT ![l] = ended(l, c)]
        /\ frames' = IF ended(l, c).firing THEN [frames EXCEPT ![1].running = ""]
                     ELSE Tail(frames)
  /\ UNCHANGED <<called, notices>>

DeferredNext ==
  \/ \E l \in {"done", "fail"}, h \in Handlers : Add(l, h)
  \/ \E w \in Watchers : Add("progress", w)
  \/ \E l \in {"done", "fail"} : Settle(l)
  \/ Notify
  \/ CallFunction \/ EndOfLoop

\* A function that is called returns, and the loop goes on.
DeferredFairness == WF_deferredVars(CallFunction) /\ WF_deferredVars(EndOfLoop)

DeferredSpec == DeferredInit /\ [][DeferredNext]_deferredVars /\ DeferredFairness

-----------------------------------------------------------------------------
\* The promise that it is.

Other(l) == IF l = "done" THEN "fail" ELSE "done"

\* How many functions of a list are the Deferred's own: none, or the first two.
Own(c) == IF c.list # <<>> /\ c.list[1] \notin Handlers THEN 2 ELSE 0

\* The handlers of a list that it has still to call.
Ahead(c) ==
  LET passed == IF c.firing /\ c.index > Own(c) THEN c.index ELSE Own(c)
  IN SubSeq(c.list, passed + 1, Len(c.list))

Remaining(l) == IF cb[Other(l)].memory # 0 THEN <<>> ELSE Ahead(cb[l])

Outcome == CASE cb["done"].memory # 0 -> "done"
             [] cb["fail"].memory # 0 -> "fail"
             [] OTHER -> "pending"

PromiseOf == INSTANCE Promise WITH
  Outcomes <- {"done", "fail"},
  outcome <- Outcome,
  waiting <- [l \in {"done", "fail"} |-> Remaining(l)]

\* However the calls nest, the Deferred is a promise: settled once, and each handler
\* of its outcome called exactly once and in turn, those added while it fires
\* (firingLength) or long after (memory) too.
ImplementsPromise == PromiseOf!PSpec
=============================================================================
