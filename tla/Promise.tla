-------------------------------- MODULE Promise --------------------------------
(***************************************************************************)
(* What a promise is meant to be: it is settled once, and every handler of *)
(* its outcome is called exactly once, after the promise is settled, in    *)
(* the order in which the handlers were given; no handler of the other     *)
(* outcome ever is.                                                        *)
(***************************************************************************)
EXTENDS Sequences

CONSTANTS Handlers, Outcomes

VARIABLES
  outcome,   \* "pending", or one of Outcomes
  waiting,   \* per outcome, the handlers still to be called
  called     \* the handlers called so far

promiseVars == <<outcome, waiting, called>>

PInit ==
  /\ outcome = "pending"
  /\ waiting = [o \in Outcomes |-> <<>>]
  /\ called = <<>>

Give(o, h) ==
  /\ outcome \in {"pending", o}
  /\ waiting' = [waiting EXCEPT ![o] = Append(@, h)]
  /\ UNCHANGED <<outcome, called>>

Settle(o) ==
  /\ outcome = "pending"
  /\ outcome' = o
  /\ waiting' = [q \in Outcomes |-> IF q = o THEN waiting[q] ELSE <<>>]
  /\ UNCHANGED called

CallNext(o) ==
  /\ outcome = o
  /\ waiting[o] # <<>>
  /\ waiting' = [waiting EXCEPT ![o] = Tail(@)]
  /\ called' = Append(called, Head(waiting[o]))
  /\ UNCHANGED outcome

PNext == \E o \in Outcomes : Settle(o) \/ CallNext(o) \/ (\E h \in Handlers : Give(o, h))

PSpec == PInit /\ [][PNext]_promiseVars /\ \A o \in Outcomes : WF_promiseVars(CallNext(o))
=============================================================================
