------------------------------ MODULE BayeuxLink ------------------------------
(***************************************************************************)
(* What the Bayeux client of cometd.js promises the code above it: a       *)
(* session that the server may forget, long polls that succeed or fail,    *)
(* and functions that stay subscribed until the client handshakes again.   *)
(***************************************************************************)
EXTENDS Naturals

VARIABLES
  closed,     \* whether the page has disconnected, or not yet connected, the client
  session,    \* whether the client has a client id
  connected,  \* whether its last long poll succeeded
  subs        \* how many functions are subscribed to the channel

linkVars == <<closed, session, connected, subs>>

LinkInit == closed = TRUE /\ session = FALSE /\ connected = FALSE /\ subs = 0

\* A handshake is sent: the client id and the subscriptions are forgotten.
Forget ==
  /\ closed' = FALSE
  /\ session' = FALSE
  /\ subs' = 0
  /\ UNCHANGED connected

\* Its reply brings a client id.
Establish ==
  /\ ~session
  /\ session' = TRUE
  /\ UNCHANGED <<closed, connected, subs>>

\* A long poll ends, and its listeners are told how: one of the session, or the
\* last one of a client that is closed.
Polled(ok) ==
  /\ session \/ closed
  /\ connected' = ok
  /\ UNCHANGED <<closed, session, subs>>

Subscribed ==
  /\ ~closed
  /\ subs' = subs + 1
  /\ UNCHANGED <<closed, session, connected>>

\* The page disconnects, perhaps as a long poll of the session ends, or the client
\* takes the advice to. The functions stay subscribed.
Close ==
  /\ closed' = TRUE
  /\ session' \in {session, FALSE}
  /\ connected' \in (IF session \/ closed THEN BOOLEAN ELSE {connected})
  /\ UNCHANGED subs

LinkNext == Forget \/ Establish \/ (\E ok \in BOOLEAN : Polled(ok)) \/ Subscribed \/ Close

LinkSpec == LinkInit /\ [][LinkNext]_linkVars
=============================================================================
