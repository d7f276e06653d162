------------------------------ MODULE MCCometd ------------------------------
EXTENDS Cometd

\* A page that stays: two publishes and a subscription. A page that disconnects, in
\* a call of its own or from a listener, and whose publish is longer than a URL. One
\* lost request or response and one restart of the server in either. A page whose
\* second failure is one of callback-polling, which the first brings it to. Pages with
\* enough publishes for three to wait when a request fails, and when the response to a
\* session that the server forgot comes.
MCLimits == {
  [publish |-> 2, subscribe |-> 1, disconnect |-> 0, failure |-> 1, restart |-> 1,
   tooLong |-> {}, adviceAlways |-> TRUE],
  [publish |-> 1, subscribe |-> 0, disconnect |-> 1, failure |-> 1, restart |-> 1,
   tooLong |-> {1}, adviceAlways |-> FALSE],
  [publish |-> 2, subscribe |-> 0, disconnect |-> 0, failure |-> 2, restart |-> 0,
   tooLong |-> {}, adviceAlways |-> TRUE],
  [publish |-> 3, subscribe |-> 1, disconnect |-> 0, failure |-> 1, restart |-> 0,
   tooLong |-> {}, adviceAlways |-> TRUE],
  [publish |-> 4, subscribe |-> 0, disconnect |-> 0, failure |-> 0, restart |-> 1,
   tooLong |-> {}, adviceAlways |-> TRUE]}
=============================================================================
