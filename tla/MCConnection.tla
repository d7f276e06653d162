----------------------------- MODULE MCConnection -----------------------------
EXTENDS Connection

\* Without WebSockets and with them, as the Connector is configured; with them and two
\* attempts in a row.
MCBrowsers == {
  [webSocket |-> FALSE, MAX_ATTEMPTS |-> 0, maxLosses |-> 3],
  [webSocket |-> TRUE, MAX_ATTEMPTS |-> 0, maxLosses |-> 6],
  [webSocket |-> TRUE, MAX_ATTEMPTS |-> 2, maxLosses |-> 6]}
=============================================================================
