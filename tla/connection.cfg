\* Any browser: three losses over cometd.js, six sockets.
CONSTANTS
  Browsers <- MCBrowsers
  MaxMoves = 1
SPECIFICATION Spec
PROPERTY AtTheTable
\* A Connector that gave up has no next step, nor has a page without moves left.
CHECK_DEADLOCK FALSE
