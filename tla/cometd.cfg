\* A client of a server on another host.
CONSTANTS
  MaxConnections = 2
  CrossDomain = TRUE
  MaxLength = 1
  Limits <- MCLimits
SPECIFICATION Spec
INVARIANT AcceptedInOrder
PROPERTIES
  ImplementsLink
  ComesBack
  DisconnectTakesEffect
\* A client that is disconnected, or that an advice left without one, has no next step.
CHECK_DEADLOCK FALSE
