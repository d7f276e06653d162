CONSTANTS
  \* Every packet class, with the boundary values of its fields.
  Ints <- MCInts
  Shorts <- MCShorts
  Octets <- MCOctets
  Strings <- MCStrings
  \* Three handlers, given to either list at any time and from any of them, two
  \* watchers, two notices.
  Handlers = {"h1", "h2", "h3"}
  Watchers = {"w1", "w2"}
  MaxNotices = 2
  \* Twelve messages, at any time.
  MaxMessages = 12
  \* Two XHRs, which jQuery.active counts together, and a script, which it does not.
  Xhrs = {"x1", "x2"}
  Scripts = {"s1"}
SPECIFICATION LibrariesSpec
INVARIANTS
  RoundTrip
  TextSurvives
  ParamsShown
  EndsOnce
PROPERTIES
  ImplementsPromise
  MessagesShown
\* A packet is sent or loaded once, and messages end.
CHECK_DEADLOCK FALSE
