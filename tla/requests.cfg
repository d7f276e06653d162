\* Three friends and two requests, each to one of them, or one to two.
SPECIFICATION Spec
CONSTANTS
  FbUsers = {ann, bob, cid}
  Links = {l1, l2}
  MaxLoads = 3
  MaxReceivers = 2
SYMMETRY Alike
INVARIANTS
  RequestsReachTheirUser
  PendingIsAnswerable
  AcceptedInvitesCounted
  AcceptedByInvitee
PROPERTIES
  FollowedIsAccepted
\* Links and loads run out.
CHECK_DEADLOCK FALSE
