\* One invitation.
SPECIFICATION Spec
CONSTANTS
  FbUsers = {ann, bob}
  Links = {l1}
  MaxLoads = 2
  MaxReceivers = 1
INVARIANT
  SentInvitesCounted
\* Links and loads run out.
CHECK_DEADLOCK FALSE
