SPECIFICATION Spec
CONSTANTS
  Client = {c1, c2}
  NoClient = NoClient
  c1 = c1
  c2 = c2
  k1 = k1
  k2 = k2
  k3 = k3
  Key = {k1, k2}
  Keys <- MCTwoKeys
  Pinned = {k1, k2}
  Displace = {}
  Drops = FALSE
PROPERTY LeaverSparesOthers
CHECK_DEADLOCK FALSE
