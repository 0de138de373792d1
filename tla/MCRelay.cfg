SPECIFICATION FairSpec
CONSTANTS
  Client = {c1, c2}
  NoClient = NoClient
  c1 = c1
  c2 = c2
  k1 = k1
  k2 = k2
  k3 = k3
  Key = {k1, k2, k3}
  Keys <- MCKeys
  Pinned = {k1, k2}
  Displace = {"takeover", "rejoin"}
  Drops = TRUE
INVARIANT TypeOK
INVARIANT RefusedNeverReaches
INVARIANT SessionIsAuthenticated
PROPERTY SlotFreed
PROPERTY JoinAnswered
CHECK_DEADLOCK FALSE
