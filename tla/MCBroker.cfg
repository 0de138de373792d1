SPECIFICATION BrokerSpec
CONSTANTS
  Watcher = {w1, w2}
  MaxReg = 3
  Overlap = FALSE
  c1 = c1
  c2 = c2
  k1 = k1
  k2 = k2
  Client = {c1, c2}
  Key = {k1, k2}
  KeyOf <- MCKeyOf
  Reports <- MCReports
  Second = 2
  Window = 3
  TTL = 4
  FetchMax = 1
  MaxTime = 8
INVARIANT BrokerTypeOK
INVARIANT ViewSettles
INVARIANT NewestWins
INVARIANT LifeLeft
INVARIANT WaitBounded
PROPERTY DotConverges
CHECK_DEADLOCK FALSE
