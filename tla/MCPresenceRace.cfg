SPECIFICATION PresenceSpec
CONSTANTS
  Watcher = {w1, w2}
  MaxReg = 2
  Overlap = TRUE
SYMMETRY WatcherSymmetry
INVARIANT ViewSettles
CHECK_DEADLOCK FALSE
