SPECIFICATION Spec
CONSTANTS
  Device = {d1, d2}
  NoDevice = NoDevice
  Requests = {"attach", "detach", "quality", "boot", "shutdown", "restart", "bad"}
  Teardowns = {"onClose"}
  MaxGen = 2
SYMMETRY DeviceSymmetry
INVARIANT TypeOK
INVARIANT NoOrphanFeed
INVARIANT ClosedOnce
INVARIANT StreamEndedUnasked
INVARIANT EventOnRequestRoute
INVARIANT PendingExact
INVARIANT PowerCycleClean
