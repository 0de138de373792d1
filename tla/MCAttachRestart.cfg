SPECIFICATION Spec
CONSTANTS
  Device = {d1}
  NoDevice = NoDevice
  Requests = {"attach", "restart"}
  Teardowns = {}
  MaxGen = 3
INVARIANT NoSpawnIntoPowerOff
