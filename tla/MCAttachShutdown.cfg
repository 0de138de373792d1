SPECIFICATION Spec
CONSTANTS
  Device = {d1, d2}
  NoDevice = NoDevice
  Requests = {"attach", "shutdown"}
  Teardowns = {}
  MaxGen = 3
PROPERTY ShutdownSparesOthers
