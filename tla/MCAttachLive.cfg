SPECIFICATION FairSpec
CONSTANTS
  Device = {d1}
  NoDevice = NoDevice
  Requests = {"attach", "quality", "boot"}
  Teardowns = {"onClose"}
  MaxGen = 2
PROPERTY AttachAnswered
PROPERTY FeedsReaped
