CONSTANTS
  MacLength = 1
  Macs <- TwoDevices
  Devices <- TwoDevices
  Requests = {1}
  TableSize = 2
  MaxSlots = 2
  StartingSlots = 3
  Width = 16
  ServerMode = "GATEWAY"
  Targets = {1}
  Bodies = {"a"}
  QueueSlots = 4
  QueueLimit = 5
  ForeignIds = {}
  MaxForeign = 0
SPECIFICATION ServerSpec
INVARIANTS SyncSlotFollowsDevices
