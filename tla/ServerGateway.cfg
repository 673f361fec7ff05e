CONSTANTS
  MacLength = 1
  Macs <- OneDevice
  Devices <- OneDevice
  Requests = {1, 3}
  TableSize = 1
  MaxSlots = 2
  StartingSlots = 3
  Width = 16
  ServerMode = "GATEWAY"
  Targets = {1, 4}
  Bodies = {"a"}
  QueueSlots = 2
  QueueLimit = 3
  ForeignIds = {5}
  MaxForeign = 2
SPECIFICATION ServerSpec
INVARIANTS QueueFeedsStatus TimerFollowsState
PROPERTIES OfflineToSender
CHECK_DEADLOCK FALSE
