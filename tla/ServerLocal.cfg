CONSTANTS
  MacLength = 2
  Macs <- TwoWithZero
  Devices <- TwoWithZero
  Requests = {1, 3}
  TableSize = 2
  MaxSlots = 2
  StartingSlots = 3
  Width = 16
  ServerMode = "LOCAL"
  Targets = {1, 4}
  Bodies = {"a"}
  QueueSlots = 4
  QueueLimit = 5
  ForeignIds = {}
  MaxForeign = 0
SPECIFICATION ServerSpec
INVARIANTS ServerTypeOK QueueFeedsStatus TimerFollowsState NoOverrun
PROPERTIES ControlAnswersStatus KeepsTable JoinRespToRequester JoinRequestYields SyncRecurs QueueDrains
