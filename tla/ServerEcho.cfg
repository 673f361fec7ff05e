CONSTANTS
  MacLength = 1
  Macs <- OneDevice
  Devices <- OneDevice
  Requests = {1}
  TableSize = 2
  MaxSlots = 2
  StartingSlots = 3
  Width = 16
  ServerMode = "LOCAL"
  Targets = {1}
  Bodies = {"a"}
  QueueSlots = 4
  QueueLimit = 5
  ForeignIds = {}
  MaxForeign = 0
SPECIFICATION ServerSpec
PROPERTIES EchoForServer
