CONSTANTS
  MacLength = 1
  Macs <- AndTorn
  Devices <- TwoClients
  MacA <- First
  MacB <- Second
  Requests = {1}
  TableSize = 2
  MaxSlots = 2
  StartingSlots = 3
  Width = 16
  ServerMode = "LOCAL"
  Targets = {4, 5}
  DestA = 5
  DestB = 4
  Bodies = {"a"}
  QueueSlots = 4
  QueueLimit = 5
  ForeignIds = {}
  MaxForeign = 0
  MaxOwed = 3
  MaxPresses = 1
  MaxLosses = 0
  MaxResets = 0
  OneAtATime = FALSE
SPECIFICATION NetworkSpec
INVARIANTS SlotAgreement MembersDoNotCollide JoinsThisNetwork MembersAreClients
PROPERTIES AnswersAreRead ServerAsAlone DeliversMessages
