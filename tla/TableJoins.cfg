CONSTANTS
  MacLength = 3
  Macs <- MacsWithZeros
  Requests = {0, 2, 3}
  TableSize = 3
  MaxSlots = 2
  StartingSlots = 3
  Width = 12
SPECIFICATION Spec
INVARIANTS TypeOK UniqueSlots UniqueDevices FilledInOrder AnswerForRequester
PROPERTIES StableRows ImplementsRegistry
