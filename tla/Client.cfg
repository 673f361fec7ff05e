CONSTANTS
  OwnNet = 1
  Nets = {1, 2}
  ClientIds = {4, 5}
  Bodies = {"hi"}
SPECIFICATION Spec
INVARIANTS TypeOK JoinedHasSlot
PROPERTIES PendingUntilSent StatusInOwnSlot
