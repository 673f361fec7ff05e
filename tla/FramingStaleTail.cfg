CONSTANTS
  Frames <- InTheAir
  DataLength = 64
  Top = 260
  MaxFrames = 2
  MaxLosses = 0
SPECIFICATION Spec
INVARIANTS TextAsSent
CHECK_DEADLOCK FALSE
