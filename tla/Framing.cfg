CONSTANTS
  Frames <- InTheAir
  DataLength = 64
  Top = 260
  MaxFrames = 3
  MaxLosses = 1
SPECIFICATION Spec
INVARIANTS PlainIsHeard ReadAsSent SpillsOnlyIf HangsOnlyIf
CHECK_DEADLOCK FALSE
