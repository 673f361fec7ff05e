CONSTANTS
  OwnNet = 1
  Nets = {1, 2}
  ClientIds = {4}
  Bodies = {"hello", "hi"}
SPECIFICATION Spec
PROPERTIES WholeMessages
