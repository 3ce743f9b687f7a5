SPECIFICATION Spec
CONSTANTS
  Dt <- Period2
  M = 0
  Triggers = {}
  Exiters = {}
  QSize = 2
  TimeMod = 8
  Horizon = 20
  Preempts = {"idle"}
PROPERTY Spacing
CHECK_DEADLOCK FALSE
