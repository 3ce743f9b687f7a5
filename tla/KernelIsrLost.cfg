SPECIFICATION Spec
CONSTANTS
  Dt <- Period1
  M = 0
  Triggers = {}
  Exiters = {}
  QSize = 2
  TimeMod = 16
  Horizon = 8
  Preempts = {"any"}
PROPERTY EmptyMeansAllCalled
CHECK_DEADLOCK FALSE
