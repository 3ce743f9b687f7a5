SPECIFICATION Spec
CONSTANTS
  IdleDt <- Period2
  RunDt <- NoPeriods
  NInit = 1
  NStop = 1
  Others = 0
  QSize = 8
  Timeouts = {}
  Isr = {FALSE}
  Horizon = 6
  MaxLate = 1
  MaxSet = 0
PROPERTY IdleSpacing
CHECK_DEADLOCK FALSE
