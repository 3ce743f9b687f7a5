SPECIFICATION Spec
CONSTANTS
  IdleDt <- Period2
  RunDt <- Period2
  NInit = 2
  NStop = 1
  Others = 1
  QSize = 6
  Timeouts = {2}
  Isr = {TRUE, FALSE}
  Horizon = 4
  MaxLate = 2
  MaxSet = 1
INVARIANTS TypeOK RunOnTheGrid ArmedDeadline
PROPERTIES CallbackOrder RunTimes NoFalseTimeout
CHECK_DEADLOCK FALSE
