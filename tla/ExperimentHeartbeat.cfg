SPECIFICATION Spec
CONSTANTS
  IdleDt <- NoPeriods
  RunDt <- NoPeriods
  NInit = 1
  NStop = 1
  Others = 0
  QSize = 8
  Timeouts = {1}
  Isr = {FALSE}
  Horizon = 8
  MaxLate = 1
  MaxSet = 1
INVARIANT HeartbeatNoticed
CHECK_DEADLOCK FALSE
