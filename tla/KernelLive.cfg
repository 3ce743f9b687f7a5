SPECIFICATION FairSpec
CONSTANTS
  Dt <- Periods12
  M = 0
  Triggers = {}
  Exiters = {2}
  QSize = 2
  TimeMod = 4
  Horizon = 4
  Preempts = {"idle", "calls"}
PROPERTIES EveryTaskRuns ExitEnds
CHECK_DEADLOCK FALSE
