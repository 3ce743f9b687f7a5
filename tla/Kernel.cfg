SPECIFICATION Spec
CONSTANTS
  Dt <- Periods123
  M = 2
  Triggers = {2}
  Exiters = {3}
  QSize = 3
  TimeMod = 16
  Horizon = 7
  Preempts = {"idle", "calls"}
INVARIANTS RingMatches CalledInOrder OnTheGrid
PROPERTIES Spacing DiesOnlyWhenFull
CHECK_DEADLOCK FALSE
