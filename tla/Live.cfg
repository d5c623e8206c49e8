SPECIFICATION LiveSpec
CONSTANTS
  MaxOutput = 1
  MaxBeats = 1
  SlowTelegram = FALSE
  Orphans = TRUE
  Schedules <- Ids
  Interval <- TwoIntervals
  Poll = 1
  Horizon = 5
  MaxCrashes = 1
  j1 = j1
  p1 = p1
  s1 = s1
  Recovery = Recovery
  None = None
INVARIANTS
  NoRunnerLeftBehind
  OutputKept
  OnceMoreAfterRemoval
PROPERTIES
  ResultWins
  OncePerInterval
  EverySubmittedJobSettles
  EveryWaitingRunEnters
  StageAlwaysEnds
  SchedulesKeepFiring
