SPECIFICATION ChatSpec
CONSTANTS
  None = None
  Updates = {u1, u2, u3}
  Plans = {p1, p2}
  Questions = 2
  Window = 2
  MaxCrashes = 1
  Threads = {t1, t2}
  Branches = {b1}
  Schedules = {s1}
  Kinds = {"/clear", "/discard", "/schedule"}
  MaxUpdates = 4
SYMMETRY Symmetry
CHECK_DEADLOCK FALSE
INVARIANTS
  PlanRunsOncePerLife
  AnswersFollowQuestions
  AbandonedIsOver
  HandledOnce
  ExecutedWasAsked
PROPERTIES
  OnlyTheLatestRuns
