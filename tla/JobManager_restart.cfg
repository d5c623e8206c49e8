SPECIFICATION Spec
CONSTANTS
  j1 = j1
  j2 = j2
  p1 = p1
  Jobs <- MCJobs
  Projects <- MCProjects
  ProjectOf <- MCProjectOf
  ReadOnly <- MCReadOnly
  Stoppers = {s1, s2}
  Recovery = Recovery
  None = None
  Recovered = FALSE
  Unregisters = TRUE
  MaxCrashes = 1
CONSTRAINT Affordable
INVARIANTS
  ProjectExclusion
  LaunchedAtMostOnce
  OutcomeToldOnce
  InterruptedIsCancelled
  StopBeforeStart
  SucceededIsPushed
PROPERTIES
  StatusForward
  ServesOneJobAtATime
