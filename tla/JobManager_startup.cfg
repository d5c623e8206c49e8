SPECIFICATION Spec
CONSTANTS
  j1 = j1
  j2 = j2
  p1 = p1
  Jobs <- MCJobs
  Projects <- MCProjects
  ProjectOf <- MCProjectOf
  ReadOnly <- MCReadOnly
  Stoppers = {}
  Recovery = Recovery
  None = None
  Recovered = FALSE
  Unregisters = FALSE
  MaxCrashes = 0
INVARIANTS
  RestartFailsOnlyInterrupted
