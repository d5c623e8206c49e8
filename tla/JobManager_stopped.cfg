SPECIFICATION Spec
CONSTANTS
  j1 = j1
  j2 = j2
  p1 = p1
  Jobs <- MCOneJob
  Projects <- MCProjects
  ProjectOf <- MCOneProjectOf
  ReadOnly <- MCNoReadOnly
  Stoppers = {s1}
  Recovery = Recovery
  None = None
  Recovered = TRUE
  Unregisters = FALSE
  MaxCrashes = 0
INVARIANTS
  StoppedNeverSucceeds
