SPECIFICATION Spec
CONSTANTS
  None = None
  Fixes = {f1}
  Requests = {r1, r2}
  Kinds = {"rebase", "automerge"}
  TheirRefs = {}
  MaxTheirs = 0
  MaxCrashes = 0
SYMMETRY Symmetry
INVARIANTS OwnTreeStays
