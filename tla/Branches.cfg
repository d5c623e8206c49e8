SPECIFICATION Spec
CONSTANTS
  None = None
  Fixes = {f1}
  Requests = {r1, r2}
  Kinds = {"rebase", "discard", "cherrypick", "automerge", "pull", "cleartrees", "clearbranch"}
  TheirRefs = {"main", "branch"}
  MaxTheirs = 1
  MaxCrashes = 1
SYMMETRY Symmetry
INVARIANTS NothingLost MainIsPublished ParentRowIsCurrent OpTreesAreOwned
PROPERTIES MainOnlyGrows
