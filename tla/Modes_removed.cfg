SPECIFICATION ModesSpec
CONSTANTS
  Directories <- Folders
  Heads <- Words
  MaxSubmitted = 1
  MaxRestarts = 2
  None = None
CHECK_DEADLOCK FALSE
INVARIANTS
  AddonsNeverWrite
