SPECIFICATION TalkSpec
CONSTANTS
  None = None
  ChatJobs = {1, 2, 3}
  ProjectOf <- OneChat
  Fixes = {}
  MaxDepth = 32
  MaxRows = 0
  ByteLimit = FALSE
  MaxClears = 0
  AtOnce = 3
INVARIANTS ReplyContinuesSession
