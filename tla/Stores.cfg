SPECIFICATION StoresSpec
CONSTANTS
  MaxJobs = 2
  Slug <- SameSlug
  MaxClock = 2
  MaxCommands = 1
  MaxCrashes = 1
  None = None
  User = user
  Names = {"a", "b"}
  Tokens = {"t1", "t2", "t3"}
  Secrets = {"s", " s"}
  Strip <- Blanks
  Requests = {q1, q2}
  AllowPlaintext = TRUE
  Legacy <- OneLegacy
  MaxRequests = 2
  MaxEnds = 1
  Directories <- Folders
  Heads <- Words
  MaxSubmitted = 2
  MaxRestarts = 2
  MaxEntries = 2
  Limit = 1
  Flights = {f1, f2}
  MaxLines = 3
  MaxLoads = 1
  MaxStarts = 1
  ChatJobs = {1, 2, 3}
  ProjectOf <- OneChat
  Fixes = {2}
  MaxDepth = 1
  MaxRows = 3
  ByteLimit = FALSE
  MaxClears = 1
  AtOnce = 2
  \* an agent's run, a read-only one and an agent's, of one session
  Runs = {1, 2, 3}
  ReadOnly = {2}
  HistoryLimit = 3
  CharLimit = 4
  Sizes = {1, 2}
  MaxPatches = 2
CHECK_DEADLOCK FALSE
INVARIANTS
  ModesKept
  SessionsAreThreads
  ReplyFollowsUsers
  NoStaleBot
  UpdatesReachTheirBot
  RestartKeepsProjects
  EditsSurvive
  PushedIsValidated
  ModelReadsConversation
  OutcomeHolds
  PageFollowsLog
PROPERTIES
  BranchesOnlyGrow
