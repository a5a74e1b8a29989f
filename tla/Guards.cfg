SPECIFICATION MCSpec
CONSTANTS
  UnknownTypes = {"no_such_type"}
  MaxChanges = 1
  NoFile = NoFile
  Sessions = {"a"}
  Nobody = "none"
  SentTypes = {"prompt", "extension_ui_response", "create_session"}
  MaxCommands = 2
  MaxGlobal = 3
  MaxResponses = 1
  RateWindow = 2
  Lifetime = 1
  RateTime = 2
  MaxGeneration = 5
  Calls = {1, 2}
  Providers = {"llm"}
  Global = "bash"
  Threshold <- MCThreshold
  SuccessThreshold = 1
  HalfOpenMaxCalls = 1
  FailureWindow = 2
  RecoveryTimeout = 1
  StaleTimeout = 1
  BreakerTime = 3
  Keys = {"x", "y", "z"}
  Limit = 1
  MaxKeys = 2
  CounterWindow = 2
  CounterTime = 5
  MaxOrder = 5
  Levels = {1, 2}
  Clears = TRUE
  MaxStates = 2
  RealertAfter = 2
  AlertTime = 3
  Home <- MCHome
  Cwd <- MCCwd
  Dirs <- MCDirs
  Files <- MCFiles
  Links <- MCLinks
  Names = {".pi", "agent", "sessions", "h", "p", "s", "w", "a", "x",
           "new.jsonl", "old.json", "link.jsonl", "in.jsonl", "out.jsonl"}
  SessionNames = {"new.jsonl", "old.json", "link.jsonl", "in.jsonl", "out.jsonl"}
  DangerousNames = {}
  Stored = {1, 2}
  StoredFile <- MCStoredFile
  MaxDepth = 1
  MaxVisited = 2
  FileChanges = 1
  Nodes = {1, 2, 3, 4}
  TreeEntries <- MCEntries
  TreeDepth = 1
  TreeNodes = 2
  HistoryFiles <- MCHistoryFiles
  Chunks = {1, 2, 3}
  HistoryLimits = {1, 2}
  ScanLimits = {1, 3}
  Matching = {1}
  MayRunOut = TRUE
INVARIANT WithinLimits
INVARIANT CircuitsDecide
INVARIANT CounterExact
INVARIANT AlertsHeard
INVARIANT DispatchTotal
INVARIANT VersionsTell
INVARIANT ListingTrue
INVARIANT TreeInOrder
INVARIANT NewestEntriesFirst
\* A guard stops when its time is over, a query when it is answered.
CHECK_DEADLOCK FALSE
