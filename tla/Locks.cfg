SPECIFICATION MCSpec
CONSTANTS
  Callers <- MCCallers
  SessionIds = {"s1", "s2"}
  Target <- MCTarget
  Polite <- MCPolite
  NoCaller = NoCaller
  MaxQueueSize = 2
  MayTimeOut = TRUE
  MayClear = TRUE
  Calls = {1, 2, 3}
  NoCall = 0
  Ids = {"i1", "i2"}
  Stores = {"a", "b"}
  Processes = {"p", "q"}
  Process <- MCProcess
  Scripts <- MCScripts
  MaxEntries = 1
  MaxCrashes = 1
INVARIANT LockTableSound
INVARIANT MutationsSafe
PROPERTY LockWaitsEnd
PROPERTY FirstComeFirstServed
PROPERTY ImplementsMutex
\* The metadata store stops when its calls have ended.
CHECK_DEADLOCK FALSE
