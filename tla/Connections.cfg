SPECIFICATION MCSpec
CONSTANTS
  Conns = {1, 2}
  MaxConnections = 1
  MaxPending = 1
  Stops = {1}
  UseStdio = TRUE
  Executions = {1, 2}
  Dialogs = {1, 2, 3}
  Sessions = {"a", "b"}
  Session <- MCSession
  Method <- MCMethod
  HasSignal = {1, 3}
  Values = {"yes"}
  Default = NoValue
  MaxDialogs = 2
  Callers = {1, 2, 3}
  Observers = {3}
  Creations = {1, 2, 3}
  NoCreation = 0
  Keys = {"npm_config_prefix", "NPM_CONFIG_PREFIX"}
INVARIANT ConnectionsAccounted
INVARIANT DialogsAccounted
INVARIANT StartupSafe
PROPERTY EveryWaitEnds
INVARIANT DrainedFirst
INVARIANT EnvironmentSafe
\* The server stops; a dialog, the start and a creation end.
CHECK_DEADLOCK FALSE
