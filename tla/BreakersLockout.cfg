SPECIFICATION Spec
CONSTANTS
  Calls = {1, 2}
  Providers = {}
  Sessions = {"s1", "s2"}
  Global = "g"
  Nothing = "none"
  Threshold <- MCThreshold
  SuccessThreshold = 1
  HalfOpenMaxCalls = 1
  FailureWindow = 2
  RecoveryTimeout = 1
  StaleTimeout = 1
  MaxTime = 3
INVARIANT SessionsRecover
CHECK_DEADLOCK FALSE
