SPECIFICATION FairSpec
CONSTANTS
  Ops <- Failing
  Kind <- FailingKind
  Target <- FailingTarget
  Ids <- MCIds
  NoOp = NoOp
  MaxSessions = 1
  MayFail = TRUE
  MayFailCleanup = TRUE
  MayExpire = TRUE
  MayDispose = TRUE
  MayDuplicate = FALSE
INVARIANTS
  BooksBalance
PROPERTIES
  OperationsEnd
CHECK_DEADLOCK FALSE
