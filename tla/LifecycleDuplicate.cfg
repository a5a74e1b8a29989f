SPECIFICATION Spec
CONSTANTS
  Ops <- Short
  Kind <- ShortKind
  Target <- ShortTarget
  Ids <- MCIds
  NoOp = NoOp
  MaxSessions = 1
  MayFail = FALSE
  MayFailCleanup = FALSE
  MayExpire = FALSE
  MayDispose = FALSE
  MayDuplicate = TRUE
PROPERTIES
  DuplicateHarmless
CHECK_DEADLOCK FALSE
