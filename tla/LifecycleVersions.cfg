SPECIFICATION Spec
CONSTANTS
  Ops <- Versions
  Kind <- VersionsKind
  Target <- VersionsTarget
  Ids <- MCIds
  NoOp = NoOp
  MaxSessions = 2
  MayFail = TRUE
  MayFailCleanup = FALSE
  MayExpire = FALSE
  MayDispose = FALSE
  MayDuplicate = FALSE
PROPERTIES
  NoLostUpdate
  ImplementsRegistry
CHECK_DEADLOCK FALSE
