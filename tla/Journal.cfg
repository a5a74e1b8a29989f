SPECIFICATION MCSpec
CONSTANTS
  i1 = i1
  i2 = i2
  Nobody = Nobody
  Ids = {i1, i2}
  MaxEntries = 1
  MaxRequests = 3
  MaxIncidents = 3
  Journals = {1, 2, 3}
  Processes = {"p", "q"}
  Home <- MCHome
  MaxCrashes = 1
  MayFail = FALSE
SYMMETRY Symmetry
INVARIANT LockFileKept
INVARIANT RecoveryFaithful
INVARIANT AtMostOnceDurably
PROPERTY CompactionKeepsRecovery
\* Each part ends when its requests, incidents or crashes are used up.
CHECK_DEADLOCK FALSE
