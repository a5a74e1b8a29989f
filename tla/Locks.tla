-------------------------------- MODULE Locks --------------------------------
(***************************************************************************)
(* The two components that queue for a lock, together: the session locks   *)
(* (SessionLockManager, which this extends) and the metadata file with its *)
(* lock file (SessionStore).  They share no state.                         *)
(***************************************************************************)
EXTENDS SessionLockManager

CONSTANTS Calls, NoCall, Ids, Stores, Processes, Process, Scripts,   \* of SessionStore
          MaxEntries, MaxCrashes

VARIABLES script, versions, expected, onDisk, lock, chain, cache, down, crashes, pc, held,
          snapped, judged, todo, mishaps, began

storeVars == <<script, versions, expected, onDisk, lock, chain, cache, down, crashes, pc, held,
               snapped, judged, todo, mishaps, began>>

Metadata == INSTANCE SessionStore

ASSUME MetadataAssumption == Metadata!StoreAssumption
-----------------------------------------------------------------------------
\* One mutation of the metadata file at a time, and none is lost (SessionStore).
MutationsSafe == Metadata!MutationsSafe

\* Every wait for a lock ends, for a session or for the metadata file.
LockWaitsEnd == WaitersServed /\ Metadata!CallsEnd
=============================================================================
