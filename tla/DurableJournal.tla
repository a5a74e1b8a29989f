---------------------------- MODULE DurableJournal ----------------------------
(***************************************************************************)
(* The durable journal and the lock file that guards it.  They share no    *)
(* state: the lock decides which process may write, the journal what a     *)
(* start makes of what was written.                                        *)
(***************************************************************************)
EXTENDS CommandJournal

CONSTANTS Journals, Processes, Home, Nobody, MaxCrashes, MayFail   \* of JournalLock

VARIABLES lockFile, refs, acquired, running, at, found, alive, crashes, blind

lockVars == <<lockFile, refs, acquired, running, at, found, alive, crashes, blind>>

Lock == INSTANCE JournalLock

ASSUME SharingAssumption == Lock!LockAssumption
-----------------------------------------------------------------------------
\* The lock file is kept as long as a journal of its owner is open, and no longer (JournalLock).
LockFileKept == Lock!LockFileKept
=============================================================================
