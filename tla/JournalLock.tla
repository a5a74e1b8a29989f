----------------------------- MODULE JournalLock -----------------------------
(***************************************************************************)
(* The lock file that gives one process at a time the journal, and the     *)
(* count of the journals of one process that share it.  The code runs      *)
(* synchronously, so that journals of one process do not interleave, but   *)
(* each file operation is a step of its own to the other processes.        *)
(***************************************************************************)
EXTENDS Integers, FiniteSets

CONSTANTS Journals, Processes, Home,   \* the process each DurableCommandJournal lives in
          Nobody, MaxCrashes, MayFail

LockAssumption ==
  /\ IsFiniteSet(Journals) /\ Home \in [Journals -> Processes]
  /\ Nobody \notin Journals /\ Nobody \notin Processes
  /\ MaxCrashes \in Nat /\ MayFail \in BOOLEAN

VARIABLES lockFile,   \* lockPath: the pid that made it, whether the payload is there, and when
          refs,       \* lockRefCountsByPath of each process
          acquired,   \* lockAcquired of each journal
          running,    \* the journal whose call a process is in
          at,         \* the next file operation of that call
          found,      \* what it has read of the lock file
          alive,
          crashes,
          blind       \* history: a lock file was removed that was not the one read

vars == <<lockFile, refs, acquired, running, at, found, alive, crashes, blind>>

NoFile == [by |-> Nobody, written |-> FALSE, born |-> 0]
Idle(j) == alive[Home[j]] /\ running[Home[j]] = Nobody

Init ==
  /\ lockFile = NoFile
  /\ refs = [p \in Processes |-> 0] /\ acquired = [j \in Journals |-> FALSE]
  /\ running = [p \in Processes |-> Nobody]
  /\ at = [p \in Processes |-> "rest"] /\ found = [p \in Processes |-> NoFile]
  /\ alive = [p \in Processes |-> TRUE] /\ crashes = 0 /\ blind = FALSE
-----------------------------------------------------------------------------
GoTo(p, step) == at' = [at EXCEPT ![p] = step]
Return(p) ==
  /\ running' = [running EXCEPT ![p] = Nobody] /\ GoTo(p, "rest")
  /\ found' = [found EXCEPT ![p] = NoFile]

\* Another journal of the process has the file: count this one.
AlwaysAlone(p) == TRUE                            \* fault: the count is ignored
FirstInProcess(p) == refs[p] = 0

\* initialize, compactNow, or an append, even one made after dispose().
AcquireShared(j) ==
  LET p == Home[j] IN
  /\ Idle(j) /\ ~acquired[j] /\ ~FirstInProcess(p)
  /\ refs' = [refs EXCEPT ![p] = @ + 1] /\ acquired' = [acquired EXCEPT ![j] = TRUE]
  /\ UNCHANGED <<lockFile, running, at, found, alive, crashes, blind>>

AcquireProcessLock(j) ==
  LET p == Home[j] IN
  /\ Idle(j) /\ ~acquired[j] /\ FirstInProcess(p)
  /\ running' = [running EXCEPT ![p] = j] /\ GoTo(p, "create")
  /\ UNCHANGED <<lockFile, refs, acquired, found, alive, crashes, blind>>

\* createFreshLockFile: open with wx, then write the payload.
CreateFile(p) ==
  /\ at[p] \in {"create", "recreate"} /\ lockFile = NoFile
  /\ lockFile' = [by |-> p, written |-> FALSE, born |-> crashes]
  /\ GoTo(p, "write")
  /\ UNCHANGED <<refs, acquired, running, found, alive, crashes, blind>>

WritePayload(p) ==
  /\ at[p] = "write"
  /\ lockFile' = IF lockFile.by = p THEN [lockFile EXCEPT !.written = TRUE] ELSE lockFile
  /\ refs' = [refs EXCEPT ![p] = 1] /\ acquired' = [acquired EXCEPT ![running[p]] = TRUE]
  /\ Return(p)
  /\ UNCHANGED <<alive, crashes, blind>>

\* The disk is full: acquire throws and the empty file stays.
WriteFails(p) ==
  /\ MayFail /\ at[p] = "write" /\ Return(p)
  /\ UNCHANGED <<lockFile, refs, acquired, alive, crashes, blind>>

FileExists(p) ==
  /\ at[p] = "create" /\ lockFile # NoFile /\ GoTo(p, "judge")
  /\ UNCHANGED <<lockFile, refs, acquired, running, found, alive, crashes, blind>>

LiveOwner(p) == /\ lockFile.written                \* readLockOwnerPid, isPidAlive
                /\ lockFile.by # p /\ alive[lockFile.by]

RefusedByOwner(p) ==
  /\ at[p] = "judge" /\ LiveOwner(p) /\ Return(p)
  /\ UNCHANGED <<lockFile, refs, acquired, alive, crashes, blind>>

\* The owner is dead, is this process, or cannot be read.
FoundStale(p) ==
  /\ at[p] = "judge" /\ ~LiveOwner(p)
  /\ found' = [found EXCEPT ![p] = lockFile] /\ GoTo(p, "remove")
  /\ UNCHANGED <<lockFile, refs, acquired, running, alive, crashes, blind>>

\* rm takes whatever file is there by now.  Read before its payload was written, or replaced
\* since, the file may be that of a live owner.
Removing(p) ==
  /\ blind' = (blind \/ (lockFile # NoFile /\ (lockFile # found[p] \/ ~lockFile.written)))
  /\ lockFile' = NoFile

RemoveStale(p) ==
  /\ at[p] = "remove" /\ Removing(p) /\ GoTo(p, "recreate")
  /\ UNCHANGED <<refs, acquired, running, found, alive, crashes>>

RefusedAgain(p) ==
  /\ at[p] = "recreate" /\ lockFile # NoFile /\ Return(p)
  /\ UNCHANGED <<lockFile, refs, acquired, alive, crashes, blind>>
-----------------------------------------------------------------------------
\* releaseProcessLock, from dispose() or a failed initialize().
ReleaseShared(j) ==
  LET p == Home[j] IN
  /\ Idle(j) /\ acquired[j] /\ refs[p] > 1
  /\ refs' = [refs EXCEPT ![p] = @ - 1] /\ acquired' = [acquired EXCEPT ![j] = FALSE]
  /\ UNCHANGED <<lockFile, running, at, found, alive, crashes, blind>>

ReleaseProcessLock(j) ==
  LET p == Home[j] IN
  /\ Idle(j) /\ acquired[j] /\ refs[p] = 1
  /\ refs' = [refs EXCEPT ![p] = 0] /\ acquired' = [acquired EXCEPT ![j] = FALSE]
  /\ running' = [running EXCEPT ![p] = j] /\ GoTo(p, "check")
  /\ UNCHANGED <<lockFile, found, alive, crashes, blind>>

SomeoneElses(p) == lockFile.written /\ lockFile.by # p

CheckOwner(p) ==
  /\ at[p] = "check"
  /\ \/ SomeoneElses(p) /\ Return(p)
     \/ /\ ~SomeoneElses(p)
        /\ found' = [found EXCEPT ![p] = lockFile] /\ GoTo(p, "unlink") /\ UNCHANGED running
  /\ UNCHANGED <<lockFile, refs, acquired, alive, crashes, blind>>

Unlink(p) ==
  /\ at[p] = "unlink" /\ Removing(p) /\ Return(p)
  /\ UNCHANGED <<refs, acquired, alive, crashes>>

\* A process dies between two file operations; one with the same pid may follow.
Crash(p) ==
  /\ alive[p] /\ crashes < MaxCrashes
  /\ alive' = [alive EXCEPT ![p] = FALSE] /\ crashes' = crashes + 1
  /\ refs' = [refs EXCEPT ![p] = 0]
  /\ acquired' = [j \in Journals |-> acquired[j] /\ Home[j] # p]
  /\ Return(p)
  /\ UNCHANGED <<lockFile, blind>>

Restart(p) ==
  /\ ~alive[p] /\ alive' = [alive EXCEPT ![p] = TRUE]
  /\ UNCHANGED <<lockFile, refs, acquired, running, at, found, crashes, blind>>

Step(p) ==
  \/ CreateFile(p) \/ WritePayload(p) \/ WriteFails(p) \/ FileExists(p) \/ RefusedByOwner(p)
  \/ FoundStale(p) \/ RemoveStale(p) \/ RefusedAgain(p) \/ CheckOwner(p) \/ Unlink(p)

Next ==
  \/ \E j \in Journals : AcquireShared(j) \/ AcquireProcessLock(j)
                         \/ ReleaseShared(j) \/ ReleaseProcessLock(j)
  \/ \E p \in Processes : Step(p) \/ Crash(p) \/ Restart(p)

Spec == Init /\ [][Next]_vars
-----------------------------------------------------------------------------
LockFiles == [by : Processes \cup {Nobody}, written : BOOLEAN, born : Nat]
TypeOK ==
  /\ lockFile \in LockFiles
  /\ refs \in [Processes -> Nat] /\ acquired \in [Journals -> BOOLEAN]
  /\ running \in [Processes -> Journals \cup {Nobody}]
  /\ at \in [Processes -> {"rest", "create", "write", "judge", "remove", "recreate", "check", "unlink"}]
  /\ found \in [Processes -> LockFiles]
  /\ alive \in [Processes -> BOOLEAN] /\ crashes \in Nat /\ blind \in BOOLEAN

\* While a journal of a process is open the lock file is there and is its own, so no other
\* process writes, whatever its siblings close: only a file removed blindly breaks this.
OwnsItsFile ==
  ~blind => \A j \in Journals :
              acquired[j] => lockFile.by = Home[j] /\ lockFile.written

\* Once every journal is closed nothing blocks the next process, short of a crash or a full disk.
LeavesNothing ==
  (crashes = 0 /\ ~MayFail /\ \A p \in Processes : refs[p] = 0 /\ at[p] = "rest")
    => lockFile = NoFile

\* The lock file is kept as long as a journal of its owner is open, and no longer.
LockFileKept == TypeOK /\ OwnsItsFile /\ LeavesNothing

\* One process writes the journal ("single-writer lock file enforcement").
SingleWriter == \A i, j \in Journals : acquired[i] /\ acquired[j] => Home[i] = Home[j]
=============================================================================
