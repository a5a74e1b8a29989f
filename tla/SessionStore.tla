---------------------------- MODULE SessionStore ----------------------------
(***************************************************************************)
(* SessionStore: one metadata file shared by the stores of several server  *)
(* processes, a read cache per store, a chain that serializes the          *)
(* mutations of one store, and a lock file that serializes stores.         *)
(*                                                                         *)
(* Every fs call is a step of its own; what the code does between two of   *)
(* them is one step.  The file is the last of versions, so that a cached   *)
(* map and a remembered stat are version numbers.  A metadata entry is the *)
(* call that wrote it.                                                     *)
(***************************************************************************)
EXTENDS Integers, FiniteSets, SequencesExt

CONSTANTS Calls, NoCall, Ids,
          Stores, Processes, Process,     \* the process each store lives in
          Scripts,             \* what the calls are, and what may go wrong meanwhile
          MaxEntries,          \* more entries exceed MAX_METADATA_SIZE
          MaxCrashes

Script == [kind : [Calls -> {"save", "delete", "updateName", "cleanup", "load"}],
           store : [Calls -> Stores],     \* the store each call is made on
           id : [Calls -> Ids],           \* the session it is about
           upsets : SUBSET {"fail", "misread", "crash", "lose"}]

StoreAssumption ==
  /\ Scripts \subseteq Script /\ NoCall \notin Calls
  /\ Process \in [Stores -> Processes]
  /\ MaxEntries \in Nat /\ MaxCrashes \in Nat

VARIABLES script,
          versions,    \* the metadata file after each rename: [map, missing]
          onDisk,      \* ids whose session file exists
          lock,        \* metadataLockPath: [by, stale]; by is NoCall when there is no file
          chain,       \* mutationChain: calls of a store, the head is not settled
          cache,       \* metadataCache (of), the stat it belongs to (snap), cachedMetadataMissing, TTL
          down,        \* processes that are not running
          crashes,
          pc,
          held,        \* the version a call has loaded
          snapped,     \* the version its stat saw
          judged,      \* whose lock file a call found stale
          todo,        \* cleanup: entries to look up, and entries to remove
          mishaps,     \* history: what the lock and the cache cannot protect against
          expected,    \* history: the map every mutation so far adds up to
          began        \* history: the version when a call began

calls == <<pc, held, snapped, judged, todo, began>>
file == <<versions, expected>>
vars == <<script, file, onDisk, lock, chain, cache, down, crashes, calls, mishaps>>

Kind == script.kind
Store == script.store
Id == script.id
MayFail == "fail" \in script.upsets

Empty == [i \in Ids |-> NoCall]
NoLock == [by |-> NoCall, stale |-> FALSE]
Null == [of |-> -1, snap |-> 0, missing |-> TRUE, fresh |-> FALSE]   \* invalidateCache
NothingToDo == [left |-> {}, gone |-> {}]
Current == Len(versions)
MapOf(n) == IF n = 0 THEN Empty ELSE versions[n].map
Entries(m) == {i \in Ids : m[i] # NoCall}
Proc(c) == Process[Store[c]]

\* Between the creation of its lock file and the finally block a call is in ACTIVE_METADATA_LOCKS.
Critical == {"opening", "resetting", "reading", "read", "accessing", "writing", "renamed"}
Mutator(c) == Kind[c] # "load"
InCritical(c) == Mutator(c) /\ pc[c] \in Critical
Ended(c) == pc[c] \in {"done", "failed", "dead"}
-----------------------------------------------------------------------------
Init ==
  /\ script \in Scripts
  /\ versions = <<[map |-> Empty, missing |-> TRUE]>> /\ expected = Empty
  /\ onDisk = Ids /\ lock = NoLock
  /\ chain = [s \in Stores |-> <<>>] /\ cache = [s \in Stores |-> Null]
  /\ down = {} /\ crashes = 0 /\ mishaps = {}
  /\ pc = [c \in Calls |-> "idle"]
  /\ held = [c \in Calls |-> 0] /\ snapped = [c \in Calls |-> 0]
  /\ judged = [c \in Calls |-> NoCall]
  /\ todo = [c \in Calls |-> NothingToDo]
  /\ began = [c \in Calls |-> 0]

\* load, list and the like: the cache is consulted if it is fresh.
Begin(c) ==
  /\ pc[c] = "idle" /\ Proc(c) \notin down
  /\ \/ /\ Mutator(c)
        /\ chain' = [chain EXCEPT ![Store[c]] = Append(@, c)]
        /\ pc' = [pc EXCEPT ![c] = "chained"]
        /\ UNCHANGED began
     \/ /\ ~Mutator(c)
        /\ began' = [began EXCEPT ![c] = Current]
        /\ pc' = [pc EXCEPT ![c] = IF cache[Store[c]].of >= 0 /\ cache[Store[c]].fresh
                                   THEN "checking" ELSE "opening"]
        /\ UNCHANGED chain
  /\ UNCHANGED <<file, onDisk, lock, cache, down, crashes, held, snapped, judged, todo, mishaps>>

\* The cached map is used when the file still has the remembered stat.  An ENOENT finds
\* cachedMetadataMissing set by a mutation that has just dropped the cache, too.
CacheMatches(k) ==
  IF versions[Current].missing THEN k.missing ELSE ~k.missing /\ k.snap = Current

CheckCache(c) ==
  LET k == cache[Store[c]] IN
  /\ pc[c] = "checking"
  /\ \/ /\ CacheMatches(k)
        /\ pc' = [pc EXCEPT ![c] = IF k.of >= 0 THEN "done" ELSE "failed"]
        /\ held' = [held EXCEPT ![c] = k.of]
     \/ ~CacheMatches(k) /\ pc' = [pc EXCEPT ![c] = "opening"] /\ UNCHANGED held
  /\ UNCHANGED <<file, onDisk, lock, chain, cache, down, crashes, snapped, judged, todo, began, mishaps>>

\* What a call does with the map it has loaded, up to its next fs call.
Continue(c, n) ==
  LET m == MapOf(n)
      next == CASE Kind[c] = "load" -> "done"
                [] Kind[c] = "save" -> "writing"
                [] Kind[c] = "cleanup" /\ Entries(m) # {} -> "accessing"
                [] Kind[c] \in {"delete", "updateName"} /\ m[Id[c]] # NoCall -> "writing"
                [] OTHER -> "unlocking"
  IN
  /\ held' = [held EXCEPT ![c] = IF next = "unlocking" THEN 0 ELSE n]
  /\ pc' = [pc EXCEPT ![c] = next]
  /\ todo' = [todo EXCEPT ![c].left = IF Kind[c] = "cleanup" THEN Entries(m) ELSE {}]
  /\ UNCHANGED <<judged, began>>

Remember(c, n, snap, missing) ==
  cache' = [cache EXCEPT ![Store[c]] = [of |-> n, snap |-> snap, missing |-> missing, fresh |-> TRUE]]

\* loadMetadata gets ENOENT: there is nothing yet.
FoundMissing(c) ==
  /\ pc[c] \in {"opening", "reading"} /\ versions[Current].missing
  /\ Remember(c, Current, 0, TRUE) /\ Continue(c, Current)
  /\ UNCHANGED <<file, onDisk, lock, chain, down, crashes, snapped, mishaps>>

\* Any other error, and a file that does not parse: "return empty on error".
Misread(c) ==
  /\ "misread" \in script.upsets /\ pc[c] \in {"opening", "reading"}
  /\ Remember(c, 0, 0, FALSE) /\ Continue(c, 0)
  /\ mishaps' = IF Mutator(c) THEN mishaps \cup {"misread"} ELSE mishaps
  /\ UNCHANGED <<file, onDisk, lock, chain, down, crashes, snapped>>

StatFile(c) ==
  /\ pc[c] = "opening" /\ ~versions[Current].missing
  /\ snapped' = [snapped EXCEPT ![c] = Current]
  /\ pc' = [pc EXCEPT ![c] = IF Cardinality(Entries(MapOf(Current))) > MaxEntries
                             THEN "resetting" ELSE "reading"]
  /\ UNCHANGED <<file, onDisk, lock, chain, cache, down, crashes, held, judged, todo, began, mishaps>>

\* The oversized file, or whatever has replaced it since, is moved to a backup.
ResetFile(c) ==
  /\ pc[c] = "resetting"
  /\ \/ /\ ~versions[Current].missing
        /\ versions' = Append(versions, [map |-> Empty, missing |-> TRUE])
        /\ mishaps' = mishaps \cup {"reset"}
        /\ Remember(c, Current + 1, 0, TRUE)
        /\ Continue(c, 0)
     \/ /\ versions[Current].missing \/ MayFail
        /\ Remember(c, 0, 0, TRUE) /\ Continue(c, 0)
        /\ mishaps' = mishaps \cup {"reset"} /\ UNCHANGED versions
  /\ UNCHANGED <<expected, onDisk, lock, chain, down, crashes, snapped>>

ReadFile(c) ==
  /\ pc[c] = "reading" /\ ~versions[Current].missing
  /\ held' = [held EXCEPT ![c] = Current]
  /\ pc' = [pc EXCEPT ![c] = "read"]
  /\ UNCHANGED <<file, onDisk, lock, chain, cache, down, crashes, snapped, judged, todo, began, mishaps>>

\* The data is back: the cache takes it, with the stat made before the read.
InstallRead(c) ==
  /\ pc[c] = "read"
  /\ Remember(c, held[c], snapped[c], FALSE) /\ Continue(c, held[c])
  /\ snapped' = [snapped EXCEPT ![c] = 0]
  /\ UNCHANGED <<file, onDisk, lock, chain, down, crashes, mishaps>>
-----------------------------------------------------------------------------
\* runMetadataMutation: the previous mutation of this store has settled.
ChainReached(c) == chain[Store[c]][1] = c

StartMutation(c) ==
  /\ pc[c] = "chained" /\ ChainReached(c)
  /\ pc' = [pc EXCEPT ![c] = "locking"]
  /\ UNCHANGED <<file, onDisk, lock, chain, cache, down, crashes, held, snapped, judged, todo, began, mishaps>>

\* writeFile with flag wx creates the lock file; the mutation begins by dropping the cache.
CreateLock(c) ==
  /\ pc[c] = "locking" /\ lock = NoLock
  /\ lock' = [by |-> c, stale |-> FALSE]
  /\ cache' = [cache EXCEPT ![Store[c]] = Null]
  /\ pc' = [pc EXCEPT ![c] = "opening"]
  /\ UNCHANGED <<file, onDisk, chain, down, crashes, held, snapped, judged, todo, began, mishaps>>

NobodyIsAlive(c) == FALSE                         \* fault: age alone makes a lock stale
OwnerAlive(c) ==
  \/ \E d \in Calls : Proc(d) = Proc(c) /\ InCritical(d)
  \/ Proc(lock.by) # Proc(c) /\ Proc(lock.by) \notin down

\* The lock file is older than 30 s and nobody owns it: it will be removed.
JudgeStale(c) ==
  /\ pc[c] = "locking" /\ lock.stale /\ ~OwnerAlive(c)
  /\ judged' = [judged EXCEPT ![c] = lock.by]
  /\ pc' = [pc EXCEPT ![c] = "reaping"]
  /\ UNCHANGED <<file, onDisk, lock, chain, cache, down, crashes, held, snapped, todo, began, mishaps>>

Intruding(c, whose) ==
  mishaps' = IF lock # NoLock /\ lock.by # whose THEN mishaps \cup {"intruded"} ELSE mishaps

\* rm removes the file that is there now.
ReapLock(c) ==
  /\ pc[c] = "reaping"
  /\ lock' = NoLock /\ Intruding(c, judged[c])
  /\ judged' = [judged EXCEPT ![c] = NoCall]
  /\ pc' = [pc EXCEPT ![c] = "locking"]
  /\ UNCHANGED <<file, onDisk, chain, cache, down, crashes, held, snapped, todo, began>>

Settle(c, how) ==
  /\ pc' = [pc EXCEPT ![c] = how]
  /\ chain' = [chain EXCEPT ![Store[c]] = SelectSeq(@, LAMBDA d : d # c)]

\* METADATA_LOCK_TIMEOUT_MS is over, or the lock file cannot be created at all.
GiveUp(c) ==
  /\ pc[c] = "locking" /\ (lock # NoLock \/ MayFail)
  /\ Settle(c, "failed")
  /\ UNCHANGED <<file, onDisk, lock, cache, down, crashes, held, snapped, judged, todo, began, mishaps>>

AgeLock ==
  /\ lock # NoLock /\ ~lock.stale
  /\ lock' = [lock EXCEPT !.stale = TRUE]
  /\ UNCHANGED <<file, onDisk, chain, cache, down, crashes, calls, mishaps>>

\* cleanup looks up the session file of one entry after the other.
AccessNext(c) ==
  /\ pc[c] = "accessing"
  /\ \E i \in todo[c].left :
       LET left == todo[c].left \ {i}
           gone == IF i \in onDisk THEN todo[c].gone ELSE todo[c].gone \cup {i}
       IN /\ todo' = [todo EXCEPT ![c] = [left |-> left, gone |-> gone]]
          /\ pc' = [pc EXCEPT ![c] = IF left # {} THEN "accessing"
                                     ELSE IF gone = {} THEN "unlocking" ELSE "writing"]
  /\ UNCHANGED <<file, onDisk, lock, chain, cache, down, crashes, held, snapped, judged, began, mishaps>>

\* The effect of a mutation on a map: save replaces the entry, updateName keeps the rest of it.
Applied(c, m) ==
  [i \in Ids |-> CASE Kind[c] \in {"save", "updateName"} /\ i = Id[c] -> c
                   [] Kind[c] = "delete" /\ i = Id[c] -> NoCall
                   [] Kind[c] = "cleanup" /\ i \in todo[c].gone -> NoCall
                   [] OTHER -> m[i]]

Dropped(c) ==
  /\ held' = [held EXCEPT ![c] = 0]
  /\ todo' = [todo EXCEPT ![c] = NothingToDo]

\* saveMetadata: rename puts the new file in place, then the cache takes a copy.
RenameFile(c) ==
  LET m == Applied(c, MapOf(held[c])) IN
  /\ pc[c] = "writing"
  /\ versions' = Append(versions, [map |-> m, missing |-> FALSE])
  /\ expected' = Applied(c, expected)
  /\ cache' = [cache EXCEPT ![Store[c]] = [@ EXCEPT !.of = Current + 1, !.fresh = TRUE]]
  /\ pc' = [pc EXCEPT ![c] = "renamed"] /\ Dropped(c)
  /\ UNCHANGED <<onDisk, lock, chain, down, crashes, snapped, judged, began, mishaps>>

\* ... and the stat of the new file is remembered.
RememberStat(c) ==
  /\ pc[c] = "renamed"
  /\ cache' = [cache EXCEPT ![Store[c]] =
                 [@ EXCEPT !.snap = IF versions[Current].missing THEN 0 ELSE Current, !.missing = FALSE]]
  /\ pc' = [pc EXCEPT ![c] = "unlocking"]
  /\ UNCHANGED <<file, onDisk, lock, chain, down, crashes, held, snapped, judged, todo, began, mishaps>>

\* The temporary file cannot be written or renamed: the mutation throws, the file is as it was.
WriteFails(c) ==
  /\ MayFail /\ pc[c] = "writing"
  /\ pc' = [pc EXCEPT ![c] = "failing"] /\ Dropped(c)
  /\ UNCHANGED <<file, onDisk, lock, chain, cache, down, crashes, snapped, judged, began, mishaps>>

LeaveOnFailure(c) == pc[c] = "unlocking"          \* fault: a failed mutation keeps the lock
Leaving(c) == pc[c] \in {"unlocking", "failing"}

\* finally: the lock file that is there goes, whoever made it; rm may fail and leave it.
Unlock(c) ==
  /\ Leaving(c)
  /\ \/ /\ lock' = NoLock /\ Intruding(c, c)
        /\ Settle(c, IF pc[c] = "unlocking" THEN "done" ELSE "failed")
     \/ MayFail /\ Settle(c, "failed") /\ UNCHANGED <<lock, mishaps>>
  /\ UNCHANGED <<file, onDisk, cache, down, crashes, held, snapped, judged, todo, began>>
-----------------------------------------------------------------------------
\* A process dies between two fs calls and may come back under the same pid.
Crash(p) ==
  /\ "crash" \in script.upsets /\ p \notin down /\ crashes < MaxCrashes
  /\ down' = down \cup {p} /\ crashes' = crashes + 1
  /\ pc' = [c \in Calls |-> IF Proc(c) = p /\ pc[c] # "idle" /\ ~Ended(c) THEN "dead" ELSE pc[c]]
  /\ chain' = [s \in Stores |-> IF Process[s] = p THEN <<>> ELSE chain[s]]
  /\ cache' = [s \in Stores |-> IF Process[s] = p THEN Null ELSE cache[s]]
  /\ held' = [c \in Calls |-> IF Proc(c) = p /\ Mutator(c) THEN 0 ELSE held[c]]
  /\ todo' = [c \in Calls |-> IF Proc(c) = p THEN NothingToDo ELSE todo[c]]
  /\ UNCHANGED <<file, onDisk, lock, snapped, judged, began, mishaps>>

Restart(p) ==
  /\ p \in down /\ down' = down \ {p}
  /\ UNCHANGED <<file, onDisk, lock, chain, cache, crashes, calls, mishaps>>

CacheExpires(s) ==                                \* cacheTtl
  /\ cache[s].fresh /\ cache' = [cache EXCEPT ![s].fresh = FALSE]
  /\ UNCHANGED <<file, onDisk, lock, chain, down, crashes, calls, mishaps>>

LoseFile(i) ==
  /\ "lose" \in script.upsets /\ i \in onDisk /\ onDisk' = onDisk \ {i}
  /\ UNCHANGED <<file, lock, chain, cache, down, crashes, calls, mishaps>>

Step(c) ==
  /\ UNCHANGED script
  /\ \/ CheckCache(c) \/ FoundMissing(c) \/ Misread(c) \/ StatFile(c) \/ ResetFile(c)
     \/ ReadFile(c) \/ InstallRead(c)
     \/ StartMutation(c) \/ CreateLock(c) \/ JudgeStale(c) \/ ReapLock(c) \/ GiveUp(c)
     \/ AccessNext(c) \/ RenameFile(c) \/ RememberStat(c) \/ WriteFails(c) \/ Unlock(c)

Meanwhile ==
  \/ \E c \in Calls : Begin(c)
  \/ AgeLock
  \/ \E p \in Processes : Crash(p) \/ Restart(p)
  \/ \E s \in Stores : CacheExpires(s)
  \/ \E i \in Ids : LoseFile(i)

Next == (\E c \in Calls : Step(c)) \/ (Meanwhile /\ UNCHANGED script)

\* fs calls return and the retry loop runs; nothing is assumed of callers, clocks or crashes.
Fairness == \A c \in Calls : WF_vars(Step(c))
Spec == Init /\ [][Next]_vars
FairSpec == Spec /\ Fairness
-----------------------------------------------------------------------------
\* One mutation at a time over all processes, unless a lock file was removed that was no
\* longer the one judged stale, or no longer the remover's own (withMetadataFileLock).
LockExclusive ==
  "intruded" \notin mishaps => \A c, d \in Calls : InCritical(c) /\ InCritical(d) => c = d

\* The file is the sum of every mutation that reached its rename, whoever made it: no
\* mutation overwrites what another process saved, as long as no mutation misread the file,
\* nobody reset it and the lock was respected (runMetadataMutation, loadMetadata).
NoLostUpdate == mishaps = {} => MapOf(Current) = expected

\* Mutations are safe: they exclude each other, and none is lost.
MutationsSafe == LockExclusive /\ NoLostUpdate

\* Every call returns or fails, unless its process dies: no lock file, failed mutation or
\* dead owner keeps a call waiting for ever.
CallsEnd == \A c \in Calls : pc[c] = "chained" ~> Ended(c)

\* A read begun after a mutation returned sees it: the cached map belongs to the remembered
\* stat ("return cached if fresh AND the metadata file snapshot still matches").
FreshReads ==
  \A c \in Calls : Kind[c] = "load" /\ pc[c] = "done" => held[c] = 0 \/ held[c] >= began[c]
=============================================================================
