-------------------------- MODULE SessionLifecycle --------------------------
(***************************************************************************)
(* PiSessionManager: creating, loading, deleting and expiring sessions and *)
(* running commands on them.  One operation is one call; an AgentSession   *)
(* is named after the operation that built it.  Commands of a session take *)
(* turns in its lane, the expiry sweep does not use the lane.  The session *)
(* lock is the FIFO lock of SessionLockManager, the head of a queue being  *)
(* its holder.  Every await is a step boundary.                                               *)
(***************************************************************************)
EXTENDS Integers, FiniteSets, SequencesExt

CONSTANTS Ops, Ids, Kind, Target, NoOp,
          MaxSessions,
          MayFail,       \* the SDK and the metadata file may fail
          MayFailCleanup,\* unsubscribe() or dispose() may throw during a delete
          MayExpire, MayDispose,
          MayDuplicate   \* clients may create a session that exists

ASSUME LifecycleAssumption ==
  /\ Kind \in [Ops -> {"create", "load", "delete", "expire", "command", "query"}]
  /\ Target \in [Ops -> Ids] /\ NoOp \notin Ops /\ IsFiniteSet(Ids) /\ IsFiniteSet(Ops)
  /\ MaxSessions \in Nat \ {0}
  /\ {MayFail, MayFailCleanup, MayExpire, MayDispose, MayDuplicate} \subseteq BOOLEAN

VARIABLES
  sessions,   \* sessions: the published AgentSession of each id
  versions,   \* versionStore
  unsubs,     \* unsubscribers: the session whose events are forwarded
  live,       \* AgentSessions built and not disposed
  stored,     \* sessionStore: the session whose metadata is on disk
  slots,      \* governor.sessionCount
  doubles,    \* governor.doubleUnregisterErrors has grown
  born,       \* governor.sessionCreatedAt: none, fresh or old (over its lifetime)
  due,        \* expired ids the running sweep has still to delete
  lane,       \* the command whose body runs in each session's lane
  locks,      \* the holder of each session's lock, then its waiters
  pc,
  doomed,     \* the session a delete read before it awaited the store
  base,       \* the version a command started from
  watching,   \* sessions a client is subscribed to
  disposed    \* runtimeDisposed

vars == <<sessions, versions, unsubs, live, stored, slots, doubles, born, due,
          lane, locks, pc, doomed, base, watching, disposed>>

NoVersion == -1
Id(o) == Target[o]
Published == {s \in Ids : sessions[s] # NoOp}
Publishes(o) == Kind[o] \in {"create", "load"}
Deletes(o) == Kind[o] \in {"delete", "expire"}
Ended(o) == pc[o] \in {"ok", "failed"}
-----------------------------------------------------------------------------
Init ==
  /\ sessions = [s \in Ids |-> NoOp] /\ versions = [s \in Ids |-> NoVersion]
  /\ unsubs = [s \in Ids |-> NoOp] /\ stored = [s \in Ids |-> NoOp]
  /\ live = {} /\ slots = 0 /\ doubles = FALSE
  /\ born = [s \in Ids |-> "none"] /\ due = {}
  /\ lane = [s \in Ids |-> NoOp] /\ locks = [s \in Ids |-> <<>>]
  /\ pc = [o \in Ops |-> "idle"] /\ doomed = [o \in Ops |-> NoOp]
  /\ base = [o \in Ops |-> NoVersion]
  /\ watching = {} /\ disposed = FALSE

Goto(o, label) == pc' = [pc EXCEPT ![o] = label]

NoLaneGuard(o) == TRUE                                                \* fault
LaneFree(o) == lane[Id(o)] = NoOp
EnterLane(o) == LaneFree(o) /\ lane' = [lane EXCEPT ![Id(o)] = o]
LeaveLane(o) == lane' = [s \in Ids |-> IF lane[s] = o THEN NoOp ELSE lane[s]]

HasTurn(o) == locks[Id(o)] # <<>> /\ Head(locks[Id(o)]) = o
Ask(o) == locks' = [locks EXCEPT ![Id(o)] = Append(@, o)] /\ Goto(o, "asking")
KeepUnlessOk(o, result) ==                                            \* fault: no finally
  IF result = "ok" THEN [locks EXCEPT ![Id(o)] = Remove(@, o)] ELSE locks
Position(o) == CHOOSE n \in DOMAIN locks[Id(o)] : locks[Id(o)][n] = o
Unlocked(o, result) ==
  IF o \in ToSet(locks[Id(o)]) THEN [locks EXCEPT ![Id(o)] = RemoveAt(@, Position(o))] ELSE locks

\* The call returns: finally releases the lock, the lane moves on.
Return(o, result) ==
  Goto(o, result) /\ LeaveLane(o) /\ locks' = Unlocked(o, result)

\* A late completion is answered as cancelled.
Answer(result) == IF disposed THEN "failed" ELSE result

\* cleanupStaleData(keys of sessions), after the maps have changed.
FreshData(b) == [s \in Ids |-> IF sessions'[s] = NoOp THEN "none" ELSE b[s]]

\* sessionCount -= n, with the guard against going below zero.
DropSlots(n) ==
  /\ slots' = IF n > slots THEN 0 ELSE slots - n
  /\ doubles' = (doubles \/ n > slots)

\* acquire() rejects: the queue is full, or lockTimeoutMs elapsed.
LockRefused(o) ==
  /\ pc[o] = "asking" /\ ~HasTurn(o) /\ Return(o, "failed")
  /\ UNCHANGED <<sessions, versions, unsubs, live, stored, slots, doubles, born, due,
                 doomed, base, watching, disposed>>
-----------------------------------------------------------------------------
(* createSession and loadSession.  A client that does not create duplicates asks for  *)
(* an id only when it is free.                                                         *)

EnterPublish(o) ==
  /\ pc[o] = "idle" /\ Publishes(o) /\ ~disposed
  /\ MayDuplicate \/ sessions[Id(o)] = NoOp
  /\ EnterLane(o)
  /\ \/ Kind[o] = "create" /\ Ask(o)
     \/ Kind[o] = "load" /\ Goto(o, "opening") /\ UNCHANGED locks
  /\ UNCHANGED <<sessions, versions, unsubs, live, stored, slots, doubles, born, due,
                 doomed, base, watching, disposed>>

\* loadSession validates the file, then awaits readSessionFileMetadata, before the lock.
OpenFile(o) ==
  /\ pc[o] = "opening"
  /\ \/ Ask(o) /\ UNCHANGED lane
     \/ MayFail /\ Return(o, "failed")
  /\ UNCHANGED <<sessions, versions, unsubs, live, stored, slots, doubles, born, due,
                 doomed, base, watching, disposed>>

\* The catch block clears the id in every runtime map, whoever put it there.
Erase(o) ==
  /\ sessions' = [sessions EXCEPT ![Id(o)] = NoOp]
  /\ unsubs' = [unsubs EXCEPT ![Id(o)] = NoOp]
  /\ versions' = [versions EXCEPT ![Id(o)] = NoVersion]

SlotFree == slots < MaxSessions

\* Under the lock: a duplicate or a full server is refused through the catch block.
Refuse(o) ==
  /\ pc[o] = "asking" /\ Publishes(o) /\ HasTurn(o)
  /\ sessions[Id(o)] # NoOp \/ ~SlotFree
  /\ Erase(o) /\ Return(o, "failed")
  /\ UNCHANGED <<live, stored, slots, doubles, born, due, doomed, base, watching, disposed>>

Reserve(o) ==
  /\ pc[o] = "asking" /\ Publishes(o) /\ HasTurn(o)
  /\ sessions[Id(o)] = NoOp /\ SlotFree
  /\ slots' = slots + 1 /\ Goto(o, "building")
  /\ UNCHANGED <<sessions, versions, unsubs, live, stored, doubles, born, due, lane, locks,
                 doomed, base, watching, disposed>>

\* createAgentSession() resolves.
Built(o) ==
  /\ pc[o] = "building" /\ live' = live \cup {o} /\ Goto(o, "binding")
  /\ UNCHANGED <<sessions, versions, unsubs, stored, slots, doubles, born, due, lane, locks,
                 doomed, base, watching, disposed>>

\* switchSession() and bindExtensions() resolve.  The id is checked once more, which finds
\* it free: whoever could have published it needed the lock.
Bound(o) ==
  /\ pc[o] = "binding" /\ sessions[Id(o)] = NoOp /\ Goto(o, "saving")
  /\ UNCHANGED <<sessions, versions, unsubs, live, stored, slots, doubles, born, due, lane,
                 locks, doomed, base, watching, disposed>>

Saved(o) ==
  /\ pc[o] = "saving" /\ stored' = [stored EXCEPT ![Id(o)] = o] /\ Goto(o, "saved")
  /\ UNCHANGED <<sessions, versions, unsubs, live, slots, doubles, born, due, lane, locks,
                 doomed, base, watching, disposed>>

\* What the catch block does once the persisted metadata is out of the way.
KeepSlot(o) == UNCHANGED <<slots, doubles>>                           \* fault
ReleaseSlot(o) == DropSlots(1)
Discarded(o) == live \ {o}
GiveUp(o) ==
  /\ Erase(o) /\ live' = Discarded(o) /\ ReleaseSlot(o) /\ born' = FreshData(born)
  /\ Return(o, "failed")

\* Building, binding, switching or saving fails.  A save whose lock file cannot be removed
\* rejects although it took effect, and the catch block does not take it for saved.
PublishFails(o) ==
  /\ MayFail /\ pc[o] \in {"building", "binding", "saving"}
  /\ GiveUp(o)
  /\ \/ UNCHANGED stored
     \/ pc[o] = "saving" /\ stored' = [stored EXCEPT ![Id(o)] = o]
  /\ UNCHANGED <<due, doomed, base, watching, disposed>>

\* subscribe() throws after the save: the maps are cleared, the metadata is deleted.
SubscribeFails(o) ==
  /\ MayFail /\ pc[o] = "saved" /\ Erase(o) /\ Goto(o, "unsaving")
  /\ UNCHANGED <<live, stored, slots, doubles, born, due, lane, locks, doomed, base,
                 watching, disposed>>
RollBack(o) ==
  /\ pc[o] = "unsaving"
  /\ \/ stored' = [stored EXCEPT ![Id(o)] = NoOp]
     \/ MayFail /\ UNCHANGED stored
  /\ GiveUp(o)
  /\ UNCHANGED <<due, doomed, base, watching, disposed>>

\* The commit, in one go with applyVersion; it does not look at runtimeDisposed.
Publish(o) ==
  /\ pc[o] = "saved"
  /\ sessions' = [sessions EXCEPT ![Id(o)] = o]
  /\ unsubs' = [unsubs EXCEPT ![Id(o)] = o]
  /\ versions' = [versions EXCEPT ![Id(o)] = 0]
  /\ born' = [born EXCEPT ![Id(o)] = IF @ = "none" THEN "fresh" ELSE @]
  /\ Return(o, Answer("ok"))
  /\ UNCHANGED <<live, stored, slots, doubles, due, doomed, base, watching, disposed>>
-----------------------------------------------------------------------------
(* deleteSession, from delete_session in the lane or from the sweep outside it.        *)

EnterDelete(o) ==
  /\ pc[o] = "idle" /\ Kind[o] = "delete" /\ ~disposed
  /\ EnterLane(o) /\ Ask(o)
  /\ UNCHANGED <<sessions, versions, unsubs, live, stored, slots, doubles, born, due,
                 doomed, base, watching, disposed>>

DeleteMissing(o) ==
  /\ pc[o] = "asking" /\ Deletes(o) /\ HasTurn(o) /\ sessions[Id(o)] = NoOp
  /\ Return(o, "failed")
  /\ UNCHANGED <<sessions, versions, unsubs, live, stored, slots, doubles, born, due,
                 doomed, base, watching, disposed>>

BeginDelete(o) ==
  /\ pc[o] = "asking" /\ Deletes(o) /\ HasTurn(o) /\ sessions[Id(o)] # NoOp
  /\ doomed' = [doomed EXCEPT ![o] = sessions[Id(o)]] /\ Goto(o, "unstoring")
  /\ UNCHANGED <<sessions, versions, unsubs, live, stored, slots, doubles, born, due, lane,
                 locks, base, watching, disposed>>

StoreDeleted(o) ==
  /\ pc[o] = "unstoring" /\ stored' = [stored EXCEPT ![Id(o)] = NoOp] /\ Goto(o, "unstored")
  /\ UNCHANGED <<sessions, versions, unsubs, live, slots, doubles, born, due, lane, locks,
                 doomed, base, watching, disposed>>

\* The store rejects, before the file was renamed or after.
StoreDeleteFails(o) ==
  /\ MayFail /\ pc[o] = "unstoring" /\ Return(o, "failed")
  /\ UNCHANGED stored \/ stored' = [stored EXCEPT ![Id(o)] = NoOp]
  /\ UNCHANGED <<sessions, versions, unsubs, live, slots, doubles, born, due,
                 doomed, base, watching, disposed>>

WatchersLeft(o) == watching \ {Id(o)}

\* Everything after the await, in one go; a cleanup error is reported at the end.
Teardown(o) ==
  /\ pc[o] = "unstored" /\ Erase(o) /\ DropSlots(1)
  /\ born' = FreshData([born EXCEPT ![Id(o)] = "none"])
  /\ live' = live \ {doomed[o]} /\ watching' = WatchersLeft(o)
  /\ \/ Return(o, Answer("ok"))
     \/ MayFailCleanup /\ Return(o, "failed")
  /\ UNCHANGED <<stored, due, doomed, base, disposed>>
-----------------------------------------------------------------------------
(* cleanupExpiredSessions: the expired ids are read once, then deleted one by one.     *)

Age(s) ==
  /\ MayExpire /\ born[s] = "fresh" /\ born' = [born EXCEPT ![s] = "old"]
  /\ UNCHANGED <<sessions, versions, unsubs, live, stored, slots, doubles, due, lane, locks,
                 pc, doomed, base, watching, disposed>>

SweepIdle == \A o \in Ops : Kind[o] = "expire" => pc[o] = "idle" \/ Ended(o)

\* The sweep starts with one of the expired ids and remembers the others.
Expired == {s \in Ids : born[s] = "old"}
Sweep(o) ==
  /\ MayExpire /\ ~disposed /\ due = {} /\ Id(o) \in Expired
  /\ due' = Expired \ {Id(o)}

\* The next of them, whatever has happened to it since.
SweepOn(o) == Id(o) \in due /\ due' = due \ {Id(o)}

EnterExpire(o) ==
  /\ pc[o] = "idle" /\ Kind[o] = "expire" /\ SweepIdle
  /\ Sweep(o) \/ SweepOn(o)
  /\ Ask(o)
  /\ UNCHANGED <<sessions, versions, unsubs, live, stored, slots, doubles, born, lane,
                 doomed, base, watching, disposed>>
-----------------------------------------------------------------------------
(* Commands on a session, after lane and dependencies: the ifSessionVersion check,      *)
(* the heartbeat, the body and applyVersion.                                            *)

EnterCommand(o) ==
  /\ pc[o] = "idle" /\ Kind[o] \in {"command", "query"} /\ ~disposed
  /\ sessions[Id(o)] # NoOp
  /\ EnterLane(o) /\ Goto(o, "working")
  /\ base' = [base EXCEPT ![o] = versions[Id(o)]]
  /\ born' = [born EXCEPT ![Id(o)] = IF @ = "none" THEN "fresh" ELSE @]
  /\ UNCHANGED <<sessions, versions, unsubs, live, stored, slots, doubles, due, locks,
                 doomed, watching, disposed>>

\* The session is missing, or its version is not the expected one.
RefuseCommand(o) ==
  /\ pc[o] = "idle" /\ Kind[o] \in {"command", "query"} /\ ~disposed /\ LaneFree(o)
  /\ Goto(o, "failed")
  /\ UNCHANGED <<sessions, versions, unsubs, live, stored, slots, doubles, born, due, lane,
                 locks, doomed, base, watching, disposed>>

CountEverything(o) == versions[Id(o)] + 1                             \* fault
NextVersion(o) ==
  LET current == IF versions[Id(o)] = NoVersion THEN 0 ELSE versions[Id(o)] IN
  IF Kind[o] = "command" THEN current + 1 ELSE current

FinishCommand(o) ==
  /\ pc[o] = "working"
  /\ \/ /\ ~disposed /\ versions' = [versions EXCEPT ![Id(o)] = NextVersion(o)]
        /\ Return(o, "ok")
     \/ /\ MayFail \/ disposed
        /\ UNCHANGED versions /\ Return(o, "failed")
  /\ UNCHANGED <<sessions, unsubs, live, stored, slots, doubles, born, due,
                 doomed, base, watching, disposed>>

\* subscribeToSession, once a switch_session was answered.
Subscribe(s) ==
  /\ s \in Published \ watching /\ watching' = watching \cup {s}
  /\ UNCHANGED <<sessions, versions, unsubs, live, stored, slots, doubles, born, due, lane,
                 locks, pc, doomed, base, disposed>>

\* markRuntimeDisposed and disposeAllSessions, with operations possibly still running.
Dispose ==
  /\ MayDispose /\ ~disposed /\ disposed' = TRUE
  /\ sessions' = [s \in Ids |-> NoOp] /\ versions' = [s \in Ids |-> NoVersion]
  /\ unsubs' = [s \in Ids |-> IF s \in Published THEN NoOp ELSE unsubs[s]]
  /\ live' = live \ {sessions[s] : s \in Published}
  /\ DropSlots(Cardinality(Published))
  /\ born' = [s \in Ids |-> "none"] /\ watching' = {}
  /\ lane' = [s \in Ids |-> NoOp] /\ locks' = [s \in Ids |-> <<>>]
  /\ pc' = [o \in Ops |-> IF pc[o] = "asking" THEN "failed" ELSE pc[o]]
  /\ UNCHANGED <<stored, due, doomed, base>>
-----------------------------------------------------------------------------
Step(o) ==
  \/ OpenFile(o) \/ Refuse(o) \/ Reserve(o) \/ Built(o) \/ Bound(o) \/ Saved(o)
  \/ PublishFails(o) \/ SubscribeFails(o) \/ RollBack(o) \/ Publish(o)
  \/ DeleteMissing(o) \/ BeginDelete(o) \/ StoreDeleted(o) \/ StoreDeleteFails(o)
  \/ Teardown(o) \/ FinishCommand(o)

Next ==
  \/ \E o \in Ops : \/ EnterPublish(o) \/ EnterDelete(o) \/ EnterExpire(o)
                    \/ EnterCommand(o) \/ RefuseCommand(o) \/ LockRefused(o)
                    \/ Step(o)
  \/ \E s \in Ids : Age(s) \/ Subscribe(s)
  \/ Dispose

Spec == Init /\ [][Next]_vars

\* The SDK and the file system answer every call, and locks are handed on.
FairSpec == Spec /\ \A o \in Ops : SF_vars(Step(o))
-----------------------------------------------------------------------------
Labels == {"idle", "opening", "asking", "building", "binding", "saving", "saved", "unsaving",
           "unstoring", "unstored", "working", "ok", "failed"}

TypeOK ==
  /\ {sessions, unsubs, stored, lane} \subseteq [Ids -> Ops \cup {NoOp}]
  /\ locks \in [Ids -> Seq(Ops)]
  /\ versions \in [Ids -> Nat \cup {NoVersion}] /\ base \in [Ops -> Nat \cup {NoVersion}]
  /\ live \subseteq Ops /\ slots \in 0 .. MaxSessions /\ doubles \in BOOLEAN
  /\ born \in [Ids -> {"none", "fresh", "old"}] /\ due \subseteq Ids
  /\ pc \in [Ops -> Labels] /\ doomed \in [Ops -> Ops \cup {NoOp}]
  /\ watching \subseteq Ids /\ disposed \in BOOLEAN

\* Operations that hold a reserved slot and have not published.
Reserving == {o \in Ops : pc[o] \in {"building", "binding", "saving", "saved", "unsaving"}}

\* Until disposal the governor's count is exactly the published sessions and the
\* reservations, through every failure path of create and load and through deletes that
\* race the sweep.
SlotsAccount ==
  disposed \/ (slots = Cardinality(Published) + Cardinality(Reserving) /\ ~doubles)

\* No ghost: a live AgentSession is published or still belongs to the operation that
\* builds or tears it down, and events are forwarded from published sessions only.
NoGhosts ==
  /\ live \subseteq {sessions[s] : s \in Published} \cup Reserving
  /\ unsubs = sessions

\* A delete of the published session s has gone through the store, or was refused by it.
Bereft(s) ==
  \E o \in Ops : Id(o) = s /\ pc[o] \in {"unstored", "failed"} /\ doomed[o] = sessions[s]

\* Persist before publish, remove before teardown: the metadata of a published session
\* is on disk; it is missing only if a delete of that very session has just removed it or
\* was answered with a failure, and it is never that of another session.
PersistedFirst ==
  \A s \in Published : stored[s] = sessions[s] \/ (stored[s] = NoOp /\ Bereft(s))

\* A client is subscribed to published sessions only, so it never receives the events of
\* a later session with the same id.
WatchersFollow == watching \subseteq Published

\* The books balance: slots, live sessions, metadata and subscriptions tell of the same
\* sessions, after whatever failed, raced the sweep or was disposed of.
BooksBalance == TypeOK /\ SlotsAccount /\ NoGhosts /\ PersistedFirst /\ WatchersFollow

\* Lost updates: a command that succeeds moves the version on by one from the one it
\* started with, so the version an ifSessionVersion check accepted is the one replaced.
NoLostUpdate ==
  [][\A o \in Ops : (Kind[o] = "command" /\ pc[o] = "working" /\ pc'[o] = "ok") =>
       versions'[Id(o)] = base[o] + 1]_vars

\* Every operation comes to an end, so lane and lock become free again.
OperationsEnd == \A o \in Ops : (pc[o] # "idle") ~> Ended(o)

Registry == INSTANCE SessionRegistry
  WITH version <- versions,
       answer <- [o \in Ops |-> IF Ended(o) THEN pc[o] ELSE "none"]

\* Failure atomicity: the steps of an operation look like one step of the registry, and
\* those of a failed operation like none.
ImplementsRegistry == Registry!Spec

\* (rejects duplicate session) Creating a session that exists fails and changes nothing.
DuplicateHarmless ==
  [][\A o \in Ops : (Publishes(o) /\ pc[o] = "asking" /\ pc'[o] = "failed" /\ ~disposed') =>
       sessions'[Id(o)] = sessions[Id(o)]]_vars

\* (sessions that have exceeded maxSessionLifetimeMs) The sweep deletes no other.
SweepSparesFresh ==
  [][\A o \in Ops : (Kind[o] = "expire" /\ pc[o] = "asking" /\ pc'[o] = "unstoring") =>
       born[Id(o)] = "old"]_vars
=============================================================================
