# pi-server: TLA+ models, model checking and proofs

pi-server is a session multiplexer: clients on WebSocket or stdio send JSON
commands, the server runs them against in-memory pi agent sessions and answers
each with one response plus lifecycle events. This directory models the logic
that is hard to test: at-most-once execution under retries, lanes, timeouts,
dependency waits, session life cycles, the durable journal and its recovery, the
metadata file shared by processes, connection slots, and the guards (rate limits,
circuit breakers, validation, listings) in front of all of them. All paths below
are relative to the repository; the program is in `src/`.

## Inventory

| Component (file) | State it keeps | Operations | Properties that make it correct |
| --- | --- | --- | --- |
| `PiSessionManager.executeCommand` (session-manager.ts) | nothing of its own; drives the store, engine, journal, governor | admission, lane task, terminal bookkeeping | each request answered once; one body per name |
| `CommandReplayStore` (command-replay-store.ts) | outcomes by id with a FIFO order, in-flight by id and by key, key cache with TTL | check, register, store, trim, expire, clear | tables agree; replay only under equal fingerprints; limits hold |
| `CommandExecutionEngine` (command-execution-engine.ts) | one promise tail per lane | run on lane, await dependencies, time out, abort | one task per lane at a time, FIFO; no deadlock; abort hits its own command |
| `PiSessionManager` sessions (session-manager.ts) | sessions, versions, subscribers, shutdown flags | create, load, delete, expire, shut down | session, version and governor slot live and die together |
| `SessionVersionStore` (session-version-store.ts) | version per session | initialize, increment, apply, delete | a version stands for one content of the session |
| Session creation queue (session-manager.ts) | tail promise, process environment | take turns around the SDK call | the environment comes back; turns go on after a failure |
| Durable startup (session-manager.ts) | state of the initialization and its error | wait, time out, fail, fail closed later | nothing runs before recovery; nobody waits for ever |
| `SessionLockManager` (session-lock-manager.ts) | holder and wait queue per session id | acquire, try, release, clear | mutual exclusion, FIFO hand-off, timeout leaves no ghost waiter |
| `CommandJournal` (command-journal.ts) | append-only file, lock file, sequence | append, recover, compact, lock, query | recovery reports what clients were told; compaction keeps what recovery needs |
| `ResourceGovernor` (resource-governor.ts) | session and connection counts, sliding rate windows, heartbeats | admit, refund, reserve/activate slots, expire, clean up | limits never exceeded, refunds hit their own charge |
| `SessionStore` (session-store.ts) | metadata file, cache, mutation chain, lock file | load, save, delete, rename, clean up, list | no mutation lost between processes; listings complete and true |
| Circuit breakers (circuit-breaker.ts, bash-circuit-breaker.ts) | closed/open/half-open, failure and test counts | ask, report, clean up | tests bounded; always probes again |
| `ExtensionUIManager` (extension-ui.ts, server-ui-context.ts) | pending requests with timers | ask, answer, cancel, time out | each dialog ends once, by its own session's answer |
| `BoundedMap` (bounded-map.ts) | map with insertion order and expiry | get, set, delete, evict | size bound; nothing forgotten that still counts |
| Threshold alerts (threshold-alert-sink.ts) | last level per metric | record, evict, remove | one alert per crossing |
| Server transports (server.ts) | connections, heartbeats, stdio, stop | accept, message, close, drain | slots counted right; a connection cleaned up stays out; stop drains first |
| Validation (validation.ts) | none | shapes of fields, session paths | what it admits has a handler that finds its fields |
| Router and command handlers (command-router.ts, server-command-handlers.ts) | none | dispatch, version advance, tree | every admitted type is routed; trees are shown in order |
| Classification (command-classification.ts) | none | timeout mode, plane, bucket of a type | the tables agree with each other |
| Authentication, metrics, logging | none that others read | | unit tests reach them |

How they interact: a transport reserves a connection slot, authenticates, and
calls `executeCommand`, which waits for the durable journal, validates, and runs its
synchronous part: the replay store (replay, conflict, join), the governor (rate
limits), registration in flight, an append to the journal, a task on the lane of the
command (`session:<id>`, or `server`). Session lifecycle commands also take the
session lock, the creation queue and the metadata file with its lock. A timer races
the task; whichever wins is finalized, journaled, broadcast, stored, and handed to
duplicates and dependents that wait on the tracked promise. In a process everything
runs on one event loop, so interleaving happens only where the code awaits: one run
between two awaits is one action of the models. Between processes (journal lock,
metadata file) each file operation is an action.

Hard behaviours: duplicates racing with execution, a timer that covers the lane
wait, late completions, cross-lane dependency cycles, failing fail-closed appends
at every phase, eviction and expiry of names in use, disposal under load, session
operations racing with expiry and shutdown, two processes on one file with crashes
and aged locks, sockets that close while their authentication is awaited, calls that
report into a circuit which changed meanwhile, five tables of command types that
only convention keeps in step. PROJECT.json lists them as hazards, each with the line
where it bites.

## Modules

`MC...` modules hold the constants of the runs, `...Proofs` modules the theorems.
A definition whose comment says `fault` is a plausible bug; the specifications do
not use it. Each mutant in PROJECT.json puts one in the place of the definition next
to it and expects the named property to fail.

### Commands

`CommandPipeline` is the core. A request is a number; requests are numbered in the
order in which `executeCommand` reaches its synchronous part. `stage` says where a
request is: `queued` (awaiting the captured lane tail), `waiting` (for a
dependency), `running` (body), `released` (lane task returned), `joined` (waits for
the in-flight twin), `closed` (answered without admission). `race` is the state of
`withTimeout`. The replay store's tables are variables under the names of the code
(`commandInFlightById` is `inFlight`, `idempotencyInFlightByKey` is `keyInFlight`,
`commandOutcomes`, `commandOutcomeOrder` and `idempotencyCache` are `outcomes`,
`outcomeOrder` and `keyCache`). A stored response is a verdict: the request that
produced it, and what it says. History variables (`ran`, `aborted`, `events`,
`forgotten`) exist for the properties only.

`ReplayContract` is what the replay layer promises a client, without lanes, timers
or tables: names bound to at most one execution, one answer per request, an answer
is one's own or a copy of the owner's under the same fingerprint. `CommandPipeline`
implements it under the mapping at its end (`KeepsContract`).

`CommandClassification` holds the tables of command types as sets. `CommandDispatch`
extends it with what happens to a command between `validateCommand` and the version
of its response: the rules of every type, the two handler maps, the fields each
handler takes for granted, and `applyVersion`. A field has a shape (absent, of the
wrong type, empty, blank, too long, bad, good), so every type of the protocol and
every rule is in the model while no text is. A session is the number of completed
changes; `told` remembers which content each version was announced for.
`SessionTree` is `serializeSessionTreeNodes`, its explicit stack against the pre-order of
the tree with its limits (`TreeInOrder`).

### Sessions

`SessionLockManager` has one action per way a call of `acquire`, `tryAcquire`,
`release` or `clear` can go. A caller stands for one call and for the `LockState`
object its handle carries, so a stale handle is a caller that is no longer
`locks[s]`. `Mutex` is the promise to the callers; `ImplementsMutex` is the
refinement.

`SessionLifecycle` models `createSession`, `loadSession`, `deleteSession`, the expiry
sweep, disposal, and the body of a command that advances the version. Every `await`
ends an action and `pc` names what it waits for: `building` (createAgentSession),
`binding` (switch to the loaded file, bind extensions), `saving` (metadata), `saved`
(published next), `unsaving` (roll back of the metadata), `unstoring` and `unstored`
(a delete before and after its store call), `working` (a command's body). `sessions`,
`versions`, `unsubs` are the maps of the manager, `slots` is the governor's
`sessionCount`, `stored` the metadata file. Commands take the lane, the sweep does
not; a lock is a sequence whose head holds it, which is what `SessionLockManager`
guarantees. A call of the store that fails may have had no effect or its whole effect
(the lock file is removed last, in a `finally`, and that can fail): a save that is taken
for failed leaves its metadata behind, a refused delete leaves its session without any,
and `PersistedFirst` says that nothing else parts the two.
The constants `May...` say which disturbances a run or a theorem admits.
`SessionRegistry` is the promise: an operation answered with success took effect at
one moment, one answered with a failure had none (`ImplementsRegistry`).

`SessionCreations` is the queue inside `createAgentSessionWithSanitizedNpmEnv`: each
creation waits for the promise of the one before, takes the npm variables out of the
environment, and puts its own snapshot back, with success or failure of the SDK.

`DurableInit` is `ensureDurableJournalInitialized`: callers share one initialization,
wait a bounded time, write the state it is left in, and go on or are refused; the
initialization itself may end late, fail or hang, and a later append may fail closed.

`ServerWaits` puts these two together with the transports and the dialogs (below): four
things the server waits for, which share no state. It instantiates three of them beside the
module it extends, `ServerTransports`, and states their guarantees under one roof, for the
run (`MCConnections`) and the proofs alike.

### Persistence

`CommandJournal` models the append-only file as a sequence of records and a flag
`torn` for a last line that was cut. A request that names an id passes the durable
initialization (`Arrive`) and reaches the synchronous part of `executeCommand` in a
later step, where it is admitted, refused or replayed. Every append may throw;
`Finalize` is `finalizeResponse` with its fallback record. `Crash` clears what is in
memory; `StartRecovery`, `MarkLost` and `RecoveryDone` are `initialize`. `told`,
`bodies`, `forgotten`, `shadowed` and `swallowed` are history: what the client was
told last, how often the body began, and which ids lost their outcome to eviction,
were used by a request that did not run, or lost a record to a cut line.

`JournalLock` is the lock file of the journal between processes, file operation by
file operation, with the count of journals of one process that share it.
`DurableJournal` is the journal with its lock file, which share no state: the lock decides
who may write, the journal what a start makes of what was written. `MCCommandJournal` runs
them, and `DurableJournalProofs` proves about them. `JournalHistory` is the backward scan of
`queryHistory` in chunks, cut into lines across their boundaries, while appends go on.

`SessionStore` is the metadata file of several processes: each store has a cache with
the stat it remembers, a chain that serializes its mutations, and all share a lock
file that a dead owner leaves behind. The file is the sequence of its versions, so a
cached map is a version number and a lost update is an entry that vanishes. A `script`,
one of the constant `Scripts`, says which calls are made on which store and what may upset
them. `Locks` extends `SessionLockManager` with it for `MCLocks` and the proofs.
`SessionFiles` is `listAllSessions` (stored metadata beside a bounded search of the
session directories, merged by path) together with the access check that
`load_session` makes, while another program writes or removes a file. A path is a sequence of
names; `Canonical` resolves its links name by name, as `realpath` does.

### Guards and connections

`ResourceGovernor`: windows per bucket and for all commands, charge and refund,
extension responses, creation times and expiry. `CircuitBreakers`: the three states
with windows and counts, both managers, and the handlers that ask before and report
after a call of any length. `BoundedCounter` is a `BoundedMap` of timestamps per key:
each entry carries the number under which it was inserted, as in the code, and a full map
evicts the smallest; `MaxOrder` bounds these numbers in the run. `ThresholdAlerts` is the
small table of levels of the alert sink. `Guards` extends the dispatch with these four, which
share the clock and nothing else. `Queries` puts together what a client may ask to see and the
server has to collect first: `SessionFiles`, `SessionTree` and `JournalHistory`, which share no
state. `MCGuards` runs both. `ExtensionUI`: dialogs from the call to the return; settling the
promise and waking the dialog are two steps.
`ServerTransports`: a connection from its reserved slot over authentication, pending
commands, back-pressure and heartbeat to its clean-up, the stdio transport, and
`stop()` with the drain. A message is accepted (`pending`), waits for the journal, finds the
shutdown flag or registers its execution (`inFlight`, `begun`), and is answered without an
execution, at its end or by its timeout; the execution ends by itself. The drain waits for
the executions that were registered when it began (`awaited`), as `initiateShutdown` does,
not for answers. Whether the last answer gets out before the sockets close is a race of
microtasks and left open. `threw` remembers that a send or a ping of `ws` threw.

## Runs

| Run | Instance | Shows |
| --- | --- | --- |
| pipeline_replay | one id with two fingerprints, a key shared by two ids, a keyed anonymous command; 2 in flight, 1 outcome | StoreBounded, InFlightAccurate, AtMostOnce |
| pipeline_journal | retries with and without key, a conflicting key; every append may fail | ReplayFaithful, TerminalIsFinal, KeepsContract |
| pipeline_lanes | long, short and uncancellable commands of one session, bodies that may hang, shutdown | TypeOK, LaneSerial, AbortHitsOnlyExpired, TimedAnswered |
| pipeline_dependencies | cross-lane cycle, same-lane and self dependency, a list of two, shutdown | DependenciesHonoured, AllAnswered |
| locks | session locks (five callers on one session, one on another, queue of two, timeouts, `clear()`); the metadata file in three scenarios of two processes and three calls, with a crash, aged locks, failing calls and misreads | LockTableSound (MutualExclusion, QueueAgrees), FirstComeFirstServed, ImplementsMutex; MutationsSafe (LockExclusive, NoLostUpdate); LockWaitsEnd (WaitersServed, CallsEnd) |
| lifecycle_failures | two creates, a load, two deletes, the sweep, one slot; SDK, file, unsubscribe and dispose may fail; disposal | BooksBalance (SlotsAccount, NoGhosts, PersistedFirst, WatchersFollow), OperationsEnd |
| lifecycle_versions | two creates, a load, a delete, two commands, a query; failures | NoLostUpdate, ImplementsRegistry |
| journal | two ids, two requests, three incidents, both policies, with and without retention of one outcome; three journals of two processes with a crash | RecoveryFaithful, AtMostOnceDurably, CompactionKeepsRecovery; LockFileKept (OwnsItsFile, LeavesNothing) |
| connections | two connections for one slot; one, whose sends may throw, beside stdio; two executions of a connection and of stdio; one `stop()`; three dialogs of two sessions with room for two; three callers of the startup, one an observer; three creations | ConnectionsAccounted (SlotsAccounted, CleanedForGood), DrainedFirst; DialogsAccounted (PendingAreWaiting, AnsweredOnce); StartupSafe (NoCommandUnrecovered, LateSuccessOpens); EnvironmentSafe; EveryWaitEnds (SilentPeersLeave, StopFreesSlots, DialogsReturn, CallersAnswered, CreationsTakeTurns) |
| guards | rate windows of two ticks; two calls through breakers; three keys for two places; three metrics for two; every command type with up to two fields out of the ordinary; five files, two directories, a link and one change; trees of four entries; journals of up to three lines in chunks of 1 to 3 | WithinLimits (GlobalLimit, SessionLimits, RefusalsAreFree, ExpireOnTime); CircuitsDecide (TestsBounded, ClosedBelowThreshold, ProvidersRecover); CounterExact (KeysBounded, CounterLimit); AlertsHeard (StatesBounded, NoSilentCrossing); DispatchTotal (AdmittedIsRouted, HandlersHaveTheirFields); VersionsTell (SameVersionSameSession, VersionsOfThisLife); ListingTrue (NothingMissed, ListingTruthful, ListedMayBeOpened); TreeInOrder; NewestEntriesFirst |
| lifecycle_duplicate | | refutes the test "rejects duplicate session": the refusal erases the existing session |
| breakers_lockout | two sessions, two calls, session threshold 1, global 2 | refutes ADR-0010 "Auto-recovery": a call the global breaker refuses uses up the session's test call |

The runs locks, journal, connections and guards check components that do not share
state. Their MC modules give each a focus, chosen in the initial state, and run only
the component in focus, so that the state spaces add up instead of multiplying.

A property with others in parentheses is their conjunction, defined under that name in
the component's module together with its type invariant where it has one. Each part has
its own definition and comment, to be put in a cfg alone when one of them fails.

Bounds. The pipeline runs submit three requests in any order with any choice from
three to five commands, and let every timer, journal failure and expiry happen at
any moment. Three suffice for the hazards: a first execution, a duplicate, and a
third that evicts, blocks or depends on them. In the lock run four callers meet on
one held lock with room for two, so the queue overflows and a hand-off, a timeout
and a newcomer race; the metadata scenarios pair the mutations that conflict (two
saves at the size limit with a clean-up, a save with a rename, a save with a delete)
with a reader. The lifecycle runs give every pair of operations on one id a
chance to meet between any two awaits, and a second id to compete for the slot.
Three incidents in the journal run are a throwing append, a crash that cuts a line
and a second crash, the shortest history in which a record of recovery itself is lost. Two
connections and one slot make every slot contended. The guards have windows longer than a
tick, so that charges age one after another, thresholds that two calls can reach, tables
with one place too few, and a search that meets its limit of levels and of directories.
Two fields out of the ordinary show a rule that hides another. Trees of four entries have
every shape the two limits tell apart, and chunks of one to three bytes put a boundary at
every place of a line.

Fairness.

- Pipeline. `LoopFairness`: promise callbacks and timers of a live Node process run,
  so a task whose tail resolved starts, a settled dependency is seen, timers fire and
  a settled race is answered. `BodiesReturn` and `AbortHooksReturn` are promises only
  the pi SDK can make, hence separate: `AllAnswered` needs both, `TimedAnswered`
  holds under `HungBodySpec`, which drops the first. No fairness is assumed of
  clients, expiry or shutdown.
- Session locks. A caller inside leaves, which the `finally` blocks around every
  `acquire` of the session manager justify. Timers are given no fairness, so
  `WaitersServed` does not hold merely because waits time out.
- Metadata file. Each call's own step: file operations return, with success or an
  error, and the lock loop sleeps a bounded time. None for crashes or aging.
- Lifecycle. Strong fairness of each operation's own step, since an operation that
  waits for the lock is enabled only from time to time; the SDK and the file system
  answer, with success or an error.
- Journal history. The scan goes on: it is a loop of reads. No property needs it.
- Connections. Heartbeat timers fire, a socket that is closing reports its close,
  `stop()` runs on and its drain ends or times out. Peers and executions owe nothing.
- Dialogs. The timeout fires and a settled promise wakes its dialog. Clients owe
  nothing.
- Startup. The wait of each caller ends, by the initialization or by its timer. The
  initialization itself may hang.
- Creations. The SDK returns or throws, and continuations run: without the first, one
  creation that hangs blocks those behind it, in the code as in the model.

Deadlock is checked where the system cannot stop before everything is answered (the
pipeline); elsewhere a component ends when its operations, its time or its bounds are
used up, and the cfg says so at CHECK_DEADLOCK FALSE.

## Proofs

TLAPS checks every theorem below, for every value of the constants. They rest on the
named assumptions of the modules (finite or non-empty sets where the code has them, the
distinctness of "none" values), which TLC evaluates in the runs, and on nothing else.

**Command pipeline** (`CommandPipelineProofs`). One inductive invariant after another,
each using those before:

1. `Inv1`: types, and `Numbered`: requests are numbered without gaps, so an unused number
   has no record anywhere. Gives `TypeCorrect`.
2. `LaneInv`. `LaneSerial` alone is not inductive: that a starting task is alone follows
   from the tail it captured when it was admitted. `CapturedTail` says the captured tail is
   the request before it in the lane, `YoungestTail` that the tail kept by the engine is the
   youngest of the lane's open requests. Gives `LaneSerialHolds`.
3. `AbortInv`. A hook aborts what its session runs at that moment. `RaceSettled` relates the
   timer of a request to its stage; with `LaneInv` the running body of the lane is that of
   the command whose timer fired. Gives `AbortHitsOnlyExpiredHolds`.
4. `OnceInv`: `InFlightAccurate`, `Remembered` (what was answered is in the outcomes or the
   key cache, or was forgotten by eviction or expiry), `OncePerName` and `RanEntered`. The
   four need each other: a duplicate is kept out by the in-flight tables before the answer
   and by the stores after it. Gives `InFlightAccurateHolds` and `AtMostOnceHolds`.
5. `FaithInv`: `Sourced` (every stored response names the request it came from, with its
   answer and fingerprint), `Following` (a joined request follows one in flight under a
   shared name), `Unanswered` and `Faithful`, with `Kept` for what a step leaves alone. Gives
   `ReplayFaithfulHolds`.
6. `DepInv`: `WaitsInOrder` (a task has passed the dependencies before the one it waits for)
   and `DepsDone`, which need `Sourced`: a dependency is met by a stored success only
   because the stored success is what its request was answered. Gives
   `DependenciesHonouredHolds`.
7. `QueueInv` and `FlightInv`: the outcome order is a sequence of distinct ids, exactly those
   of the map, so its length is the size of the map; the in-flight ids are finite although
   ids may be infinitely many. Give `StoreBoundedHolds`.
8. `NamesInv`: while a request is pending nobody else pending has one of its names (`Alone`)
   and nothing is stored under them (`Fresh`), also after disposal, when nobody is admitted
   any more (`Cleared`). So a completion, however late, settles what is not settled: it neither
   overwrites an answer nor announces one again. Gives `TerminalIsFinalHolds`.

`KeepsContractHolds` is the refinement of `ReplayContract`, one lemma per kind of step. What the
lookup finds, through the key cache, the key table, the outcomes and the id table in their
order, is an owner in the contract's one table (`FoundOwner`). An answer binds the names of its
request and may drop one other binding, which no pending request uses (`SettleContract`); it
needs all of the invariants above but those of lanes and dependencies. Ids and scoped keys are
assumed to be told apart, as they are in the code, where they live in different maps.

**Session locks** (`SessionLockManagerProofs`). `LockInv` adds `HolderInside` to the two
parts of `LockTableSound`: who holds the lock is inside, and who is inside and not cut off
holds it. `LockTableSoundHolds` follows, and `RefinesMutex`, where a hand-over in `release`
is a leave followed by an entry in one step of `Mutex`. `FirstComeFirstServedHolds` is about
steps: while a lock is free nobody queues for it, and a hand-over takes the head of the queue.

**Metadata file** (`SessionLockManagerProofs`, by way of `Locks`). `Placed` says which
steps a mutation has and which a read, and that the calls of a dead process are over;
`LockFile` that a call in the critical section owns the file unless an intrusion is on record,
and that a file judged stale is that of a call which is past its mutation.
`UpToDate` follows a mutation: from its read to its write it holds what the file says, and the
file what was promised. Gives `MutationsSafeHolds`, the mishaps excepted that
`MutationsSafe` excepts.

**Sessions** (`SessionLifecycleProofs`). `LifeInv` ties the lane and the lock of a session
to the one operation past them. Under `Undisturbed` (no duplicate ids, no sweep, no
disposal, no clean-up errors; SDK and file may fail) it gives `FailureAtomic`, the
refinement of `SessionRegistry`, and `NoLostUpdateHolds`. The assumption is needed: each of
the disturbances left out breaks the refinement, as the disagreements below say.

`BooksBalanceHolds` admits all of them but one: failing hooks and clean-ups, the sweep,
disposal. `Flow` says of every operation where its own session is (one that publishes is
alone with its id, one that removes holds the lock and what it removes is what is live), and
from the pairing of slots with sessions and reservations the counts follow step by step. A
published session lacks its metadata only if a delete of that same session has removed it or
was answered with a failure. Only
`~MayDuplicate` is assumed: a second create of a live id erases it, and the run
lifecycle_duplicate shows the books out of balance for that reason.

**Journal** (`DurableJournalProofs`). What a start reads of an id in a file is the last record
of that id, so lemmas say what an append, a cut line and a compaction do to it, by way of the
least counterexample among positions (`WFMin`), which stands in for induction.
`CompactionKeepsRecoveryHolds` is about the step alone: the new file is the kept records in
their order, and for each id the last one is among them. `JournalInv` is then stated per id:
`Faith` relates what the client was told (`ToldTrue`, `NoStale`), whether the replay store
would let the id in again (`Free`), what a recovery is about to mark (`Lost`) and how often
the body began (`Once`: a body that ran leaves a trace in the lane, in the store and in the
file). A step about one id leaves the invariant of the others alone (`Untouched`), so each
action has one lemma about its own id. Gives `RecoveryFaithfulHolds` and
`AtMostOnceDurablyHolds`.

`LockFileKeptHolds` is about the lock file. `LockInv` counts the open journals of a process
(`Counted`), and, until somebody removes a file other than the one he read (`blind`, the
divergence below), says that an open journal's file is its own process's, that a process
between creating and writing owns the empty file, and that what was judged stale is still the
file of a dead process or has been replaced by a later one (`ReadStale`).

**Server waits** (`ServerWaitsProofs`). Dialogs: `Entries`, `Limited` and `Reported` relate
the table, its size and the reports to the stage of each dialog; `DialogsAccountedHolds`.
Startup: `StateAgrees` (the state follows the initialization except for a timeout written
meanwhile) and `LateRefused`; `StartupSafeHolds`. Creations: the promises form a queue `q` of
which the first `k` are done, and only the one after them may be creating, so the environment
is empty just then; `EnvironmentSafeHolds`. Connections: `Shaped` says what the stage of a
connection implies of its timers, its socket and its clean-up flag, `Counted` that the two
counters of the governor are the sizes of the two sets of connections; together
`ConnectionsAccountedHolds`. `Draining`: while `stop()` drains, what it waits for is all
there is in flight, because the snapshot is taken in the run that sets the flag and a command
looks at the flag in the run that registers its execution; so nothing is in flight when the
snapshot is settled, and nothing is later. `DrainedFirstHolds` assumes one call of `stop()`, because a second one, during the first one's
wait for the authentication provider, does not drain (a disagreement below).

**Dispatch** (`GuardsProofs`). Lemmas compare the tables: `TablesCovered`,
`RulesCoverNeeds`, `ChangesCount`. `Validated` carries them through the stages to
`DispatchTotalHolds`, and `Told` with `Entered` (the largest announced version is the
current one, and its content the current content; a session that is gone has no record, or 0) gives `VersionsTellHolds`.

**Guards** (`GuardsProofs`, `CircuitBreakersProofs`). Rates: every command that ran has a
number of its own (`Numbered`) and left a mark with it. `Covers` says where the marks are: the
global window holds exactly those of the commands that ran within the window, the bucket and the
response window of a live session at least those of its commands since its creation. A check
that finds room in its table therefore finds room among what ran, whatever was refunded or
cleaned up before; `Ages` adds that creation times are kept for the living alone.
`WithinLimitsHolds`. Counter: the times of an entry are the end of what was recorded for its
key and the rest has left the window (`EndsWith`), and insertion numbers are all different, so
the eviction removes one entry; `CounterExactHolds`. Alerts: the level remembered of a metric
is the one its last alert had (`Faithful`); `AlertsHeardHolds`. Breakers: each circuit is
`Sound` whatever reports to it, and every trial of a half-open circuit was a success or belongs
to a call that is still to report (`Awaited`), orphaned calls not counted; so there is always
one that decides it. `CircuitsDecideHolds` assumes, with the code, thresholds of at least one
and a success threshold no larger than `HalfOpenMaxCalls`.

**Session files** (`QueriesProofs`). First the paths. `Canonical` is a recursive function;
that its equation has a solution on paths of every length is shown from the least length
without one (`Least`), and so are the facts the search needs: a canonical path resolves to
itself (`CanonicalTwice`), a directory or file that is no link is its own canonical path
(`PlaceIsCanonical`), and all that lies between an allowed directory and a file below it are
directories (`WayDown`). `ListInv` then says that the search only meets what the access check
would let through (`Sits`), how the history bounds what is on the disk (`Seen`), and what the
answer rests on (`Concluded`). Its heart is `Searching`: each file that ought to be found is found, or
lies below a directory on the stack or in a root still to be searched within the levels that are left, or
below a directory that was cut off. Only the code's order of these steps makes it true: a
directory leaves the stack in the step that puts what is below it there. Gives
`ListingTrueHolds`. `FilesAssumption` says of the tree what any file system grants: each place
is below directories that are no links, links lead to places, directories are finitely many.
The property excepts names only the access check objects to and ids that share a file, both
listed below.

**Trees** (`QueriesProofs`). `Preorder` and `Depth` are recursive functions over data. What the
library's induction theorems would say of them needs an operator for a parameter; two lemmas
with a set in its place stand in. `Induction`: when everything of lesser rank being in a set
puts a member of the domain there, all of the domain is in it. `Recursion`: a function defined
from its values of lesser rank exists, so that the `CHOOSE` behind a recursive definition has
something to choose. They give `PreorderIs`, `DepthIs`, and that flattening distributes over
concatenation. `TreeInv` then says that the answer so far, followed by the pre-order of
everything on the stack, from its top down, is the pre-order of the whole tree
(`Wanted = result \o Back(Line(stack))`), and that every entry lies on the stack at its own
depth. Below the deepest level shown there is nothing to show (`DeepPart`), so dropping an
entry there loses nothing. Gives `TreeInOrderHolds`, for every tree of entries and every limit
of levels and of entries.

**History** (`QueriesProofs`). The code cuts a file into lines without ever seeing it whole.
`PiecesConcat` is why it may: of two parts of a file, the pieces of the later one are final but
for its oldest, and that one joined to the earlier part is cut like any text. `OnLinesConcat`
says the same of the scan, which may take the pieces in portions. `HistoryInv`: `leftover` is
the oldest piece of what was read so far, and `scan` what the other pieces come to, or that and
stopped if the time ran out; appends meanwhile lie beyond the `size` that was read at the
opening. `Good` says of a scan that stopped, for a limit or at the end, what it has collected
(`AllGood`), and `FoundFirst` that these are the newest matching entries. Gives
`NewestEntriesFirstHolds`, for every journal, all chunk sizes and all limits.

Only model-checked: the liveness properties (`AllAnswered`, `TimedAnswered`, `LockWaitsEnd`,
`OperationsEnd`, `EveryWaitEnds`). They need fairness and ENABLED, which the prover cannot
reason about. Every invariant and every action property of a passing run has its theorem.

## Other disagreements seen, without a run

Met while modelling; none is checked by a run of its own. Where a definition states what a
document or comment says, TLC refutes it under the run's cfg with that definition in place
of the properties.

Commands:

- A command that timed out in the lane queue emits `command_started` after
  `command_finished` (`PhaseOrder`; PROTOCOL.md 7.2).
- A request whose id differs from the owner's but whose idempotency key matches is
  answered by replay, and its own id stays unbound, so a later command may use it
  (command-replay-store.ts:532; PROTOCOL.md:226).
- A command that completes after disposal writes an outcome into stores that disposal
  has cleared (session-manager.ts:2079; the comment at :197).
- The answer to a timeout waits for the abort hook; one that hangs withholds it
  (command-execution-engine.ts:73; PROTOCOL.md:290).
- A prompt that fails half-way has changed the session and leaves its version as it was
  (session-version-store.ts:134). A session deleted and created again under its id begins
  at version 0 again. A read of the server that carries the id of a session that is gone
  leaves a version record for it (:172); `VersionsOfThisLife` says that it is 0.
- A replayed `switch_session` answers with success after its session was deleted; the
  subscription then throws and the message is answered twice (`OneAnswer`; server.ts:1094).

Sessions:

- The sweep works on a list of expired ids it read before several awaited deletes, and may
  delete a session created since (`SweepSparesFresh`; session-manager.ts:1258).
- A create that waits for the SDK during disposal publishes its session afterwards
  (session-manager.ts:876), and a delete that waits gives its slot back twice (:950;
  resource-governor.ts counts that as an error).
- A delete whose unsubscribe or dispose throws answers with a failure although the
  session is gone (session-manager.ts:988; ADR-0020:56).
- A metadata call whose lock file cannot be removed afterwards is reported as failed
  although the file was written (session-store.ts:443). A delete answered with that failure
  leaves a published session without metadata, against the comment at
  session-manager.ts:938 ("a reported delete failure does not leave runtime and durable
  state disagreeing"); a create leaves metadata of a session it gave up.
- A command that finishes after the sweep deleted its session gives the deleted session
  a version again (session-version-store.ts:172; the comment at :42).
- The stored name and file of a session stay what they were after `set_session_name` and
  `switch_session_file`.
- A `createAgentSession` that hangs blocks every later creation (session-manager.ts:2209).

Persistence:

- Records of refused and replayed requests replace those of the command whose id they
  carry (`DeterministicAcrossRestarts`; ADR-0019:59, "explicit command IDs remain
  deterministic across restart boundaries").
- A record appended after a cut line is lost with it. When that is recovery's own
  terminal record and a replayed request is journaled next, a second restart finds the
  command neither in flight nor finished and runs it again (command-journal.ts:1305).
  The journal properties leave such ids out (`swallowed`).
- An id whose terminal record and fallback record both fail to append under fail_closed is
  left with an acceptance; the record of a later replayed request under that id ends it in the
  journal, and a restart recovers nothing (`shadowed`; session-manager.ts:1727).
- Two processes that find the same stale lock file can both end up with the lock
  (`SingleWriter`; command-journal.ts:620; ADR-0019:96, "single-writer lock file
  enforcement").
- A load whose read is overtaken by a mutation of the same store installs an old map under
  a stat that makes it look fresh (`FreshReads`; the comment at session-store.ts:176).
- An append that fails closed in the microtask between the end of the initialization and its
  continuation is overwritten by "ready" (session-manager.ts:356), and an initialization
  that ends late overwrites the outcomes of observer commands (:351).
- A stored path through a link and the discovered canonical one are two entries of a
  listing, and two ids stored for one file are one (session-store.ts:749). A `.jsonl` that
  is no session file is listed although session-store.ts:657 says malformed files are
  ignored. A name with ".." in it, or a `sessionsDir` that is not an allowed directory, is
  listed and then refused (validation.ts:222).

Guards and connections:

- The buckets of the control plane start afresh whenever a session is deleted
  (`BucketLimit`; resource-governor.ts:496, "sliding window rate limiting (both per-session
  and global)").
- A half-open circuit lets `halfOpenMaxCalls + 1` calls through, the one that made it half
  open being no test call (circuit-breaker.ts:29, "Maximum calls allowed in half-open
  state").
- A full `BoundedMap` evicts the first key inserted, however recently it was used
  (bounded-map.ts:59, "LRU-style eviction").
- Without an `onClear` handler the state of a cleared alert stays, and the next crossing of
  that level is silent until the realert time (threshold-alert-sink.ts:189).
- A response of the wrong method is reported a success and the dialog returns its default,
  as it does when it is aborted before it wakes (`AcceptedCounts`; extension-ui.ts:225).
- A second call of `stop()` during the first one's wait for the authentication provider
  does not wait for the drain (server.ts:579). `stop()` removes the handler of stdout errors
  and the subscribers that the shutdown message is for. A connection on which a send threw
  is cleaned up but its socket stays open, and it goes on without a slot (server.ts:691);
  a ping that throws ends the heartbeat, and a silent peer keeps its slot (server.ts:257).
  `ws` does not throw on an open socket; the code expects that it may. An authentication that hangs keeps
  its slot until the peer goes (server.ts:815).

## Plan

1. CommandPipeline and ReplayContract, with all safety properties and the refinement proved: done.
2. SessionLockManager and Mutex, SessionStore, and Locks with both: done, with proofs.
3. SessionLifecycle and SessionRegistry: done; the books are proved with the disturbances,
   the refinement without them.
4. CommandJournal, JournalLock, and DurableJournal with both: done, with proofs.
5. ServerTransports, ExtensionUI, DurableInit, SessionCreations, and ServerWaits with them
   all; ResourceGovernor, CircuitBreakers, BoundedCounter, ThresholdAlerts, CommandDispatch,
   and Guards with them all; SessionFiles, SessionTree, JournalHistory, and Queries with them
   all: done, with proofs.
6. Composition of `SessionLifecycle` with `CommandPipeline`: the pipeline takes the body of a
   command as one step that succeeds, fails or hangs, the life cycle takes the lane as a
   flag. A joint model exceeds what TLC finishes in minutes; the two meet in `lane`.

## Not modelled

- Authentication (stateless providers), metrics and logging (no effect on the protocol). What
  the transports do while an authentication is awaited is in `ServerTransports`.
- Response texts, fingerprint computation, redaction, lengths and character classes of
  fields: model values or shapes.
- What the pi SDK does inside a call. It returns, throws or hangs.
- Of the sessions: generated ids, the metadata clean-up of a session, the working directory a
  load resolves. Of the journal: lane sequence numbers, anonymous ids, the exemption of
  observability commands, short writes that do not end the process. Of the metadata store:
  grouping and sorting, display paths, the timer of the periodic clean-up. Of the governor:
  zombie detection, health and metrics. Of the server: start-up, signal handlers, message
  parsing. PROJECT.json says so with each component.
