--------------------------- MODULE CommandJournal ---------------------------
(***************************************************************************)
(* DurableCommandJournal and its use by PiSessionManager.executeCommand:   *)
(* lifecycle records in an append-only file, append failures under the two *)
(* policies, crashes that cut the last line, compaction, and the recovery  *)
(* of outcomes and of in-flight commands at the next start.  A command is  *)
(* known by its id; fingerprints and lanes' tasks are in CommandPipeline.  *)
(***************************************************************************)
EXTENDS Integers, FiniteSets, SequencesExt

CONSTANTS Ids,            \* ids that clients chose
          MaxEntries,     \* retention.maxEntries
          MaxRequests, MaxIncidents  \* bounds: requests; crashes and throwing appends

ASSUME JournalAssumption ==
  /\ IsFiniteSet(Ids) /\ {MaxEntries, MaxRequests} \subseteq Nat \ {0} /\ MaxIncidents \in Nat

VARIABLES
  file,        \* the complete lines of the journal
  torn,        \* the file ends in a part of a line, without a newline
  mode,        \* down, recovering, up, or failed: durableInitState at startup
  failClosed, retention,   \* the configuration: append policy, compaction
  broken,      \* durableInitState was set to failed by an append
  todo,        \* in-flight commands recovery has still to mark as failed
  passed,      \* requests that ensureDurableJournalInitialized has let through
  phase,       \* of the command in flight under an id
  late,        \* ids of commands that timed out before their task began
  outcomes,    \* the replay store: the answer kept for an id
  told,        \* history: the answer of the last command under an id
  bodies,      \* history: how often a body began under an id
  forgotten,   \* history: ids whose outcome was evicted or compacted away
  shadowed,    \* history: ids a request was answered for without being run
  swallowed,   \* history: ids that lost a record to a cut line
  requests, incidents  \* counters for the bounds

vars == <<file, torn, mode, failClosed, retention, broken, todo, passed, phase,
          late, outcomes, told, bodies, forgotten, shadowed, swallowed, requests, incidents>>
disk    == <<file, torn, swallowed>>
config  == <<failClosed, retention>>
arrivals == <<passed, requests>>
history == <<told, bodies, forgotten, shadowed>>

NoAnswer == "none"
Answers == {"ok", "fail", "lost", "refused", "replayed"}
Phases == {"accepted", "started", "finished"}

Request == requests < MaxRequests /\ requests' = requests + 1
Incidents(n) == incidents + n <= MaxIncidents /\ incidents' = incidents + n
-----------------------------------------------------------------------------
(* Reading a journal *)

\* makeOutcomeFromFinishedEntry: which records carry an outcome.
IsOutcome(e) == e.phase = "finished" /\ e.answer # "replayed"

\* Commands with an accepted or started record and no terminal record after it.
InFlightIn(f) ==
  {i \in Ids : \E n \in 1 .. Len(f) :
     /\ f[n].id = i /\ f[n].phase # "finished"
     /\ \A m \in (n + 1) .. Len(f) : f[m].id = i => f[m].phase # "finished"}

OutcomesAt(f, i) == {n \in 1 .. Len(f) : f[n].id = i /\ IsOutcome(f[n])}
\* The last record with an outcome wins.
OutcomeIn(f, i) ==
  IF OutcomesAt(f, i) = {} THEN NoAnswer ELSE f[Max(OutcomesAt(f, i))].answer

\* What a start from this file tells a client that retries the id.
Recovered(f, i) == IF i \in InFlightIn(f) THEN "lost" ELSE OutcomeIn(f, i)
-----------------------------------------------------------------------------
(* Compaction *)

\* Of the positions in S, the last of each command.
LastOf(f, S) == {n \in S : \A m \in S : f[m].id = f[n].id => m <= n}

Terminals(f) ==
  LastOf(f, {n \in 1 .. Len(f) : IsOutcome(f[n]) /\ f[n].id \notin InFlightIn(f)})
NoInFlight(f) == {}                                                   \* fault
KeptInFlight(f) ==
  LastOf(f, {n \in 1 .. Len(f) : f[n].phase # "finished" /\ f[n].id \in InFlightIn(f)})

\* Age and size limits drop the oldest outcomes first, so what is kept of them is
\* their k newest, at most maxEntries; in-flight commands are always kept.
Oldest(S, k) == {n \in S : Cardinality({m \in S : m < n}) < k}        \* fault
Newest(S, k) == {n \in S : Cardinality({m \in S : m > n}) < k}
Kept(f, k) == KeptInFlight(f) \cup Newest(Terminals(f), k)

\* The positions in S, in their order.
Orders(S) ==
  {p \in [1 .. Cardinality(S) -> S] : /\ \A m, n \in DOMAIN p : m < n => p[m] < p[n]
                                     /\ \A x \in S : \E n \in DOMAIN p : p[n] = x}

CompactNow ==
  /\ \E k \in 0 .. MaxEntries : \E kept \in Orders(Kept(file, k)) :
       file' = [n \in DOMAIN kept |-> file[kept[n]]]
  /\ torn' = FALSE
  /\ forgotten' = forgotten \cup {i \in Ids : OutcomeIn(file, i) # NoAnswer
                                                   /\ OutcomeIn(file', i) = NoAnswer}
-----------------------------------------------------------------------------
(* Appending *)

\* A record appended after a cut line joins that line and is lost with it.
Write(e) ==
  /\ file' = IF torn THEN file ELSE Append(file, e)
  /\ torn' = FALSE
  /\ swallowed' = IF torn THEN swallowed \cup {e.id} ELSE swallowed

Line(i, ph, answer) == [id |-> i, phase |-> ph, answer |-> answer]

\* appendLifecycle: the record is written, or nothing is and it throws.
Appends(i, ph, throws) ==
  /\ throws \in {0, 1}
  /\ \/ throws = 0 /\ Write(Line(i, ph, NoAnswer))
     \/ throws = 1 /\ UNCHANGED disk

\* finalizeResponse: the terminal record; under fail_closed a throwing append turns the
\* answer into a failure, written once more past the redaction hooks, which may throw too.
TellAnyway(answer) == answer                                          \* fault
Degraded(answer) == IF failClosed THEN "fail" ELSE answer
Finalize(i, answer, final, throws) ==
  \/ throws = 0 /\ final = answer /\ Write(Line(i, "finished", answer))
  \/ throws = 1 /\ final = Degraded(answer)
     /\ IF failClosed THEN Write(Line(i, "finished", "fail")) ELSE UNCHANGED disk
  \/ throws = 2 /\ failClosed /\ final = Degraded(answer) /\ UNCHANGED disk

\* markDurableJournalRuntimeFailure
BreakIfThrown(throws) == broken' = (broken \/ (failClosed /\ throws > 0))

\* ensureDurableJournalInitialized lets a command through.
Serving == mode = "up" /\ ~broken
-----------------------------------------------------------------------------
Init ==
  /\ file = <<>> /\ torn = FALSE
  /\ mode = "down" /\ failClosed \in BOOLEAN /\ retention \in BOOLEAN
  /\ broken = FALSE /\ todo = {} /\ passed = [i \in Ids |-> 0]
  /\ phase = [i \in Ids |-> "idle"] /\ late = {}
  /\ outcomes = [i \in Ids |-> NoAnswer] /\ told = [i \in Ids |-> NoAnswer]
  /\ bodies = [i \in Ids |-> 0]
  /\ forgotten = {} /\ shadowed = {} /\ swallowed = {} /\ requests = 0 /\ incidents = 0

\* initialize(): compaction under a retention policy, then the scan.  The outcomes are
\* handed over at the end; an in-flight command's gives way to "lost".
StartRecovery ==
  /\ mode = "down" /\ mode' = "recovering"
  /\ \/ retention /\ CompactNow
     \/ ~retention /\ UNCHANGED <<file, torn, forgotten>>
  /\ todo' = InFlightIn(file')
  /\ outcomes' = [i \in Ids |-> Recovered(file', i)]
  /\ UNCHANGED <<config, broken, phase, late, told, bodies, shadowed, swallowed,
                 arrivals, incidents>>

\* Compaction or the scan throws: initialization has failed for this process.
InitializationFails ==
  /\ mode = "down" /\ Incidents(1) /\ mode' = "failed"
  /\ UNCHANGED <<disk, config, broken, todo, phase, late, outcomes, history, arrivals>>

\* The terminal record of a command that did not finish before the crash.
MarkLost(i) ==
  /\ mode = "recovering" /\ i \in todo /\ todo' = todo \ {i}
  /\ Write(Line(i, "finished", "lost"))
  /\ UNCHANGED <<mode, config, broken, phase, late, outcomes, history, arrivals, incidents>>

RecoveryFails(i) ==
  /\ mode = "recovering" /\ i \in todo /\ Incidents(1) /\ mode' = "failed"
  /\ UNCHANGED <<disk, config, broken, todo, phase, late, outcomes, history, arrivals>>

RecoveryDone ==
  /\ mode = "recovering" /\ todo = {} /\ mode' = "up"
  /\ told' = [i \in Ids |-> IF outcomes[i] = "lost" THEN "lost" ELSE told[i]]
  /\ UNCHANGED <<disk, config, broken, todo, phase, late, outcomes, bodies,
                 forgotten, shadowed, arrivals, incidents>>

\* The process dies, perhaps in the middle of an append.
Crash ==
  /\ mode # "down" /\ Incidents(1)
  /\ mode' = "down"
  /\ torn' \in {torn, TRUE}
  /\ broken' = FALSE /\ todo' = {} /\ passed' = [i \in Ids |-> 0]
  /\ phase' = [i \in Ids |-> "idle"] /\ late' = {}
  /\ outcomes' = [i \in Ids |-> NoAnswer]
  /\ UNCHANGED <<file, swallowed, config, history, requests>>
-----------------------------------------------------------------------------
(* executeCommand.  "doomed" is a command whose task returned a failure at once.        *)

\* The check and the admission are two runs of the event loop: another command's append
\* may break the journal in between.
Arrive(i) ==
  /\ Serving /\ Request /\ passed' = [passed EXCEPT ![i] = @ + 1]
  /\ UNCHANGED <<disk, mode, config, broken, todo, phase, late, outcomes, history, incidents>>

Reaches(i) == passed[i] > 0 /\ passed' = [passed EXCEPT ![i] = @ - 1]

Concluded(i, answer, throws) ==
  \E final \in Answers :
    /\ Finalize(i, answer, final, throws)
    /\ told' = [told EXCEPT ![i] = final] /\ outcomes' = [outcomes EXCEPT ![i] = final]

Admissible(i) == Reaches(i) /\ phase[i] = "idle" /\ outcomes[i] = NoAnswer

Admit(i) ==
  /\ Admissible(i)
  /\ \E throws \in {0, 1} :
       /\ throws = 1 => ~failClosed
       /\ Appends(i, "accepted", throws) /\ Incidents(throws)
  /\ phase' = [phase EXCEPT ![i] = "accepted"] /\ told' = [told EXCEPT ![i] = NoAnswer]
  /\ UNCHANGED <<mode, config, broken, todo, late, outcomes, bodies, forgotten, shadowed,
                 requests>>

\* Under fail_closed a command whose accepted record throws is answered on the spot.
RejectUnjournaled(i) ==
  /\ Admissible(i) /\ failClosed
  /\ \E throws \in 0 .. 2 : Concluded(i, "fail", throws) /\ Incidents(throws + 1)
  /\ broken' = TRUE
  /\ UNCHANGED <<mode, config, todo, phase, late, bodies, forgotten, shadowed, requests>>

\* The lane task appends the started record; then come dependencies and body.
TaskBegins(i, throws) ==
  /\ Appends(i, "started", throws) /\ Incidents(throws) /\ BreakIfThrown(throws)
  /\ bodies' = IF throws = 1 /\ failClosed THEN bodies ELSE [bodies EXCEPT ![i] = @ + 1]

Start(i) ==
  /\ mode = "up" /\ phase[i] = "accepted" /\ i \notin late
  /\ \E throws \in {0, 1} :
       /\ TaskBegins(i, throws)
       /\ phase' = [phase EXCEPT ![i] = IF bodies' = bodies THEN "doomed" ELSE "started"]
  /\ UNCHANGED <<mode, config, todo, late, outcomes, told, forgotten, shadowed, arrivals>>

\* The same for a command that was answered in the lane queue; its result is ignored.  A
\* later command of this id waits behind it in the lane.
StartLate(i) ==
  /\ mode = "up" /\ i \in late /\ late' = late \ {i}
  /\ \E throws \in {0, 1} : TaskBegins(i, throws)
  /\ UNCHANGED <<mode, config, todo, phase, outcomes, told, forgotten, shadowed, arrivals>>

Finish(i) ==
  /\ mode = "up" /\ phase[i] \in {"started", "doomed"}
  /\ \E answer \in {"ok", "fail"}, throws \in 0 .. 2 :
       /\ phase[i] = "doomed" => answer = "fail"
       /\ Concluded(i, answer, throws) /\ Incidents(throws) /\ BreakIfThrown(throws)
  /\ phase' = [phase EXCEPT ![i] = "idle"]
  /\ UNCHANGED <<mode, config, todo, late, bodies, forgotten, shadowed, arrivals>>

\* The timer fires in the lane queue: the command is answered, its task is still to come.
TimeOut(i) ==
  /\ mode = "up" /\ phase[i] = "accepted" /\ i \notin late
  /\ \E throws \in 0 .. 2 :
       Concluded(i, "fail", throws) /\ Incidents(throws) /\ BreakIfThrown(throws)
  /\ phase' = [phase EXCEPT ![i] = "idle"] /\ late' = late \cup {i}
  /\ UNCHANGED <<mode, config, todo, bodies, forgotten, shadowed, arrivals>>

\* A request that is not admitted: a conflict, a rate limit or a full in-flight table.
\* Its answer is journaled under its id like the outcome of a command.
Refuse(i) ==
  /\ Reaches(i)
  /\ \E final \in Answers, throws \in 0 .. 2 :
       Finalize(i, "refused", final, throws) /\ Incidents(throws) /\ BreakIfThrown(throws)
  /\ shadowed' = shadowed \cup {i}
  /\ UNCHANGED <<mode, config, todo, phase, late, outcomes, told, bodies, forgotten, requests>>

\* A replay, by id, or by an idempotency key while the id itself is free or in flight.
\* A fallback record does not say that it belongs to a replay; and the record of a replay
\* ends, to the journal, a command that never got a terminal record of its own.
Shadows(i, throws) ==
  outcomes[i] = NoAnswer \/ (failClosed /\ throws = 1) \/ i \in InFlightIn(file)

Replay(i) ==
  /\ Reaches(i)
  /\ \E final \in Answers, throws \in 0 .. 2 :
       /\ Finalize(i, "replayed", final, throws) /\ Incidents(throws) /\ BreakIfThrown(throws)
       /\ shadowed' = IF Shadows(i, throws) THEN shadowed \cup {i} ELSE shadowed
  /\ UNCHANGED <<mode, config, todo, phase, late, outcomes, told, bodies, forgotten, requests>>

\* trimCommandOutcomes evicts an outcome from the replay store.
Evict(i) ==
  /\ mode = "up" /\ outcomes[i] # NoAnswer
  /\ outcomes' = [outcomes EXCEPT ![i] = NoAnswer] /\ forgotten' = forgotten \cup {i}
  /\ UNCHANGED <<disk, mode, config, broken, todo, phase, late, told,
                 bodies, shadowed, arrivals, incidents>>

\* The periodic maintenance of the session manager, whatever became of the initialization.
Compact ==
  /\ mode # "down" /\ retention /\ CompactNow
  /\ UNCHANGED <<mode, config, broken, todo, phase, late, outcomes,
                 told, bodies, shadowed, swallowed, arrivals, incidents>>

Next ==
  \/ StartRecovery \/ InitializationFails \/ RecoveryDone \/ Crash \/ Compact
  \/ \E i \in Ids : \/ MarkLost(i) \/ RecoveryFails(i)
                    \/ Arrive(i) \/ Admit(i) \/ RejectUnjournaled(i) \/ Start(i) \/ StartLate(i)
                    \/ Finish(i) \/ TimeOut(i) \/ Refuse(i) \/ Replay(i) \/ Evict(i)

Spec == Init /\ [][Next]_vars
-----------------------------------------------------------------------------
TypeOK ==
  /\ file \in Seq([id : Ids, phase : Phases, answer : Answers \cup {NoAnswer}])
  /\ {torn, failClosed, retention, broken} \subseteq BOOLEAN
  /\ mode \in {"down", "recovering", "up", "failed"} /\ todo \subseteq Ids
  /\ phase \in [Ids -> {"idle", "accepted", "started", "doomed"}] /\ late \subseteq Ids
  /\ {outcomes, told} \subseteq [Ids -> Answers \cup {NoAnswer}]
  /\ {bodies, passed} \subseteq [Ids -> Nat]
  /\ forgotten \subseteq Ids /\ shadowed \subseteq Ids /\ swallowed \subseteq Ids
  /\ mode # "up" => \A i \in Ids : phase[i] = "idle"
  /\ requests \in 0 .. MaxRequests /\ incidents \in 0 .. MaxIncidents

\* What a restart would tell of an id agrees with what its client was told: a success
\* stays that success unless compaction drops it, a failure never becomes one unless the
\* outcome of an earlier run was evicted.
Agrees(i) ==
  LET after == Recovered(file, i) IN
  /\ told[i] = "ok" => after = "ok" \/ (after = NoAnswer /\ i \in forgotten)
  /\ (told[i] \in {"fail", "lost"} /\ i \notin forgotten) => after # "ok"

\* Under fail_closed the file agrees with the clients at every moment, whatever cut
\* lines, failed appends, late starts, evictions and compactions there were, for the ids
\* that were only used by the commands they name.
RecoveryFaithful ==
  TypeOK /\ (failClosed => \A i \in Ids \ (shadowed \cup swallowed) : Agrees(i))

\* At most once across restarts: under fail_closed a body whose command was started
\* before a crash is not begun again afterwards, unless its outcome was forgotten.
AtMostOnceDurably ==
  failClosed => \A i \in Ids \ (shadowed \cup swallowed \cup forgotten) : bodies[i] <= 1

\* Compaction changes nothing a start would recover except by dropping outcomes, and
\* a kept outcome is never older than a dropped one.
Compacts == file' # file /\ Len(file') <= Len(file)
KeepsRecovery ==
  /\ InFlightIn(file') = InFlightIn(file)
  /\ \A i \in Ids : Recovered(file', i) \in {Recovered(file, i), NoAnswer}
  /\ \A i, j \in Ids :
       (/\ Recovered(file', i) # NoAnswer /\ Recovered(file', j) = NoAnswer
        /\ OutcomesAt(file, i) # {} /\ OutcomesAt(file, j) # {} /\ i \notin InFlightIn(file))
        => Max(OutcomesAt(file, i)) > Max(OutcomesAt(file, j))

CompactionKeepsRecovery == [][Compacts => KeepsRecovery]_vars

\* ADR-0019: explicit command ids remain deterministic across restart boundaries.
DeterministicAcrossRestarts == failClosed => \A i \in Ids \ swallowed : Agrees(i)
=============================================================================
