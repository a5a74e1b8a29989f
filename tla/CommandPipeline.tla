-------------------------- MODULE CommandPipeline --------------------------
(***************************************************************************)
(* The path of a command through PiSessionManager.executeCommand: replay   *)
(* check, admission, the lane queue, dependency waits, the body, the       *)
(* command timeout, and the terminal bookkeeping of CommandReplayStore.    *)
(* One JavaScript turn between two awaits is one action.  Requests are     *)
(* numbered in the order executeCommand reaches its synchronous part.      *)
(***************************************************************************)
EXTENDS Integers, Sequences, FiniteSets

CONSTANTS
  Ids, Keys, Lanes,   \* explicit command ids, idempotency keys, lane keys
  ServerLane,         \* the lane of commands without a session id
  Fingerprints,       \* semantic payload digests
  NoId, NoKey,        \* the optional fields left out
  NoCommand,          \* the command of a request not yet submitted
  Commands,           \* the commands clients may submit
  MaxRequests,        \* bound: how many requests are submitted
  MaxInFlight,        \* maxInFlightCommands
  MaxOutcomes,        \* maxCommandOutcomes
  JournalMayFail,     \* fail_closed appends that may fail are in play
  MayShutDown         \* server.stop() is in play

Requests == 1 .. MaxRequests
NoReq    == 0
ScopedKeys == Lanes \X Keys

\* policy: getCommandTimeoutPolicy, "none" for commands that cannot be cancelled
Command == [id: Ids \cup {NoId}, key: Keys \cup {NoKey}, fp: Fingerprints,
            lane: Lanes, deps: Seq(Ids), policy: {"none", "short", "long"}]

ASSUME ConstantsAssumption ==
  /\ NoId \notin Ids /\ NoKey \notin Keys /\ NoCommand \notin Command
  /\ Commands \subseteq Command /\ ServerLane \in Lanes
  /\ MaxRequests \in Nat /\ MaxInFlight \in Nat /\ MaxOutcomes \in Nat \ {0}
  /\ JournalMayFail \in BOOLEAN /\ MayShutDown \in BOOLEAN

\* A response is the request whose execution or rejection produced it and what
\* it says; "ok" is success: true, every other kind is success: false.
Kinds     == {"none", "ok", "fail", "timeout", "cancelled",
              "conflict", "limited", "busy", "refused"}
Verdict   == [src: Requests \cup {NoReq}, kind: Kinds]
NoVerdict == [src |-> NoReq, kind |-> "none"]

VARIABLES
  submitted,    \* number of requests submitted so far
  cmd,          \* the command of each request
  stage,        \* where the request is
  prev,         \* the request whose lane tail it awaits
  waitsFor,     \* the request whose tracked promise it awaits
  depIdx,       \* position in deps of the dependency it awaits
  race,         \* withTimeout: open, or settled by the result or the timer
  result,       \* what the lane task returned while the race was open
  reply,        \* the terminal response returned to the client
  inFlight,     \* commandInFlightById
  keyInFlight,  \* idempotencyInFlightByKey
  outcomes,     \* commandOutcomes
  outcomeOrder, \* commandOutcomeOrder
  keyCache,     \* idempotencyCache
  keyExpired,   \* cache entries past expiresAt and not yet swept
  laneTail,     \* laneTails
  runtime,      \* up, draining (isShuttingDown) or disposed (runtimeDisposed)
  ran,          \* history: requests whose body was entered
  aborted,      \* history: bodies hit by the abort hook of a timeout
  events,       \* history: lifecycle events broadcast per request
  forgotten     \* history: ids and keys whose binding was evicted or expired

laneVars  == <<stage, prev, laneTail>>
storeVars == <<inFlight, keyInFlight, outcomes, outcomeOrder, keyCache, keyExpired>>
clientVars == <<submitted, cmd>>
vars == <<clientVars, laneVars, waitsFor, depIdx, race, result, reply, storeVars,
          runtime, ran, aborted, events, forgotten>>

Entered   == {"queued", "waiting", "running", "released"}
Executing == {"waiting", "running"}
Stages    == Entered \cup {"unsent", "joined", "closed"}

IdOf(c)  == {c.id} \ {NoId}
KeyOf(c) == IF c.key = NoKey THEN {} ELSE {<<c.lane, c.key>>}

Answered(r) == reply[r] # NoVerdict

PendingAnsweredAgain(r) == stage[r] \in Entered   \* fault: nothing remembers the answer
Pending(r) == stage[r] \in Entered /\ ~Answered(r)
-----------------------------------------------------------------------------
(* Replay check *)

\* cleanupIdempotencyCache runs on every submission that passes validation.
SweptCache == [k \in ScopedKeys |-> IF k \in keyExpired THEN NoVerdict ELSE keyCache[k]]

\* The four lookups of checkReplay, in its order, that find something.
Hits(c) ==
  {h \in {[rank |-> 1, how |-> "cached", found |-> SweptCache[k]] : k \in KeyOf(c)} \cup
         {[rank |-> 2, how |-> "join", found |-> [src |-> keyInFlight[k], kind |-> "none"]]
            : k \in KeyOf(c)} \cup
         {[rank |-> 3, how |-> "cached", found |-> outcomes[i]] : i \in IdOf(c)} \cup
         {[rank |-> 4, how |-> "join", found |-> [src |-> inFlight[i], kind |-> "none"]]
            : i \in IdOf(c)} : h.found.src # NoReq}

FirstHits(c) == {h \in Hits(c) : \A g \in Hits(c) : h.rank <= g.rank}

FingerprintsIgnored(c, h) == TRUE                 \* fault: identity alone decides a replay
FingerprintsMatch(c, h) == cmd[h.found.src].fp = c.fp
-----------------------------------------------------------------------------
(* Terminal bookkeeping *)

\* finalizeResponse: a failed fail_closed append turns any response into a failure.
FinalVerdicts(r, v) == {v} \cup (IF JournalMayFail THEN {[src |-> r, kind |-> "fail"]} ELSE {})

Emit(r, es) == events' = [events EXCEPT ![r] = @ \o es]

TrimLate(order) == IF Len(order) > MaxOutcomes + 1 THEN {Head(order)} ELSE {}   \* fault
Overflow(order) == IF Len(order) > MaxOutcomes THEN {Head(order)} ELSE {}

RecordOutcome(c, v) ==
  LET order == outcomeOrder \o (IF c.id = NoId \/ outcomes[c.id] # NoVerdict
                                THEN <<>> ELSE <<c.id>>)
      evict == Overflow(order)
  IN /\ outcomes' = [i \in Ids |-> IF i \in evict THEN NoVerdict
                                   ELSE IF i = c.id THEN v ELSE outcomes[i]]
     /\ outcomeOrder' = IF evict = {} THEN order ELSE Tail(order)
     /\ forgotten' = forgotten \cup evict

\* fault: the behaviour ADR-0001 replaced, a timeout leaves no outcome
StoreUnlessTimeout(c, v) ==
  IF v.kind = "timeout" THEN UNCHANGED <<outcomes, outcomeOrder, forgotten>>
                        ELSE RecordOutcome(c, v)
\* fault: an anonymous command joins the trimming queue
StoreAnonymous(c, v) ==
  IF c.id # NoId THEN RecordOutcome(c, v)
  ELSE outcomeOrder' = Append(outcomeOrder, c.id) /\ UNCHANGED <<outcomes, forgotten>>
\* storeCommandOutcome with trimCommandOutcomes, for a request with an explicit id.
StoreOutcome(c, v) == RecordOutcome(c, v)

KeepUnlessOk(f, dom, r, v) ==                     \* fault: records leak on failure
  [x \in dom |-> IF f[x] = r /\ v.kind = "ok" THEN NoReq ELSE f[x]]
\* unregisterInFlight, unregisterIdempotencyInFlight: only the request's own record.
Unregistered(f, dom, r, v) == [x \in dom |-> IF f[x] = r THEN NoReq ELSE f[x]]

\* The tail of executeCommand after finalizeResponse: the outcome is stored, the
\* in-flight records go, the key cache gets the response.  One synchronous run.
Settle(r, c, cache, expired, v) ==
  /\ reply' = [reply EXCEPT ![r] = v]
  /\ StoreOutcome(c, v)
  /\ inFlight' = Unregistered(inFlight, Ids, r, v)
  /\ keyInFlight' = Unregistered(keyInFlight, ScopedKeys, r, v)
  /\ keyCache' = [k \in ScopedKeys |-> IF k \in KeyOf(c) THEN v ELSE cache[k]]
  /\ keyExpired' = expired \ KeyOf(c)
-----------------------------------------------------------------------------
(* Submission: executeCommand up to its first await after the durable init *)

Arrive(c) ==
  /\ submitted < MaxRequests
  /\ submitted' = submitted + 1
  /\ cmd' = [cmd EXCEPT ![submitted + 1] = c]

Close(r) == stage' = [stage EXCEPT ![r] = "closed"]

Sweep == keyCache' = SweptCache /\ keyExpired' = {}

\* Draining or disposed: rejected before the sweep, with no lifecycle event.
RefuseShutdown(c) ==
  LET r == submitted + 1 IN
  /\ runtime # "up"
  /\ Arrive(c) /\ Close(r)
  /\ reply' = [reply EXCEPT ![r] = [src |-> r, kind |-> "refused"]]
  /\ UNCHANGED <<prev, laneTail, waitsFor, depIdx, race, result, storeVars,
                 runtime, ran, aborted, events, forgotten>>

\* A response before admission: it goes through finalizeResponse and nowhere else.
AnswerNow(c, v) ==
  LET r == submitted + 1 IN
  /\ runtime = "up"
  /\ Arrive(c) /\ Close(r) /\ Sweep /\ Emit(r, <<"finished">>)
  /\ \E w \in FinalVerdicts(r, v) : reply' = [reply EXCEPT ![r] = w]
  /\ UNCHANGED <<prev, laneTail, waitsFor, depIdx, race, result, inFlight, keyInFlight,
                 outcomes, outcomeOrder, runtime, ran, aborted, forgotten>>

AnswerConflict(c) ==
  /\ \E h \in FirstHits(c) : ~FingerprintsMatch(c, h)
  /\ AnswerNow(c, [src |-> submitted + 1, kind |-> "conflict"])

ReplayCached(c) ==
  \E h \in FirstHits(c) :
    h.how = "cached" /\ FingerprintsMatch(c, h) /\ AnswerNow(c, h.found)

\* replay_inflight: await the tracked promise of the request that is executing.
JoinInFlight(c) ==
  LET r == submitted + 1 IN
  /\ runtime = "up"
  /\ Arrive(c) /\ Sweep
  /\ stage' = [stage EXCEPT ![r] = "joined"]
  /\ \E h \in FirstHits(c) :
       /\ h.how = "join" /\ FingerprintsMatch(c, h)
       /\ waitsFor' = [waitsFor EXCEPT ![r] = h.found.src]
  /\ UNCHANGED <<prev, laneTail, depIdx, race, result, reply, inFlight, keyInFlight,
                 outcomes, outcomeOrder, runtime, ran, aborted, events, forgotten>>

\* The governor may refuse any new execution; its windows are ResourceGovernor's concern.
RejectRateLimited(c) ==
  Hits(c) = {} /\ AnswerNow(c, [src |-> submitted + 1, kind |-> "limited"])

InFlightFull == Cardinality({i \in Ids : inFlight[i] # NoReq}) >= MaxInFlight

RejectBusy(c) ==
  /\ Hits(c) = {} /\ c.id # NoId /\ InFlightFull
  /\ AnswerNow(c, [src |-> submitted + 1, kind |-> "busy"])

Admissible(c) == runtime = "up" /\ Hits(c) = {} /\ (c.id # NoId => ~InFlightFull)

\* The fail_closed append of command_accepted fails: registered, settled and
\* unregistered in the same turn, without entering the lane.
AcceptNotJournaled(c) ==
  LET r == submitted + 1 IN
  /\ JournalMayFail /\ Admissible(c)
  /\ Arrive(c) /\ Close(r) /\ Emit(r, <<"finished">>)
  /\ Settle(r, c, SweptCache, {}, [src |-> r, kind |-> "fail"])
  /\ UNCHANGED <<prev, laneTail, waitsFor, depIdx, race, result, runtime, ran, aborted>>

\* registerInFlight, registerIdempotencyInFlight, command_accepted, runOnLane up to
\* its await, and executeWithTimeout, which arms the timer before the lane is free.
Admit(c) ==
  LET r == submitted + 1 IN
  /\ Admissible(c)
  /\ Arrive(c) /\ Sweep /\ Emit(r, <<"accepted">>)
  /\ inFlight' = [i \in Ids |-> IF i = c.id THEN r ELSE inFlight[i]]
  /\ keyInFlight' = [k \in ScopedKeys |-> IF k \in KeyOf(c) THEN r ELSE keyInFlight[k]]
  /\ stage' = [stage EXCEPT ![r] = "queued"]
  /\ prev' = [prev EXCEPT ![r] = laneTail[c.lane]]
  /\ laneTail' = [laneTail EXCEPT ![c.lane] = r]
  /\ UNCHANGED <<waitsFor, depIdx, race, result, reply, outcomes, outcomeOrder,
                 runtime, ran, aborted, forgotten>>

Submit == \E c \in Commands :
  \/ RefuseShutdown(c) \/ AnswerConflict(c) \/ ReplayCached(c) \/ JoinInFlight(c)
  \/ RejectRateLimited(c) \/ RejectBusy(c) \/ AcceptNotJournaled(c) \/ Admit(c)
-----------------------------------------------------------------------------
(* The lane task *)

\* fault: the tail entry goes even when another request queued behind it
ForgetTail(r) == laneTail' = [laneTail EXCEPT ![cmd[r].lane] = NoReq]
\* The tail entry goes only if nobody queued behind.
ReleaseLane(r) ==
  LET lane == cmd[r].lane IN
  laneTail' = [laneTail EXCEPT ![lane] = IF @ = r THEN NoReq ELSE @]

\* The task returns k: the lane is released, and the response counts only if the
\* timer has not fired.
CompleteTask(r, k) ==
  /\ stage' = [stage EXCEPT ![r] = "released"]
  /\ ReleaseLane(r)
  /\ race' = [race EXCEPT ![r] = IF @ = "open" THEN "result" ELSE @]
  /\ result' = [result EXCEPT ![r] = IF race[r] = "open" THEN k ELSE @]

EnterBody(r) ==
  /\ stage' = [stage EXCEPT ![r] = "running"]
  /\ ran' = ran \cup {r}

DependencyKnown(i) ==                             \* fault: success is not looked at
  inFlight[i] = NoReq /\ outcomes[i] # NoVerdict
\* awaitDependencies looks at the in-flight record first, then at the stored outcome.
DependencyMet(i) == inFlight[i] = NoReq /\ outcomes[i].kind = "ok"

\* The loop of awaitDependencies from position `from` to its next await or its return.
\* A holder in the same lane is queued behind this command: fail instead of deadlock.
ResolveDependencies(r, from) ==
  LET deps == cmd[r].deps IN
  \/ /\ \A j \in from .. Len(deps) : DependencyMet(deps[j])
     /\ EnterBody(r)
     /\ UNCHANGED <<laneTail, waitsFor, depIdx, race, result>>
  \/ \E j \in from .. Len(deps) :
       /\ ~DependencyMet(deps[j])
       /\ \A m \in from .. (j - 1) : DependencyMet(deps[m])
       /\ LET holder == inFlight[deps[j]]
              waits  == holder \in {q \in Requests : cmd[q] # NoCommand /\ cmd[q].lane # cmd[r].lane}
          IN \/ /\ waits
                /\ stage' = [stage EXCEPT ![r] = "waiting"]
                /\ waitsFor' = [waitsFor EXCEPT ![r] = holder]
                /\ depIdx' = [depIdx EXCEPT ![r] = j]
                /\ UNCHANGED <<laneTail, race, result>>
             \/ /\ ~waits
                /\ CompleteTask(r, "fail")
                /\ UNCHANGED <<waitsFor, depIdx>>
       /\ UNCHANGED ran

\* previousTail has resolved; the tail of prev[r] waited for all tails before it.
LaneFree(r) == prev[r] \in {NoReq} \cup {q \in Requests : stage[q] = "released"}

DependsOnItself(c) == \E j \in 1 .. Len(c.deps) : c.deps[j] = c.id

StartTask(r) ==
  /\ stage[r] = "queued" /\ LaneFree(r)
  /\ \/ /\ runtime = "disposed"
        /\ CompleteTask(r, "cancelled")
        /\ UNCHANGED <<waitsFor, depIdx, ran, events>>
     \/ /\ runtime # "disposed" /\ JournalMayFail
        /\ CompleteTask(r, "fail")
        /\ UNCHANGED <<waitsFor, depIdx, ran, events>>
     \/ /\ runtime # "disposed" /\ DependsOnItself(cmd[r])
        /\ Emit(r, <<"started">>)
        /\ CompleteTask(r, "fail")
        /\ UNCHANGED <<waitsFor, depIdx, ran>>
     \/ /\ runtime # "disposed" /\ ~DependsOnItself(cmd[r])
        /\ Emit(r, <<"started">>)
        /\ ResolveDependencies(r, 1)
  /\ UNCHANGED <<clientVars, prev, reply, storeVars, runtime, aborted, forgotten>>

DependencySettled(r) ==
  /\ stage[r] = "waiting" /\ Answered(waitsFor[r])
  /\ \/ /\ reply[waitsFor[r]].kind = "ok"
        /\ ResolveDependencies(r, depIdx[r] + 1)
     \/ /\ reply[waitsFor[r]].kind # "ok"
        /\ CompleteTask(r, "fail")
        /\ UNCHANGED <<waitsFor, depIdx, ran>>
  /\ UNCHANGED <<clientVars, prev, reply, storeVars, runtime, aborted, events, forgotten>>

DependencyWaitUnbounded(r) == FALSE               \* fault: no dependencyWaitTimeoutMs
\* withTimeout around the dependency's promise, after dependencyWaitTimeoutMs.
DependencyTimeout(r) ==
  /\ stage[r] = "waiting" /\ ~Answered(waitsFor[r])
  /\ CompleteTask(r, "fail")
  /\ UNCHANGED <<clientVars, prev, waitsFor, depIdx, reply, storeVars, runtime,
                 ran, aborted, events, forgotten>>

\* executeCommandInternal returns: a handler's answer, or cancelled after disposal.
FinishBody(r) ==
  /\ stage[r] = "running"
  /\ \E k \in {"ok", "fail"} :
       CompleteTask(r, IF runtime = "disposed" THEN "cancelled" ELSE k)
  /\ UNCHANGED <<clientVars, prev, waitsFor, depIdx, reply, storeVars, runtime,
                 ran, aborted, events, forgotten>>
-----------------------------------------------------------------------------
(* The command timeout and the answer *)

\* fault: the timer is armed when the lane task starts
TimerArmedAtStart(r) ==
  stage[r] \in Executing /\ race[r] = "open" /\ cmd[r].policy # "none"
TimerArmed(r) == stage[r] \in Entered /\ race[r] = "open" /\ cmd[r].policy # "none"

AbortForAllTimed(c) == c.policy # "none"           \* fault: short commands abort as well
HasAbortHandler(c) == c.policy = "long" /\ c.lane # ServerLane

\* abort(), abortBash() and abortCompaction() reach whatever run their session has
\* going, and only long-policy commands have one.
AbortTargets(r) ==
  {q \in Requests : /\ HasAbortHandler(cmd[r]) /\ stage[q] = "running"
                    /\ cmd[q].lane = cmd[r].lane /\ cmd[q].policy = "long"}

\* Timers of one delay fire in the order they were armed, which is admission order.
CommandTimeout(r) ==
  /\ TimerArmed(r)
  /\ \A q \in 1 .. (r - 1) : ~(TimerArmed(q) /\ cmd[q].policy = cmd[r].policy)
  /\ race' = [race EXCEPT ![r] = "expired"]
  /\ aborted' = aborted \cup AbortTargets(r)
  /\ UNCHANGED <<clientVars, laneVars, waitsFor, depIdx, result, reply, storeVars,
                 runtime, ran, events, forgotten>>

Conclude(r, k) ==
  /\ \E v \in FinalVerdicts(r, [src |-> r, kind |-> k]) :
       Settle(r, cmd[r], keyCache, keyExpired, v)
  /\ Emit(r, <<"finished">>)
  /\ UNCHANGED <<clientVars, laneVars, waitsFor, depIdx, race, result, runtime,
                 ran, aborted>>

AnswerResult(r) == Pending(r) /\ race[r] = "result" /\ Conclude(r, result[r])

\* The rejection of withTimeout waits for the abort hook to come back.
AnswerTimeout(r) == Pending(r) /\ race[r] = "expired" /\ Conclude(r, "timeout")

AnswerJoined(r) ==
  /\ stage[r] = "joined" /\ Answered(waitsFor[r])
  /\ Close(r) /\ Emit(r, <<"finished">>)
  /\ \E v \in FinalVerdicts(r, reply[waitsFor[r]]) : reply' = [reply EXCEPT ![r] = v]
  /\ UNCHANGED <<clientVars, prev, laneTail, waitsFor, depIdx, race, result, storeVars,
                 runtime, ran, aborted, forgotten>>
-----------------------------------------------------------------------------
(* Time and shutdown *)

\* idempotencyTtlMs elapses for a cached key.
KeyExpires(k) ==
  /\ keyCache[k] # NoVerdict /\ k \notin keyExpired
  /\ keyExpired' = keyExpired \cup {k}
  /\ forgotten' = forgotten \cup {k}
  /\ UNCHANGED <<clientVars, laneVars, waitsFor, depIdx, race, result, reply, inFlight,
                 keyInFlight, outcomes, outcomeOrder, keyCache, runtime, ran, aborted, events>>

InitiateShutdown ==
  /\ MayShutDown /\ runtime = "up"
  /\ runtime' = "draining"
  /\ UNCHANGED <<clientVars, laneVars, waitsFor, depIdx, race, result, reply, storeVars,
                 ran, aborted, events, forgotten>>

\* markRuntimeDisposed and disposeAllSessions, once the drain is over or timed out.
Dispose ==
  /\ runtime = "draining"
  /\ runtime' = "disposed"
  /\ laneTail' = [l \in Lanes |-> NoReq]
  /\ inFlight' = [i \in Ids |-> NoReq]
  /\ keyInFlight' = [k \in ScopedKeys |-> NoReq]
  /\ outcomes' = [i \in Ids |-> NoVerdict]
  /\ outcomeOrder' = <<>>
  /\ keyCache' = [k \in ScopedKeys |-> NoVerdict]
  /\ keyExpired' = {}
  /\ UNCHANGED <<clientVars, stage, prev, waitsFor, depIdx, race, result, reply,
                 ran, aborted, events, forgotten>>
-----------------------------------------------------------------------------
Init ==
  /\ submitted = 0
  /\ cmd      = [r \in Requests |-> NoCommand]
  /\ stage    = [r \in Requests |-> "unsent"]
  /\ prev     = [r \in Requests |-> NoReq]
  /\ waitsFor = [r \in Requests |-> NoReq]
  /\ depIdx   = [r \in Requests |-> 0]
  /\ race     = [r \in Requests |-> "open"]
  /\ result   = [r \in Requests |-> "none"]
  /\ reply    = [r \in Requests |-> NoVerdict]
  /\ inFlight = [i \in Ids |-> NoReq]
  /\ keyInFlight = [k \in ScopedKeys |-> NoReq]
  /\ outcomes = [i \in Ids |-> NoVerdict]
  /\ outcomeOrder = <<>>
  /\ keyCache = [k \in ScopedKeys |-> NoVerdict]
  /\ keyExpired = {}
  /\ laneTail = [l \in Lanes |-> NoReq]
  /\ runtime  = "up"
  /\ ran = {} /\ aborted = {} /\ forgotten = {}
  /\ events   = [r \in Requests |-> <<>>]

\* Nothing is left to happen: every request the bound allows has its answer.
Quiescent ==
  /\ submitted = MaxRequests /\ \A r \in Requests : Answered(r)
  /\ UNCHANGED vars

Task(r) == StartTask(r) \/ DependencySettled(r) \/ DependencyTimeout(r) \/ FinishBody(r)
Answer(r) == CommandTimeout(r) \/ AnswerResult(r) \/ AnswerTimeout(r) \/ AnswerJoined(r)

Next ==
  \/ Submit
  \/ \E r \in Requests : Task(r) \/ Answer(r)
  \/ \E k \in ScopedKeys : KeyExpires(k)
  \/ InitiateShutdown \/ Dispose \/ Quiescent

Spec == Init /\ [][Next]_vars

\* Event-loop fairness: settled promises are delivered and timers fire.
LoopFairness ==
  \A r \in Requests :
    /\ WF_vars(StartTask(r)) /\ WF_vars(DependencySettled(r))
    /\ WF_vars(DependencyTimeout(r)) /\ WF_vars(CommandTimeout(r))
    /\ WF_vars(AnswerResult(r)) /\ WF_vars(AnswerJoined(r))

\* What only the pi SDK can promise: session.abort() and its like come back, bodies return.
AbortHooksReturn == \A r \in Requests : WF_vars(AnswerTimeout(r))
BodiesReturn     == \A r \in Requests : WF_vars(FinishBody(r))

FairSpec       == Spec /\ LoopFairness /\ AbortHooksReturn /\ BodiesReturn
HungBodySpec   == Spec /\ LoopFairness /\ AbortHooksReturn
-----------------------------------------------------------------------------
(* Properties *)

\* Every variable holds the values its code counterpart can hold; in particular only
\* explicit ids enter the outcome order and only Kinds of response are ever returned.
TypeOK ==
  /\ submitted \in 0 .. MaxRequests
  /\ cmd \in [Requests -> Commands \cup {NoCommand}]
  /\ stage \in [Requests -> Stages]
  /\ prev \in [Requests -> Requests \cup {NoReq}]
  /\ waitsFor \in [Requests -> Requests \cup {NoReq}]
  /\ depIdx \in [Requests -> Nat]
  /\ race \in [Requests -> {"open", "result", "expired"}]
  /\ result \in [Requests -> Kinds]
  /\ reply \in [Requests -> Verdict]
  /\ inFlight \in [Ids -> Requests \cup {NoReq}]
  /\ keyInFlight \in [ScopedKeys -> Requests \cup {NoReq}]
  /\ outcomes \in [Ids -> Verdict]
  /\ outcomeOrder \in Seq(Ids)
  /\ keyCache \in [ScopedKeys -> Verdict]
  /\ keyExpired \subseteq ScopedKeys
  /\ laneTail \in [Lanes -> Requests \cup {NoReq}]
  /\ runtime \in {"up", "draining", "disposed"}
  /\ ran \subseteq Requests /\ aborted \subseteq Requests
  /\ events \in [Requests -> Seq({"accepted", "started", "finished"})]
  /\ forgotten \subseteq Ids \cup ScopedKeys

\* The outcome queue and the outcome map of CommandReplayStore stay in step: no id
\* is queued twice, exactly the stored ids are queued, and the limit is respected;
\* the in-flight table respects its own limit.
StoreBounded ==
  /\ Len(outcomeOrder) <= MaxOutcomes
  /\ \A m, n \in 1 .. Len(outcomeOrder) : outcomeOrder[m] = outcomeOrder[n] => m = n
  /\ \A i \in Ids : outcomes[i] # NoVerdict <=> \E n \in 1 .. Len(outcomeOrder) : outcomeOrder[n] = i
  /\ Cardinality({i \in Ids : inFlight[i] # NoReq}) <= MaxInFlight

\* runOnLane serializes a lane in admission order: when a request is past the queue,
\* every request admitted to its lane before it has left the lane, timed out or not.
LaneSerial ==
  \A q, r \in Requests :
    (/\ q < r /\ stage[q] \in Entered /\ stage[r] \in Entered
     /\ cmd[q].lane = cmd[r].lane /\ stage[r] # "queued") => stage[q] = "released"

\* Until disposal the in-flight table is exactly the admitted and unanswered
\* requests, so that a duplicate always finds the execution it must join and a
\* finished one never blocks its id or its key.
InFlightAccurate ==
  runtime # "disposed" =>
    \A r \in Requests :
      /\ \A i \in Ids : inFlight[i] = r <=> (Pending(r) /\ cmd[r].id = i)
      /\ \A k \in ScopedKeys : keyInFlight[k] = r <=> (Pending(r) /\ k \in KeyOf(cmd[r]))

\* At-most-once execution: two bodies run under one id or one scoped key only if the
\* binding was evicted or had expired in between.  A timeout does not free the name.
AtMostOnce ==
  \A q, r \in ran :
    q # r => (IdOf(cmd[q]) \cap IdOf(cmd[r])) \cup (KeyOf(cmd[q]) \cap KeyOf(cmd[r]))
               \subseteq forgotten

\* A replayed response is the one its source returned, and the source carried the
\* same fingerprint and shares an id or a key: no answer crosses commands.
ReplayFaithful ==
  \A r \in Requests :
    LET q == reply[r].src IN
    (Answered(r) /\ q # r) =>
      /\ reply[q] = reply[r]
      /\ cmd[q].fp = cmd[r].fp
      /\ (IdOf(cmd[q]) \cap IdOf(cmd[r])) \cup (KeyOf(cmd[q]) \cap KeyOf(cmd[r])) # {}

\* What is final before a step is so after it.
FinalsStay ==
  /\ \A r \in Requests :
       Answered(r) => /\ reply'[r] = reply[r]
                      /\ "finished" \notin {events'[r][n] : n \in
                             (Len(events[r]) + 1) .. Len(events'[r])}
  /\ \A i \in Ids : outcomes[i] # NoVerdict => outcomes'[i] \in {outcomes[i], NoVerdict}

\* A terminal response never changes and is announced once; a stored outcome changes
\* only by eviction.  A late completion overwrites neither.
TerminalIsFinal == [][FinalsStay]_vars

\* A body is entered only after every dependency has been answered with success,
\* whatever was in flight, evicted or timed out on the way.
DependenciesHonoured ==
  \A r \in ran : \A j \in 1 .. Len(cmd[r].deps) :
    \E q \in Requests : cmd[q] # NoCommand /\ cmd[q].id = cmd[r].deps[j] /\ reply[q].kind = "ok"

\* The abort hook of a timeout reaches whatever its session executes, yet it never
\* hits the body of a command that has not itself timed out.
AbortHitsOnlyExpired == \A r \in aborted : race[r] = "expired"

\* Every submitted request is answered, through lane queues, joins, dependency
\* cycles across lanes and shutdown, if bodies and abort hooks return.
AllAnswered == \A r \in Requests : stage[r] # "unsent" ~> Answered(r)

\* Even if no body ever returns, an admitted command with a timeout policy is
\* answered: queueing behind a hung command costs it nothing but the wait.
TimedAnswered ==
  \A r \in Requests :
    (stage[r] \in Entered /\ cmd[r].policy # "none") ~> Answered(r)
-----------------------------------------------------------------------------
(* The abstract contract *)

AskOf(c) == [names |-> IdOf(c) \cup KeyOf(c), fp |-> c.fp]

\* The two kinds of name, in one table here and in two in the code, are told apart.
ASSUME ContractAssumption ==
  /\ Ids \cap ScopedKeys = {}
  /\ \A c \in Commands : AskOf(c) # NoCommand

Asked     == [r \in Requests |-> IF cmd[r] = NoCommand THEN NoCommand ELSE AskOf(cmd[r])]
Followed  == [r \in Requests |-> IF stage[r] = "joined" THEN waitsFor[r] ELSE NoReq]

Owner == [n \in Ids \cup ScopedKeys |->
            IF n \in Ids
            THEN IF inFlight[n] # NoReq THEN inFlight[n] ELSE outcomes[n].src
            ELSE IF keyInFlight[n] # NoReq THEN keyInFlight[n]
            ELSE IF n \in keyExpired THEN NoReq ELSE keyCache[n].src]

Contract == INSTANCE ReplayContract WITH
  Names     <- Ids \cup ScopedKeys,
  Asks      <- {AskOf(c) : c \in Commands},
  NoAsk     <- NoCommand,
  ask       <- Asked,
  owner     <- Owner,
  following <- Followed

\* The replay store, both in-flight tables, the eviction queue and the lanes together
\* keep the contract: one binding per name, one answer per request, no crossed copies.
KeepsContract == Contract!Spec
-----------------------------------------------------------------------------
(* What a document says and the code does not keep *)

\* PROTOCOL.md 7.2: per admitted command, command_started comes before command_finished.
PhaseOrder ==
  \A r \in Requests : \A m, n \in 1 .. Len(events[r]) :
    (events[r][m] = "started" /\ events[r][n] = "finished") => m < n
=============================================================================
