----------------------- MODULE CommandPipelineProofs -----------------------
(***************************************************************************)
(* Proofs about CommandPipeline for every value of its constants.          *)
(***************************************************************************)
EXTENDS CommandPipeline, FiniteSetTheorems, TLAPS

LEMMA VerdictFacts ==
  /\ NoVerdict \in Verdict
  /\ \A r \in Requests : \A k \in Kinds : [src |-> r, kind |-> k] \in Verdict
  /\ \A r \in Requests : \A k \in Kinds : [src |-> r, kind |-> k] # NoVerdict
BY ConstantsAssumption DEF NoVerdict, Verdict, Kinds, NoReq, Requests

LEMMA CommandFields ==
  ASSUME NEW c \in Commands
  PROVE  /\ c \in Command /\ c # NoCommand
         /\ c.lane \in Lanes /\ c.deps \in Seq(Ids)
         /\ c.id \in Ids \cup {NoId}
         /\ KeyOf(c) \subseteq ScopedKeys
BY ConstantsAssumption DEF Command, KeyOf, ScopedKeys

LEMMA SweptType ==
  ASSUME TypeOK
  PROVE  SweptCache \in [ScopedKeys -> Verdict]
BY VerdictFacts DEF TypeOK, SweptCache

LEMMA HitType ==
  ASSUME TypeOK, NEW c \in Commands, NEW h \in FirstHits(c)
  PROVE  /\ h.found.src \in Requests
         /\ h.how = "cached" => h.found \in Verdict
<1>1. h \in Hits(c) BY DEF FirstHits
<1>2. h.found.src # NoReq BY <1>1 DEF Hits
<1>3. CASE \E k \in KeyOf(c) : h = [rank |-> 1, how |-> "cached", found |-> SweptCache[k]]
  BY <1>2, <1>3, SweptType, CommandFields DEF Verdict
<1>4. CASE \E k \in KeyOf(c) :
             h = [rank |-> 2, how |-> "join", found |-> [src |-> keyInFlight[k], kind |-> "none"]]
  BY <1>2, <1>4, CommandFields DEF TypeOK
<1>5. CASE \E i \in IdOf(c) : h = [rank |-> 3, how |-> "cached", found |-> outcomes[i]]
  BY <1>2, <1>5, CommandFields DEF TypeOK, IdOf, Verdict
<1>6. CASE \E i \in IdOf(c) :
             h = [rank |-> 4, how |-> "join", found |-> [src |-> inFlight[i], kind |-> "none"]]
  BY <1>2, <1>6, CommandFields DEF TypeOK, IdOf
<1>7. QED BY <1>1, <1>3, <1>4, <1>5, <1>6 DEF Hits

LEMMA StoreOutcomeType ==
  ASSUME TypeOK, NEW c \in Commands, NEW v \in Verdict, StoreOutcome(c, v)
  PROVE  /\ outcomes' \in [Ids -> Verdict]
         /\ outcomeOrder' \in Seq(Ids)
         /\ forgotten' \subseteq Ids \cup ScopedKeys
<1> DEFINE added == IF c.id = NoId \/ outcomes[c.id] # NoVerdict THEN <<>> ELSE <<c.id>>
           order == outcomeOrder \o added
           evict == Overflow(order)
<1>1. order \in Seq(Ids)
  <2>1. added \in Seq(Ids) BY CommandFields
  <2>2. QED BY <2>1 DEF TypeOK
<1>2. evict \subseteq Ids /\ (evict # {} => Len(order) > 0)
  BY <1>1, ConstantsAssumption DEF Overflow
<1>3. outcomes' = [i \in Ids |-> IF i \in evict THEN NoVerdict
                                 ELSE IF i = c.id THEN v ELSE outcomes[i]]
  BY DEF StoreOutcome, RecordOutcome
<1>4. outcomes' \in [Ids -> Verdict] BY <1>3, VerdictFacts DEF TypeOK
<1>5. outcomeOrder' = IF evict = {} THEN order ELSE Tail(order)
  BY DEF StoreOutcome, RecordOutcome
<1>6. outcomeOrder' \in Seq(Ids) BY <1>1, <1>2, <1>5
<1>7. forgotten' = forgotten \cup evict BY DEF StoreOutcome, RecordOutcome
<1>8. QED BY <1>2, <1>4, <1>6, <1>7 DEF TypeOK

LEMMA SettleType ==
  ASSUME TypeOK, NEW c \in Commands, NEW v \in Verdict, NEW r \in Requests,
         NEW cache \in [ScopedKeys -> Verdict], NEW expired \in SUBSET ScopedKeys,
         Settle(r, c, cache, expired, v)
  PROVE  /\ reply' \in [Requests -> Verdict]
         /\ outcomes' \in [Ids -> Verdict]
         /\ outcomeOrder' \in Seq(Ids)
         /\ forgotten' \subseteq Ids \cup ScopedKeys
         /\ inFlight' \in [Ids -> Requests \cup {NoReq}]
         /\ keyInFlight' \in [ScopedKeys -> Requests \cup {NoReq}]
         /\ keyCache' \in [ScopedKeys -> Verdict]
         /\ keyExpired' \subseteq ScopedKeys
<1>1. StoreOutcome(c, v) BY DEF Settle
<1>2. QED BY <1>1, StoreOutcomeType DEF Settle, TypeOK, Unregistered
-----------------------------------------------------------------------------
(* Type correctness *)

LEMMA FinalVerdictType ==
  ASSUME NEW r \in Requests, NEW v \in Verdict, NEW w \in FinalVerdicts(r, v)
  PROVE  w \in Verdict
BY VerdictFacts DEF FinalVerdicts, Kinds

LEMMA EmitType ==
  ASSUME TypeOK, NEW r \in Requests,
         NEW es \in Seq({"accepted", "started", "finished"}), Emit(r, es)
  PROVE  events' \in [Requests -> Seq({"accepted", "started", "finished"})]
<1>1. events[r] \o es \in Seq({"accepted", "started", "finished"}) BY DEF TypeOK
<1>2. QED BY <1>1 DEF Emit, TypeOK

LEMMA ArriveType ==
  ASSUME TypeOK, NEW c \in Commands, Arrive(c)
  PROVE  /\ submitted + 1 \in Requests
         /\ submitted' \in 0 .. MaxRequests
         /\ cmd' \in [Requests -> Commands \cup {NoCommand}]
BY ConstantsAssumption DEF TypeOK, Arrive, Requests

LEMMA SubmitType == TypeOK /\ Submit => TypeOK'
<1> SUFFICES ASSUME TypeOK, NEW c \in Commands,
                    \/ RefuseShutdown(c) \/ AnswerConflict(c) \/ ReplayCached(c)
                    \/ JoinInFlight(c) \/ RejectRateLimited(c) \/ RejectBusy(c)
                    \/ AcceptNotJournaled(c) \/ Admit(c)
             PROVE  TypeOK'
  BY DEF Submit
<1> DEFINE r == submitted + 1
<1>t. /\ <<"finished">> \in Seq({"accepted", "started", "finished"})
      /\ <<"accepted">> \in Seq({"accepted", "started", "finished"})
  OBVIOUS
<1>a. ASSUME NEW v \in Verdict, AnswerNow(c, v) PROVE TypeOK'
  <2>1. Arrive(c) /\ Emit(r, <<"finished">>) BY <1>a DEF AnswerNow
  <2>2. r \in Requests BY <2>1, ArriveType
  <2>3. PICK w \in FinalVerdicts(r, v) : reply' = [reply EXCEPT ![r] = w]
    BY <1>a DEF AnswerNow
  <2>4. w \in Verdict BY <2>2, FinalVerdictType
  <2>5. keyCache' \in [ScopedKeys -> Verdict] BY <1>a, SweptType DEF AnswerNow, Sweep
  <2>6. events' \in [Requests -> Seq({"accepted", "started", "finished"})]
    BY <2>1, <2>2, <1>t, EmitType
  <2>7. QED
    BY <1>a, <2>1, <2>2, <2>3, <2>4, <2>5, <2>6, ArriveType
    DEF AnswerNow, Close, Sweep, TypeOK, Stages
<1>1. CASE RefuseShutdown(c)
  <2>1. Arrive(c) /\ r \in Requests BY <1>1, ArriveType DEF RefuseShutdown
  <2>2. [src |-> r, kind |-> "refused"] \in Verdict BY <2>1, VerdictFacts DEF Kinds
  <2>3. QED BY <1>1, <2>1, <2>2, ArriveType DEF RefuseShutdown, Close, storeVars, TypeOK, Stages
<1>2. CASE AnswerConflict(c)
  <2>1. AnswerNow(c, [src |-> r, kind |-> "conflict"]) BY <1>2 DEF AnswerConflict
  <2>2. r \in Requests BY <2>1, ArriveType DEF AnswerNow
  <2>3. QED BY <1>a, <2>1, <2>2, VerdictFacts DEF Kinds
<1>3. CASE ReplayCached(c)
  <2>1. PICK h \in FirstHits(c) : h.how = "cached" /\ AnswerNow(c, h.found)
    BY <1>3 DEF ReplayCached
  <2>2. QED BY <1>a, <2>1, HitType
<1>4. CASE JoinInFlight(c)
  <2>1. Arrive(c) /\ r \in Requests BY <1>4, ArriveType DEF JoinInFlight
  <2>2. PICK h \in FirstHits(c) : waitsFor' = [waitsFor EXCEPT ![r] = h.found.src]
    BY <1>4 DEF JoinInFlight
  <2>3. waitsFor' \in [Requests -> Requests \cup {NoReq}] BY <2>2, HitType DEF TypeOK
  <2>4. keyCache' \in [ScopedKeys -> Verdict] BY <1>4, SweptType DEF JoinInFlight, Sweep
  <2>5. QED
    BY <1>4, <2>1, <2>3, <2>4, ArriveType DEF JoinInFlight, Sweep, TypeOK, Stages
<1>5. CASE RejectRateLimited(c)
  <2>1. AnswerNow(c, [src |-> r, kind |-> "limited"]) BY <1>5 DEF RejectRateLimited
  <2>2. r \in Requests BY <2>1, ArriveType DEF AnswerNow
  <2>3. QED BY <1>a, <2>1, <2>2, VerdictFacts DEF Kinds
<1>6. CASE RejectBusy(c)
  <2>1. AnswerNow(c, [src |-> r, kind |-> "busy"]) BY <1>6 DEF RejectBusy
  <2>2. r \in Requests BY <2>1, ArriveType DEF AnswerNow
  <2>3. QED BY <1>a, <2>1, <2>2, VerdictFacts DEF Kinds
<1>7. CASE AcceptNotJournaled(c)
  <2>1. Arrive(c) /\ r \in Requests BY <1>7, ArriveType DEF AcceptNotJournaled
  <2>2. [src |-> r, kind |-> "fail"] \in Verdict BY <2>1, VerdictFacts DEF Kinds
  <2>3. Settle(r, c, SweptCache, {}, [src |-> r, kind |-> "fail"])
    BY <1>7 DEF AcceptNotJournaled
  <2>4. events' \in [Requests -> Seq({"accepted", "started", "finished"})]
    BY <1>7, <2>1, <1>t, EmitType DEF AcceptNotJournaled
  <2>5. /\ reply' \in [Requests -> Verdict]
        /\ outcomes' \in [Ids -> Verdict]
        /\ outcomeOrder' \in Seq(Ids)
        /\ forgotten' \subseteq Ids \cup ScopedKeys
        /\ inFlight' \in [Ids -> Requests \cup {NoReq}]
        /\ keyInFlight' \in [ScopedKeys -> Requests \cup {NoReq}]
        /\ keyCache' \in [ScopedKeys -> Verdict]
        /\ keyExpired' \subseteq ScopedKeys
    BY <2>1, <2>2, <2>3, SweptType, SettleType
  <2>6. QED
    BY <1>7, <2>1, <2>4, <2>5, ArriveType DEF AcceptNotJournaled, Close, TypeOK, Stages
<1>8. CASE Admit(c)
  <2>1. Arrive(c) /\ r \in Requests BY <1>8, ArriveType DEF Admit
  <2>2. events' \in [Requests -> Seq({"accepted", "started", "finished"})]
    BY <1>8, <2>1, <1>t, EmitType DEF Admit
  <2>3. keyCache' \in [ScopedKeys -> Verdict] BY <1>8, SweptType DEF Admit, Sweep
  <2>4. /\ inFlight' \in [Ids -> Requests \cup {NoReq}]
        /\ keyInFlight' \in [ScopedKeys -> Requests \cup {NoReq}]
        /\ stage' \in [Requests -> Stages]
    BY <1>8, <2>1 DEF Admit, TypeOK, Stages, Entered
  <2>5. /\ prev' \in [Requests -> Requests \cup {NoReq}]
        /\ laneTail' \in [Lanes -> Requests \cup {NoReq}]
    BY <1>8, <2>1, CommandFields DEF Admit, TypeOK
  <2>6. QED BY <1>8, <2>1, <2>2, <2>3, <2>4, <2>5, ArriveType DEF Admit, Sweep, TypeOK
<1>9. QED BY <1>1, <1>2, <1>3, <1>4, <1>5, <1>6, <1>7, <1>8


\* Requests are numbered by submission: those submitted have a command and have left
\* "unsent", the others have nothing yet.  Who waits, waits for a request.
Numbered ==
  \A r \in Requests :
    /\ r <= submitted => cmd[r] \in Commands /\ stage[r] # "unsent"
    /\ r > submitted => cmd[r] = NoCommand /\ stage[r] = "unsent" /\ reply[r] = NoVerdict
    /\ stage[r] \in {"joined", "waiting"} => waitsFor[r] \in Requests

Inv1 == TypeOK /\ Numbered

\* What the steps of a lane task and of an answer leave alone, for Numbered.
LEMMA NumberedStep ==
  ASSUME Inv1, UNCHANGED clientVars, TypeOK', NEW r \in Requests, r <= submitted,
         \A q \in Requests : q # r => /\ stage'[q] = stage[q] /\ reply'[q] = reply[q]
                                      /\ waitsFor'[q] = waitsFor[q],
         stage'[r] # "unsent",
         stage'[r] \in {"joined", "waiting"} => waitsFor'[r] \in Requests
  PROVE  Numbered'
BY DEF Inv1, Numbered, clientVars, TypeOK

LEMMA CompleteTaskType ==
  ASSUME TypeOK, NEW r \in Requests, NEW k \in Kinds, CompleteTask(r, k)
  PROVE  /\ stage' \in [Requests -> Stages]
         /\ laneTail' \in [Lanes -> Requests \cup {NoReq}]
         /\ race' \in [Requests -> {"open", "result", "expired"}]
         /\ result' \in [Requests -> Kinds]
         /\ stage' = [stage EXCEPT ![r] = "released"]
<1>1. stage' = [stage EXCEPT ![r] = "released"] BY DEF CompleteTask
<1>2. laneTail' = [laneTail EXCEPT ![cmd[r].lane] = IF laneTail[cmd[r].lane] = r
                                                    THEN NoReq ELSE laneTail[cmd[r].lane]]
  BY DEF CompleteTask, ReleaseLane
<1>3. laneTail' \in [Lanes -> Requests \cup {NoReq}]
  <2>1. CASE cmd[r].lane \in Lanes BY <1>2, <2>1 DEF TypeOK
  <2>2. CASE cmd[r].lane \notin Lanes BY <1>2, <2>2 DEF TypeOK
  <2>3. QED BY <2>1, <2>2
<1>4. race' \in [Requests -> {"open", "result", "expired"}] BY DEF CompleteTask, TypeOK
<1>5. result' \in [Requests -> Kinds] BY DEF CompleteTask, TypeOK
<1>6. stage' \in [Requests -> Stages] BY <1>1 DEF TypeOK, Stages, Entered
<1>7. QED BY <1>1, <1>3, <1>4, <1>5, <1>6

LEMMA ResolveType ==
  ASSUME TypeOK, NEW r \in Requests, cmd[r] \in Commands, NEW from \in Nat \ {0},
         ResolveDependencies(r, from)
  PROVE  /\ stage' \in [Requests -> Stages]
         /\ laneTail' \in [Lanes -> Requests \cup {NoReq}]
         /\ race' \in [Requests -> {"open", "result", "expired"}]
         /\ result' \in [Requests -> Kinds]
         /\ waitsFor' \in [Requests -> Requests \cup {NoReq}]
         /\ depIdx' \in [Requests -> Nat]
         /\ ran' \subseteq Requests
         /\ \/ /\ \E s \in {"running", "released"} : stage' = [stage EXCEPT ![r] = s]
               /\ UNCHANGED waitsFor
            \/ /\ stage' = [stage EXCEPT ![r] = "waiting"]
               /\ \E q \in Requests : waitsFor' = [waitsFor EXCEPT ![r] = q]
<1> DEFINE deps == cmd[r].deps
<1>1. CASE /\ EnterBody(r)
           /\ UNCHANGED <<laneTail, waitsFor, depIdx, race, result>>
  BY <1>1 DEF EnterBody, TypeOK, Stages, Entered
<1>2. CASE \E j \in from .. Len(deps) :
             /\ LET holder == inFlight[deps[j]]
                    waits  == holder \in {q \in Requests :
                                            cmd[q] # NoCommand /\ cmd[q].lane # cmd[r].lane}
                IN \/ /\ waits
                      /\ stage' = [stage EXCEPT ![r] = "waiting"]
                      /\ waitsFor' = [waitsFor EXCEPT ![r] = holder]
                      /\ depIdx' = [depIdx EXCEPT ![r] = j]
                      /\ UNCHANGED <<laneTail, race, result>>
                   \/ /\ ~waits
                      /\ CompleteTask(r, "fail")
                      /\ UNCHANGED <<waitsFor, depIdx>>
             /\ UNCHANGED ran
  <2>1. PICK j \in from .. Len(deps) :
             /\ \/ \E holder \in Requests :
                      /\ stage' = [stage EXCEPT ![r] = "waiting"]
                      /\ waitsFor' = [waitsFor EXCEPT ![r] = holder]
                      /\ depIdx' = [depIdx EXCEPT ![r] = j]
                      /\ UNCHANGED <<laneTail, race, result>>
                \/ CompleteTask(r, "fail") /\ UNCHANGED <<waitsFor, depIdx>>
             /\ UNCHANGED ran
    BY <1>2
  <2>2. j \in Nat BY CommandFields
  <2>3. CASE CompleteTask(r, "fail") /\ UNCHANGED <<waitsFor, depIdx>>
    <3>1. "fail" \in Kinds BY DEF Kinds
    <3>2. QED BY <2>1, <2>3, <3>1, CompleteTaskType DEF TypeOK
  <2>4. CASE \E holder \in Requests :
                      /\ stage' = [stage EXCEPT ![r] = "waiting"]
                      /\ waitsFor' = [waitsFor EXCEPT ![r] = holder]
                      /\ depIdx' = [depIdx EXCEPT ![r] = j]
                      /\ UNCHANGED <<laneTail, race, result>>
    <3>1. PICK holder \in Requests :
                      /\ stage' = [stage EXCEPT ![r] = "waiting"]
                      /\ waitsFor' = [waitsFor EXCEPT ![r] = holder]
                      /\ depIdx' = [depIdx EXCEPT ![r] = j]
                      /\ UNCHANGED <<laneTail, race, result>>
      BY <2>4
    <3>2. UNCHANGED ran BY <2>1
    <3>3. "waiting" \in Stages BY DEF Stages, Entered
    <3>4. QED BY <2>2, <3>1, <3>2, <3>3 DEF TypeOK
  <2>5. QED BY <2>1, <2>3, <2>4
<1>3. QED BY <1>1, <1>2 DEF ResolveDependencies


LEMMA StartedType ==
  <<"started">> \in Seq({"accepted", "started", "finished"})
OBVIOUS

LEMMA TaskInv1 == ASSUME Inv1, NEW r \in Requests, Task(r) PROVE Inv1'
<1> USE DEF Inv1
<1>k. "fail" \in Kinds /\ "cancelled" \in Kinds /\ "ok" \in Kinds BY DEF Kinds
<1>s. stage[r] # "unsent" => r <= submitted /\ cmd[r] \in Commands
  BY DEF TypeOK, Numbered, Requests
<1>1. CASE StartTask(r)
  <2>1. stage[r] = "queued" /\ cmd[r] \in Commands /\ r <= submitted BY <1>1, <1>s DEF StartTask
  <2>2. events' \in [Requests -> Seq({"accepted", "started", "finished"})]
    BY <1>1, EmitType, StartedType DEF StartTask, TypeOK
  <2>3. /\ stage' \in [Requests -> Stages]
        /\ laneTail' \in [Lanes -> Requests \cup {NoReq}]
        /\ race' \in [Requests -> {"open", "result", "expired"}]
        /\ result' \in [Requests -> Kinds]
        /\ waitsFor' \in [Requests -> Requests \cup {NoReq}]
        /\ depIdx' \in [Requests -> Nat]
        /\ ran' \subseteq Requests
        /\ \/ /\ \E s \in {"running", "released"} : stage' = [stage EXCEPT ![r] = s]
              /\ UNCHANGED waitsFor
           \/ /\ stage' = [stage EXCEPT ![r] = "waiting"]
              /\ \E q \in Requests : waitsFor' = [waitsFor EXCEPT ![r] = q]
    <3>1. CASE \E k \in {"cancelled", "fail"} :
                 CompleteTask(r, k) /\ UNCHANGED <<waitsFor, depIdx, ran>>
      BY <1>k, <3>1, CompleteTaskType DEF TypeOK
    <3>2. CASE ResolveDependencies(r, 1) BY <2>1, <3>2, ResolveType
    <3>3. QED BY <1>1, <3>1, <3>2 DEF StartTask
  <2>4. TypeOK' BY <1>1, <2>2, <2>3 DEF StartTask, TypeOK, clientVars, storeVars
  <2>5. /\ \A q \in Requests : q # r => stage'[q] = stage[q] /\ waitsFor'[q] = waitsFor[q]
        /\ stage'[r] # "unsent"
        /\ stage'[r] \in {"joined", "waiting"} => waitsFor'[r] \in Requests
    BY <2>3 DEF TypeOK
  <2>6. UNCHANGED <<clientVars, reply>> BY <1>1 DEF StartTask
  <2>7. QED BY <2>1, <2>4, <2>5, <2>6, NumberedStep
<1>2. CASE DependencySettled(r)
  <2>1. stage[r] = "waiting" /\ cmd[r] \in Commands /\ r <= submitted
    BY <1>2, <1>s DEF DependencySettled
  <2>2. depIdx[r] + 1 \in Nat \ {0} BY DEF TypeOK
  <2>3. /\ stage' \in [Requests -> Stages]
        /\ laneTail' \in [Lanes -> Requests \cup {NoReq}]
        /\ race' \in [Requests -> {"open", "result", "expired"}]
        /\ result' \in [Requests -> Kinds]
        /\ waitsFor' \in [Requests -> Requests \cup {NoReq}]
        /\ depIdx' \in [Requests -> Nat]
        /\ ran' \subseteq Requests
        /\ \/ /\ \E s \in {"running", "released"} : stage' = [stage EXCEPT ![r] = s]
              /\ UNCHANGED waitsFor
           \/ /\ stage' = [stage EXCEPT ![r] = "waiting"]
              /\ \E q \in Requests : waitsFor' = [waitsFor EXCEPT ![r] = q]
    <3>1. CASE CompleteTask(r, "fail") /\ UNCHANGED <<waitsFor, depIdx, ran>>
      BY <1>k, <3>1, CompleteTaskType DEF TypeOK
    <3>2. CASE ResolveDependencies(r, depIdx[r] + 1) BY <2>1, <2>2, <3>2, ResolveType
    <3>3. QED BY <1>2, <3>1, <3>2 DEF DependencySettled
  <2>4. TypeOK' BY <1>2, <2>3 DEF DependencySettled, TypeOK, clientVars, storeVars
  <2>5. /\ \A q \in Requests : q # r => stage'[q] = stage[q] /\ waitsFor'[q] = waitsFor[q]
        /\ stage'[r] # "unsent"
        /\ stage'[r] \in {"joined", "waiting"} => waitsFor'[r] \in Requests
    BY <2>3 DEF TypeOK
  <2>6. UNCHANGED <<clientVars, reply>> BY <1>2 DEF DependencySettled
  <2>7. QED BY <2>1, <2>4, <2>5, <2>6, NumberedStep
<1>3. CASE DependencyTimeout(r) \/ FinishBody(r)
  <2>1. r <= submitted BY <1>3, <1>s DEF DependencyTimeout, FinishBody
  <2>2. PICK k \in Kinds : CompleteTask(r, k)
    BY <1>3, <1>k DEF DependencyTimeout, FinishBody
  <2>3. TypeOK'
    BY <1>3, <2>2, CompleteTaskType
    DEF DependencyTimeout, FinishBody, TypeOK, clientVars, storeVars
  <2>4. QED
    BY <1>3, <2>1, <2>2, <2>3, CompleteTaskType, NumberedStep
    DEF DependencyTimeout, FinishBody, TypeOK
<1>4. QED BY <1>1, <1>2, <1>3 DEF Task

LEMMA ConcludeInv1 ==
  ASSUME Inv1, NEW r \in Requests, NEW k \in Kinds, stage[r] \in Entered, Conclude(r, k)
  PROVE  Inv1'
<1> USE DEF Inv1
<1>1. r <= submitted /\ cmd[r] \in Commands
  BY DEF TypeOK, Numbered, Requests, Entered
<1>2. PICK v \in FinalVerdicts(r, [src |-> r, kind |-> k]) :
        Settle(r, cmd[r], keyCache, keyExpired, v)
  BY DEF Conclude
<1>3. v \in Verdict BY VerdictFacts, FinalVerdictType
<1>4. keyCache \in [ScopedKeys -> Verdict] /\ keyExpired \in SUBSET ScopedKeys BY DEF TypeOK
<1>5. /\ reply' \in [Requests -> Verdict]
      /\ outcomes' \in [Ids -> Verdict]
      /\ outcomeOrder' \in Seq(Ids)
      /\ forgotten' \subseteq Ids \cup ScopedKeys
      /\ inFlight' \in [Ids -> Requests \cup {NoReq}]
      /\ keyInFlight' \in [ScopedKeys -> Requests \cup {NoReq}]
      /\ keyCache' \in [ScopedKeys -> Verdict]
      /\ keyExpired' \subseteq ScopedKeys
  BY <1>1, <1>2, <1>3, <1>4, SettleType
<1>6. events' \in [Requests -> Seq({"accepted", "started", "finished"})]
  <2>1. <<"finished">> \in Seq({"accepted", "started", "finished"}) OBVIOUS
  <2>2. QED BY <2>1, EmitType DEF Conclude
<1>7. TypeOK' BY <1>5, <1>6 DEF Conclude, TypeOK, clientVars, laneVars
<1>8. reply' = [reply EXCEPT ![r] = v] BY <1>2 DEF Settle
<1>9. stage[r] # "unsent" BY DEF Entered
<1>10. /\ UNCHANGED <<clientVars, stage, waitsFor>>
       /\ \A q \in Requests : q # r => reply'[q] = reply[q]
  BY <1>8 DEF Conclude, laneVars, TypeOK
<1>11. stage'[r] \in {"joined", "waiting"} => waitsFor'[r] \in Requests
  BY <1>10 DEF Numbered
<1>12. QED BY <1>1, <1>7, <1>9, <1>10, <1>11, NumberedStep

LEMMA AnswerInv1 == ASSUME Inv1, NEW r \in Requests, Answer(r) PROVE Inv1'
<1> USE DEF Inv1
<1>1. CASE CommandTimeout(r)
  BY <1>1 DEF CommandTimeout, AbortTargets, TypeOK, Numbered, clientVars, laneVars, storeVars
<1>2. CASE AnswerResult(r) \/ AnswerTimeout(r)
  <2>1. "timeout" \in Kinds /\ result[r] \in Kinds BY DEF Kinds, TypeOK
  <2>2. QED BY <1>2, <2>1, ConcludeInv1 DEF AnswerResult, AnswerTimeout, Pending
<1>3. CASE AnswerJoined(r)
  <2>1. stage[r] = "joined" /\ Answered(waitsFor[r]) BY <1>3 DEF AnswerJoined
  <2>2. r <= submitted BY <2>1 DEF TypeOK, Numbered, Requests
  <2>3. PICK v \in FinalVerdicts(r, reply[waitsFor[r]]) : reply' = [reply EXCEPT ![r] = v]
    BY <1>3 DEF AnswerJoined
  <2>4. events' \in [Requests -> Seq({"accepted", "started", "finished"})]
    <3>1. <<"finished">> \in Seq({"accepted", "started", "finished"}) OBVIOUS
    <3>2. QED BY <1>3, <3>1, EmitType DEF AnswerJoined
  <2>5. v \in Verdict => TypeOK'
    BY <1>3, <2>3, <2>4 DEF AnswerJoined, Close, TypeOK, Stages, clientVars, storeVars
  <2>6. v \in Verdict
    <3>1. waitsFor[r] \in Requests BY <2>1 DEF Numbered
    <3>2. QED BY <2>3, <3>1, FinalVerdictType DEF TypeOK
  <2>7. QED
    BY <1>3, <2>1, <2>2, <2>3, <2>5, <2>6, NumberedStep
    DEF AnswerJoined, Close, TypeOK
<1>4. QED BY <1>1, <1>2, <1>3 DEF Answer


LEMMA SubmitInv1 == Inv1 /\ Submit => Inv1'
<1> SUFFICES ASSUME Inv1, Submit PROVE Numbered'
  BY SubmitType DEF Inv1
<1> DEFINE r == submitted + 1
<1>1. PICK c \in Commands :
         /\ Arrive(c)
         /\ \A q \in Requests : q # r => /\ stage'[q] = stage[q] /\ reply'[q] = reply[q]
                                         /\ waitsFor'[q] = waitsFor[q]
         /\ stage'[r] \in {"closed", "queued", "joined"}
         /\ stage'[r] = "joined" => waitsFor'[r] \in Requests
  <2>1. PICK c \in Commands :
           \/ RefuseShutdown(c) \/ AnswerConflict(c) \/ ReplayCached(c)
           \/ JoinInFlight(c) \/ RejectRateLimited(c) \/ RejectBusy(c)
           \/ AcceptNotJournaled(c) \/ Admit(c)
    BY DEF Submit
  <2>2. Arrive(c)
    BY <2>1 DEF RefuseShutdown, AnswerConflict, ReplayCached, JoinInFlight, RejectRateLimited,
                RejectBusy, AcceptNotJournaled, Admit, AnswerNow
  <2>3. r \in Requests BY <2>2, ArriveType DEF Inv1
  <2>4. CASE RefuseShutdown(c)
    BY <2>2, <2>3, <2>4 DEF RefuseShutdown, Close, Inv1, TypeOK
  <2>5. CASE \E v : AnswerNow(c, v)
    BY <2>2, <2>3, <2>5 DEF AnswerNow, Close, Inv1, TypeOK
  <2>6. CASE JoinInFlight(c)
    <3>1. PICK h \in FirstHits(c) : waitsFor' = [waitsFor EXCEPT ![r] = h.found.src]
      BY <2>6 DEF JoinInFlight
    <3>2. QED BY <2>2, <2>3, <2>6, <3>1, HitType DEF JoinInFlight, Inv1, TypeOK
  <2>7. CASE AcceptNotJournaled(c)
    BY <2>2, <2>3, <2>7 DEF AcceptNotJournaled, Settle, Close, Inv1, TypeOK
  <2>8. CASE Admit(c)
    BY <2>2, <2>3, <2>8 DEF Admit, Inv1, TypeOK
  <2>9. QED
    BY <2>1, <2>4, <2>5, <2>6, <2>7, <2>8
    DEF AnswerConflict, ReplayCached, RejectRateLimited, RejectBusy
<1>2. r \in Requests /\ submitted' = r /\ cmd' = [cmd EXCEPT ![r] = c]
  BY <1>1, ArriveType DEF Inv1, Arrive
<1>3. QED BY <1>1, <1>2 DEF Inv1, Numbered, TypeOK, Requests

LEMMA NextInv1 == Inv1 /\ [Next]_vars => Inv1'
<1> SUFFICES ASSUME Inv1, [Next]_vars PROVE Inv1'
  OBVIOUS
<1>1. CASE Submit BY <1>1, SubmitInv1
<1>2. CASE \E r \in Requests : Task(r) \/ Answer(r) BY <1>2, TaskInv1, AnswerInv1
<1>3. CASE \E k \in ScopedKeys : KeyExpires(k)
  BY <1>3 DEF KeyExpires, Inv1, TypeOK, Numbered, clientVars, laneVars
<1>4. CASE InitiateShutdown
  BY <1>4 DEF InitiateShutdown, Inv1, TypeOK, Numbered, clientVars, laneVars, storeVars
<1>5. CASE Dispose
  <2>1. <<>> \in Seq(Ids) OBVIOUS
  <2>2. QED BY <1>5, <2>1, VerdictFacts DEF Dispose, Inv1, TypeOK, Numbered, clientVars
<1>6. CASE Quiescent \/ UNCHANGED vars
  BY <1>6 DEF Quiescent, vars, Inv1, TypeOK, Numbered, clientVars, laneVars, storeVars
<1>7. QED BY <1>1, <1>2, <1>3, <1>4, <1>5, <1>6 DEF Next

LEMMA InitInv1 == Init => Inv1
<1>1. <<>> \in Seq(Ids) /\ <<>> \in Seq({"accepted", "started", "finished"}) OBVIOUS
<1>2. QED
  BY <1>1, VerdictFacts, ConstantsAssumption
  DEF Init, Inv1, TypeOK, Numbered, Stages, Kinds, Requests, NoReq

LEMMA SpecInv1 == Spec => []Inv1
BY InitInv1, NextInv1, PTL DEF Spec

\* Every variable of the pipeline keeps its type in every behaviour, for any commands,
\* any number of requests and any store limits.
THEOREM TypeCorrect == Spec => []TypeOK
<1>1. Inv1 => TypeOK BY DEF Inv1
<1>2. QED BY <1>1, SpecInv1, PTL

-----------------------------------------------------------------------------
(***************************************************************************)
(* Lane serialization.  LaneSerial alone is not inductive: a start relies  *)
(* on the one tail the request captured, and a capture relies on the tail  *)
(* table.  LaneInv adds that the captured tail is at least as young as     *)
(* every request still in the lane, and so is the current tail.            *)
(***************************************************************************)

InLane(q, r) == stage[q] \in Entered /\ stage[r] \in Entered /\ cmd[q].lane = cmd[r].lane

CapturedTail ==
  \A r \in Requests : stage[r] = "queued" =>
    /\ prev[r] # NoReq => prev[r] \in Requests /\ prev[r] < r /\ InLane(prev[r], r)
    /\ \A q \in Requests : (q < r /\ InLane(q, r) /\ stage[q] # "released") => q <= prev[r]

YoungestTail ==
  /\ \A l \in Lanes : laneTail[l] # NoReq =>
       stage[laneTail[l]] \in Entered /\ cmd[laneTail[l]].lane = l
  /\ runtime # "disposed" =>
       \A q \in Requests : (stage[q] \in Entered /\ stage[q] # "released") =>
         q <= laneTail[cmd[q].lane]

LaneInv == LaneSerial /\ CapturedTail /\ YoungestTail

LEMMA EnteredSubmitted ==
  ASSUME Inv1, NEW r \in Requests, stage[r] \in Entered
  PROVE  r <= submitted /\ cmd[r] \in Commands /\ cmd[r].lane \in Lanes
BY CommandFields DEF Inv1, Numbered, TypeOK, Requests, Entered

\* A request about to start, or past its start, is the oldest left in its lane.
LEMMA OldestInLane ==
  ASSUME Inv1, LaneInv, NEW r \in Requests, stage[r] \in Entered,
         stage[r] = "queued" => LaneFree(r)
  PROVE  \A q \in Requests : (q < r /\ InLane(q, r)) => stage[q] = "released"
<1>1. CASE stage[r] # "queued" BY <1>1 DEF LaneInv, LaneSerial, InLane
<1>2. CASE stage[r] = "queued" /\ prev[r] = NoReq
  BY <1>2 DEF LaneInv, CapturedTail, NoReq, Requests
<1>3. CASE stage[r] = "queued" /\ prev[r] # NoReq
  <2>1. prev[r] \in Requests /\ prev[r] < r /\ InLane(prev[r], r) /\ stage[prev[r]] = "released"
    BY <1>2, <1>3 DEF LaneInv, CapturedTail, LaneFree
  <2>2. ASSUME NEW q \in Requests, q < r, InLane(q, r), stage[q] # "released" PROVE FALSE
    <3>1. q <= prev[r] BY <1>3, <2>2 DEF LaneInv, CapturedTail
    <3>2. q # prev[r] BY <2>1, <2>2
    <3>3. q < prev[r] BY <2>1, <3>1, <3>2 DEF Requests
    <3>4. InLane(q, prev[r]) BY <2>1, <2>2 DEF InLane
    <3>5. QED BY <2>1, <2>2, <3>3, <3>4 DEF LaneInv, LaneSerial, InLane
  <2>3. QED BY <2>2
<1>4. QED BY <1>1, <1>2, <1>3

\* A step that moves the oldest request of a lane past the queue, releasing the lane
\* tail only when the request leaves and still is the tail.
LEMMA LaneStep ==
  ASSUME Inv1, LaneInv, NEW r \in Requests, stage[r] \in {"queued", "waiting", "running"},
         \A q \in Requests : (q < r /\ InLane(q, r)) => stage[q] = "released",
         NEW s \in {"waiting", "running", "released"}, stage' = [stage EXCEPT ![r] = s],
         UNCHANGED <<clientVars, prev, runtime>>,
         laneTail' = laneTail \/ (s = "released" /\ ReleaseLane(r))
  PROVE  LaneInv'
<1>1. \A q \in Requests : stage'[q] \in Entered <=> stage[q] \in Entered
  BY DEF Inv1, TypeOK, Entered
<1>2. \A q \in Requests : stage[q] = "released" => (q = r \/ stage'[q] = "released")
  BY DEF Inv1, TypeOK
<1>3. \A q \in Requests : q # r => stage'[q] = stage[q] BY DEF Inv1, TypeOK
<1>4. stage'[r] = s BY DEF Inv1, TypeOK
<1>5. cmd' = cmd /\ prev' = prev /\ runtime' = runtime BY DEF clientVars
<1>6. LaneSerial'
  <2> SUFFICES ASSUME NEW p \in Requests, NEW q \in Requests, p < q,
                      stage'[p] \in Entered, stage'[q] \in Entered,
                      cmd[p].lane = cmd[q].lane, stage'[q] # "queued"
               PROVE  stage'[p] = "released"
    BY <1>5 DEF LaneSerial
  <2>1. InLane(p, q) BY <1>1 DEF InLane
  <2>2. CASE q = r
    <3>1. stage[p] = "released" BY <2>1, <2>2
    <3>2. p # r BY <2>2 DEF Requests
    <3>3. QED BY <1>3, <3>1, <3>2
  <2>3. CASE q # r
    <3>1. stage[p] = "released" BY <1>3, <2>1, <2>3 DEF LaneInv, LaneSerial, InLane
    <3>2. p # r BY <3>1
    <3>3. QED BY <1>3, <3>1, <3>2
  <2>4. QED BY <2>2, <2>3
<1>7. CapturedTail'
  <2> SUFFICES ASSUME NEW q \in Requests, stage'[q] = "queued"
               PROVE  /\ prev[q] # NoReq =>
                           prev[q] \in Requests /\ prev[q] < q /\ InLane(prev[q], q)'
                      /\ \A p \in Requests :
                           (p < q /\ InLane(p, q)' /\ stage'[p] # "released") => p <= prev[q]
    BY <1>5 DEF CapturedTail
  <2>1. q # r /\ stage[q] = "queued" BY <1>3, <1>4
  <2>2. \A p \in Requests : InLane(p, q)' <=> InLane(p, q) BY <1>1, <1>5 DEF InLane
  <2>3. \A p \in Requests : stage'[p] # "released" => stage[p] # "released"
    BY <1>3, <1>4
  <2>4. QED BY <2>1, <2>2, <2>3 DEF LaneInv, CapturedTail
<1>8. YoungestTail'
  <2>1. r <= submitted /\ cmd[r].lane \in Lanes BY EnteredSubmitted DEF Entered
  <2>2. laneTail' \in [Lanes -> Requests \cup {NoReq}]
        /\ \A l \in Lanes : laneTail'[l] # laneTail[l] =>
             l = cmd[r].lane /\ laneTail[l] = r /\ laneTail'[l] = NoReq /\ s = "released"
    BY <2>1 DEF ReleaseLane, Inv1, TypeOK
  <2>3. ASSUME NEW l \in Lanes, laneTail'[l] # NoReq
        PROVE  stage'[laneTail'[l]] \in Entered /\ cmd[laneTail'[l]].lane = l
    <3>1. laneTail'[l] = laneTail[l] /\ laneTail[l] \in Requests BY <2>2, <2>3
    <3>2. QED BY <1>1, <2>3, <3>1 DEF LaneInv, YoungestTail
  <2>4. ASSUME runtime # "disposed", NEW q \in Requests,
               stage'[q] \in Entered, stage'[q] # "released"
        PROVE  q <= laneTail'[cmd[q].lane]
    <3>1. stage[q] \in Entered /\ stage[q] # "released" BY <1>1, <1>3, <1>4, <2>4
    <3>2. q <= laneTail[cmd[q].lane] /\ cmd[q].lane \in Lanes
      BY <2>4, <3>1, EnteredSubmitted DEF LaneInv, YoungestTail
    <3>3. CASE laneTail'[cmd[q].lane] = laneTail[cmd[q].lane] BY <3>2, <3>3
    <3>4. CASE laneTail'[cmd[q].lane] # laneTail[cmd[q].lane]
      \* The tail was r: then q is older than r and has left the lane.
      <4>1. cmd[q].lane = cmd[r].lane /\ q <= r /\ s = "released" BY <2>2, <3>2, <3>4
      <4>2. q # r BY <1>4, <2>4, <4>1
      <4>3. q < r BY <4>1, <4>2 DEF Requests
      <4>4. InLane(q, r) BY <3>1, <4>1 DEF InLane, Entered
      <4>5. QED BY <3>1, <4>3, <4>4
    <3>5. QED BY <3>3, <3>4
  <2>5. QED BY <1>5, <2>3, <2>4 DEF YoungestTail
<1>9. QED BY <1>6, <1>7, <1>8 DEF LaneInv

\* A lane-neutral step: lanes, commands and admitted stages are as before.
LEMMA LaneStutter ==
  ASSUME Inv1, LaneInv, UNCHANGED <<prev, laneTail, runtime>>,
         \A q \in Requests : stage[q] \in Entered => stage'[q] = stage[q] /\ cmd'[q] = cmd[q],
         \A q \in Requests : stage'[q] \in Entered => stage[q] \in Entered
  PROVE  LaneInv'
<1>1. \A q \in Requests : /\ stage'[q] \in Entered <=> stage[q] \in Entered
                          /\ stage'[q] = "queued" <=> stage[q] = "queued"
                          /\ stage'[q] = "released" <=> stage[q] = "released"
  BY DEF Entered
<1>2. \A p, q \in Requests : InLane(p, q)' <=> InLane(p, q) BY <1>1 DEF InLane
<1>3. LaneSerial' BY <1>1 DEF LaneInv, LaneSerial
<1>4. CapturedTail'
  <2> SUFFICES ASSUME NEW q \in Requests, stage'[q] = "queued"
               PROVE  /\ prev[q] # NoReq =>
                           prev[q] \in Requests /\ prev[q] < q /\ InLane(prev[q], q)'
                      /\ \A p \in Requests :
                           (p < q /\ InLane(p, q)' /\ stage'[p] # "released") => p <= prev[q]
    BY DEF CapturedTail
  <2>1. QED BY <1>1, <1>2 DEF LaneInv, CapturedTail
<1>5. YoungestTail'
  <2>1. \A l \in Lanes : laneTail[l] # NoReq => laneTail[l] \in Requests BY DEF Inv1, TypeOK
  <2>2. QED BY <1>1, <2>1 DEF LaneInv, YoungestTail
<1>6. QED BY <1>3, <1>4, <1>5 DEF LaneInv

LEMMA InitLane == Init => LaneInv
BY ConstantsAssumption
DEF Init, LaneInv, LaneSerial, CapturedTail, YoungestTail, InLane, Entered

\* The request being admitted is the youngest of all and captures the tail.
LEMMA AdmitLane == ASSUME Inv1, LaneInv, NEW c \in Commands, Admit(c) PROVE LaneInv'
<1> DEFINE r == submitted + 1
<1>1. r \in Requests /\ submitted' = r /\ cmd' = [cmd EXCEPT ![r] = c]
      /\ \A q \in Requests : stage[q] \in Entered => q < r
  <2>1. Arrive(c) BY DEF Admit
  <2>2. r \in Requests /\ submitted' = r /\ cmd' = [cmd EXCEPT ![r] = c]
    BY <2>1, ArriveType DEF Arrive, Inv1
  <2>3. \A q \in Requests : stage[q] \in Entered => q <= submitted BY EnteredSubmitted
  <2>4. QED BY <2>2, <2>3 DEF Requests, Inv1, TypeOK
<1>2. c.lane \in Lanes BY CommandFields
<1>3. /\ stage' = [stage EXCEPT ![r] = "queued"] /\ prev' = [prev EXCEPT ![r] = laneTail[c.lane]]
      /\ laneTail' = [laneTail EXCEPT ![c.lane] = r]
      /\ runtime' = runtime /\ runtime = "up"
  BY DEF Admit, Admissible
<1>4. \A q \in Requests : q # r => /\ stage'[q] = stage[q] /\ cmd'[q] = cmd[q]
                                   /\ prev'[q] = prev[q]
  BY <1>1, <1>3 DEF Inv1, TypeOK
<1>5. stage'[r] = "queued" /\ cmd'[r] = c /\ prev'[r] = laneTail[c.lane]
      /\ stage[r] \notin Entered
  BY <1>1, <1>3 DEF Inv1, TypeOK, Requests
<1>6. \A l \in Lanes : laneTail'[l] = IF l = c.lane THEN r ELSE laneTail[l]
  BY <1>3 DEF Inv1, TypeOK
<1>7. \A p, q \in Requests : p # r /\ q # r => (InLane(p, q)' <=> InLane(p, q))
  BY <1>4 DEF InLane
<1>8. r \in Int /\ \A q \in Requests : q \in Int BY <1>1 DEF Requests
<1>9. LaneSerial'
  <2> SUFFICES ASSUME NEW p \in Requests, NEW q \in Requests, p < q, InLane(p, q)',
                      stage'[q] # "queued"
               PROVE  stage'[p] = "released"
    BY DEF LaneSerial, InLane
  <2>1. q # r BY <1>5
  <2>2. stage[q] \in Entered BY <1>4, <2>1 DEF InLane
  <2>3. p # r BY <1>1, <1>8, <2>2
  <2>4. InLane(p, q) /\ stage[q] # "queued" BY <1>4, <1>7, <2>1, <2>3
  <2>5. QED BY <1>4, <2>3, <2>4 DEF LaneInv, LaneSerial, InLane
<1>10. CapturedTail'
  <2> SUFFICES ASSUME NEW q \in Requests, stage'[q] = "queued"
               PROVE  /\ prev'[q] # NoReq =>
                           prev'[q] \in Requests /\ prev'[q] < q /\ InLane(prev[q], q)'
                      /\ \A p \in Requests :
                           (p < q /\ InLane(p, q)' /\ stage'[p] # "released") => p <= prev'[q]
    BY DEF CapturedTail, InLane
  <2>1. CASE q = r
    <3>1. prev'[q] # NoReq =>
            prev'[q] \in Requests /\ prev'[q] < q /\ InLane(prev[q], q)'
      <4> SUFFICES ASSUME prev'[q] # NoReq
                   PROVE  prev'[q] \in Requests /\ prev'[q] < q /\ InLane(prev[q], q)'
        OBVIOUS
      <4>1. prev'[q] \in Requests /\ stage[prev'[q]] \in Entered /\ cmd[prev'[q]].lane = c.lane
        BY <1>2, <1>5, <2>1 DEF LaneInv, YoungestTail, Inv1, TypeOK
      <4>2. prev'[q] < q /\ prev'[q] # r BY <1>1, <1>5, <2>1, <4>1
      <4>3. QED BY <1>4, <1>5, <2>1, <4>1, <4>2 DEF InLane, Entered
    <3>2. ASSUME NEW p \in Requests, p < q, InLane(p, q)', stage'[p] # "released"
          PROVE  p <= prev'[q]
      <4>1. p # r BY <1>8, <2>1, <3>2
      <4>2. stage[p] \in Entered /\ stage[p] # "released" /\ cmd[p].lane = c.lane
        BY <1>4, <1>5, <2>1, <3>2, <4>1 DEF InLane
      <4>3. QED BY <1>3, <1>5, <2>1, <4>2 DEF LaneInv, YoungestTail
    <3>3. QED BY <3>1, <3>2
  <2>2. CASE q # r
    <3>1. stage[q] = "queued" /\ stage[q] \in Entered /\ prev'[q] = prev[q] /\ q < r
      BY <1>1, <1>4, <2>2 DEF Entered
    <3>2. prev[q] # NoReq =>
            prev'[q] \in Requests /\ prev'[q] < q /\ InLane(prev[q], q)'
      <4> SUFFICES ASSUME prev[q] # NoReq
                   PROVE  prev'[q] \in Requests /\ prev'[q] < q /\ InLane(prev[q], q)'
        OBVIOUS
      <4>1. prev[q] \in Requests /\ prev[q] < q /\ InLane(prev[q], q)
        BY <3>1 DEF LaneInv, CapturedTail
      <4>2. prev[q] # r BY <1>8, <3>1, <4>1
      <4>3. QED BY <1>7, <2>2, <3>1, <4>1, <4>2
    <3>3. ASSUME NEW p \in Requests, p < q, InLane(p, q)', stage'[p] # "released"
          PROVE  p <= prev'[q]
      <4>1. p # r BY <1>8, <3>1, <3>3
      <4>2. InLane(p, q) /\ stage[p] # "released" BY <1>4, <1>7, <2>2, <3>3, <4>1
      <4>3. QED BY <3>1, <3>3, <4>2 DEF LaneInv, CapturedTail
    <3>4. QED BY <3>1, <3>2, <3>3
  <2>3. QED BY <2>1, <2>2
<1>11. YoungestTail'
  <2>1. ASSUME NEW l \in Lanes, laneTail'[l] # NoReq
        PROVE  stage'[laneTail'[l]] \in Entered /\ cmd'[laneTail'[l]].lane = l
    <3>1. CASE l = c.lane BY <1>5, <1>6, <3>1 DEF Entered
    <3>2. CASE l # c.lane
      <4>1. laneTail'[l] = laneTail[l] /\ laneTail[l] \in Requests
        BY <1>6, <2>1, <3>2 DEF Inv1, TypeOK
      <4>2. stage[laneTail[l]] \in Entered /\ cmd[laneTail[l]].lane = l
        BY <2>1, <4>1 DEF LaneInv, YoungestTail
      <4>3. laneTail[l] # r BY <1>5, <4>2
      <4>4. QED BY <1>4, <4>1, <4>2, <4>3
    <3>3. QED BY <3>1, <3>2
  <2>2. ASSUME NEW q \in Requests, stage'[q] \in Entered, stage'[q] # "released"
        PROVE  q <= laneTail'[cmd'[q].lane]
    <3>1. CASE q = r BY <1>2, <1>5, <1>6, <1>8, <3>1
    <3>2. CASE q # r
      <4>1. stage[q] \in Entered /\ stage[q] # "released" /\ cmd'[q] = cmd[q]
        BY <1>4, <2>2, <3>2
      <4>2. q <= laneTail[cmd[q].lane] /\ cmd[q].lane \in Lanes
        BY <1>3, <4>1, EnteredSubmitted DEF LaneInv, YoungestTail
      <4>3. q < r BY <1>1, <4>1
      <4>4. QED BY <1>6, <1>8, <4>1, <4>2, <4>3
    <3>3. QED BY <3>1, <3>2
  <2>3. QED BY <2>1, <2>2 DEF YoungestTail
<1>12. QED BY <1>9, <1>10, <1>11 DEF LaneInv

LEMMA SubmitLane == ASSUME Inv1, LaneInv, Submit PROVE LaneInv'
<1> DEFINE r == submitted + 1
<1>1. PICK c \in Commands :
         \/ RefuseShutdown(c) \/ AnswerConflict(c) \/ ReplayCached(c)
         \/ JoinInFlight(c) \/ RejectRateLimited(c) \/ RejectBusy(c)
         \/ AcceptNotJournaled(c) \/ Admit(c)
  BY DEF Submit
<1>2. CASE Admit(c) BY <1>2, AdmitLane
<1>3. CASE ~Admit(c)
  <2>1. /\ Arrive(c) /\ UNCHANGED <<prev, laneTail, runtime>>
        /\ \E s \in {"closed", "joined"} : stage' = [stage EXCEPT ![r] = s]
    BY <1>1, <1>3
    DEF RefuseShutdown, AnswerConflict, ReplayCached, JoinInFlight, RejectRateLimited,
        RejectBusy, AcceptNotJournaled, AnswerNow, Close
  <2>2. r \in Requests /\ cmd' = [cmd EXCEPT ![r] = c] /\ stage[r] = "unsent"
    <3>1. r \in Requests /\ cmd' = [cmd EXCEPT ![r] = c]
      BY <2>1, ArriveType DEF Inv1, Arrive
    <3>2. submitted < r BY DEF Inv1, TypeOK
    <3>3. QED BY <3>1, <3>2 DEF Inv1, Numbered
  <2>3. \A q \in Requests : q # r => stage'[q] = stage[q] /\ cmd'[q] = cmd[q]
    BY <2>1, <2>2 DEF Inv1, TypeOK
  <2>4. stage[r] \notin Entered /\ stage'[r] \notin Entered
    BY <2>1, <2>2 DEF Inv1, TypeOK, Entered
  <2>5. QED BY <2>1, <2>3, <2>4, LaneStutter
<1>4. QED BY <1>2, <1>3

LEMMA TaskLane == ASSUME Inv1, LaneInv, NEW r \in Requests, Task(r) PROVE LaneInv'
<1>1. /\ stage[r] \in {"queued", "waiting", "running"}
      /\ stage[r] = "queued" => LaneFree(r)
      /\ UNCHANGED <<clientVars, prev, runtime>>
  BY DEF Task, StartTask, DependencySettled, DependencyTimeout, FinishBody
<1>2. \A q \in Requests : (q < r /\ InLane(q, r)) => stage[q] = "released"
  BY <1>1, OldestInLane DEF Entered
<1>3. \E s \in {"waiting", "running", "released"} :
         /\ stage' = [stage EXCEPT ![r] = s]
         /\ laneTail' = laneTail \/ (s = "released" /\ ReleaseLane(r))
  <2>1. CASE \E k : CompleteTask(r, k) BY <2>1 DEF CompleteTask
  <2>2. CASE \E n : ResolveDependencies(r, n)
    BY <2>1, <2>2 DEF ResolveDependencies, EnterBody
  <2>3. QED
    BY <2>1, <2>2 DEF Task, StartTask, DependencySettled, DependencyTimeout, FinishBody
<1>4. QED BY <1>1, <1>2, <1>3, LaneStep

LEMMA AnswerLane == ASSUME Inv1, LaneInv, NEW r \in Requests, Answer(r) PROVE LaneInv'
<1>1. UNCHANGED <<prev, laneTail, runtime, cmd>>
  BY DEF Answer, CommandTimeout, AnswerResult, AnswerTimeout, AnswerJoined, Conclude,
         clientVars, laneVars
<1>2. stage' = stage \/ (stage[r] = "joined" /\ stage' = [stage EXCEPT ![r] = "closed"])
  BY DEF Answer, CommandTimeout, AnswerResult, AnswerTimeout, AnswerJoined, Conclude,
         laneVars, Close
<1>3. \A q \in Requests : /\ stage[q] \in Entered => stage'[q] = stage[q]
                          /\ stage'[q] \in Entered => stage[q] \in Entered
  BY <1>2 DEF Inv1, TypeOK, Entered
<1>4. QED BY <1>1, <1>3, LaneStutter

LEMMA RuntimeLane == ASSUME Inv1, LaneInv, InitiateShutdown \/ Dispose PROVE LaneInv'
<1>1. UNCHANGED <<cmd, stage, prev>> /\ runtime' \in {"draining", "disposed"}
  BY DEF InitiateShutdown, Dispose, clientVars, laneVars
<1>2. LaneSerial' /\ CapturedTail'
  BY <1>1 DEF LaneInv, LaneSerial, CapturedTail, InLane
<1>3. CASE InitiateShutdown
  BY <1>1, <1>2, <1>3 DEF InitiateShutdown, LaneInv, YoungestTail, laneVars
<1>4. CASE Dispose
  BY <1>1, <1>2, <1>4 DEF Dispose, LaneInv, YoungestTail
<1>5. QED BY <1>3, <1>4

LEMMA NextLane == Inv1 /\ LaneInv /\ [Next]_vars => LaneInv'
<1> SUFFICES ASSUME Inv1, LaneInv, [Next]_vars PROVE LaneInv'
  OBVIOUS
<1>1. CASE Submit BY <1>1, SubmitLane
<1>2. CASE \E r \in Requests : Task(r) \/ Answer(r) BY <1>2, TaskLane, AnswerLane
<1>3. CASE (\E k \in ScopedKeys : KeyExpires(k)) \/ Quiescent \/ UNCHANGED vars
  BY <1>3, LaneStutter DEF KeyExpires, Quiescent, vars, clientVars, laneVars
<1>4. CASE InitiateShutdown \/ Dispose BY <1>4, RuntimeLane
<1>5. QED BY <1>1, <1>2, <1>3, <1>4 DEF Next

\* runOnLane serializes each lane in admission order in every behaviour, whatever
\* times out, fails or is disposed of on the way.
THEOREM LaneSerialHolds == Spec => []LaneSerial
<1>1. Init => LaneInv BY InitLane
<1>2. Inv1 /\ LaneInv /\ [Next]_vars => LaneInv' BY NextLane
<1>3. LaneInv => LaneSerial BY DEF LaneInv
<1>4. QED BY <1>1, <1>2, <1>3, SpecInv1, PTL DEF Spec

-----------------------------------------------------------------------------
(* The abort hook of a timeout *)

\* The result and the timer settle the race of a request at the right moments: no result counts
\* before the task has returned, and one of them counts once it has.
RaceSettled ==
  \A r \in Requests :
    /\ stage[r] \in {"unsent", "queued", "waiting", "running"} => race[r] # "result"
    /\ stage[r] = "released" => race[r] # "open"

AbortInv == RaceSettled /\ AbortHitsOnlyExpired

\* What every submission does to the request and leaves alone.
LEMMA SubmitFacts ==
  ASSUME Inv1, Submit
  PROVE  LET r == submitted + 1 IN
         /\ r \in Requests /\ submitted' = r
         /\ stage[r] = "unsent" /\ reply[r] = NoVerdict /\ cmd[r] = NoCommand
         /\ \E c \in Commands : cmd' = [cmd EXCEPT ![r] = c]
         /\ \E s \in {"closed", "joined", "queued"} : stage' = [stage EXCEPT ![r] = s]
         /\ reply' = [reply EXCEPT ![r] = reply'[r]]
         /\ \A q \in Requests : q # r => waitsFor'[q] = waitsFor[q]
         /\ UNCHANGED <<depIdx, race, result, runtime, ran, aborted>>
<1> DEFINE r == submitted + 1
<1>1. PICK c \in Commands :
         \/ RefuseShutdown(c) \/ AnswerConflict(c) \/ ReplayCached(c)
         \/ JoinInFlight(c) \/ RejectRateLimited(c) \/ RejectBusy(c)
         \/ AcceptNotJournaled(c) \/ Admit(c)
  BY DEF Submit
<1>2. \/ RefuseShutdown(c) \/ (\E v : AnswerNow(c, v)) \/ JoinInFlight(c)
      \/ AcceptNotJournaled(c) \/ Admit(c)
  BY <1>1 DEF AnswerConflict, ReplayCached, RejectRateLimited, RejectBusy
<1>3. Arrive(c)
  BY <1>2 DEF RefuseShutdown, AnswerNow, JoinInFlight, AcceptNotJournaled, Admit
<1>4. r \in Requests /\ submitted' = r /\ cmd' = [cmd EXCEPT ![r] = c]
  BY <1>3, ArriveType DEF Inv1, Arrive
<1>5. stage[r] = "unsent" /\ reply[r] = NoVerdict /\ cmd[r] = NoCommand
  <2>1. submitted < r  BY DEF Inv1, TypeOK
  <2> QED  BY <1>4, <2>1 DEF Inv1, Numbered
<1>6. /\ \E s \in {"closed", "joined", "queued"} : stage' = [stage EXCEPT ![r] = s]
      /\ UNCHANGED <<depIdx, race, result, runtime, ran, aborted>>
  BY <1>2 DEF RefuseShutdown, AnswerNow, JoinInFlight, AcceptNotJournaled, Admit, Close
<1>7. \E v : reply' = [reply EXCEPT ![r] = v]
  <2>1. reply = [reply EXCEPT ![r] = reply[r]]  BY <1>4 DEF Inv1, TypeOK
  <2> QED
    BY <1>2, <2>1 DEF RefuseShutdown, AnswerNow, JoinInFlight, AcceptNotJournaled, Admit, Settle
<1>8. reply' = [reply EXCEPT ![r] = reply'[r]]
  BY <1>4, <1>7 DEF Inv1, TypeOK
<1>9. \A q \in Requests : q # r => waitsFor'[q] = waitsFor[q]
  BY <1>2, <1>4 DEF RefuseShutdown, AnswerNow, JoinInFlight, AcceptNotJournaled, Admit, Inv1, TypeOK
<1> QED  BY <1>4, <1>5, <1>6, <1>8, <1>9

\* What a step of a lane task does: it enters the body, waits or returns.
LEMMA TaskFacts ==
  ASSUME Inv1, NEW r \in Requests, Task(r)
  PROVE  /\ stage[r] \in {"queued", "waiting", "running"}
         /\ UNCHANGED <<clientVars, prev, reply, storeVars, runtime, aborted, forgotten>>
         /\ \A q \in Requests : q # r => waitsFor'[q] = waitsFor[q]
         /\ \/ stage' = [stage EXCEPT ![r] = "running"] /\ ran' = ran \cup {r} /\ race' = race
            \/ stage' = [stage EXCEPT ![r] = "waiting"] /\ UNCHANGED <<ran, race>>
            \/ /\ stage' = [stage EXCEPT ![r] = "released"] /\ ran' = ran
               /\ race' = [race EXCEPT ![r] = IF @ = "open" THEN "result" ELSE @]
<1>1. \/ \E k : CompleteTask(r, k) /\ UNCHANGED <<waitsFor, ran>>
      \/ \E n : ResolveDependencies(r, n)
  BY DEF Task, StartTask, DependencySettled, DependencyTimeout, FinishBody
<1>2. /\ stage[r] \in {"queued", "waiting", "running"}
      /\ UNCHANGED <<clientVars, prev, reply, storeVars, runtime, aborted, forgotten>>
  BY DEF Task, StartTask, DependencySettled, DependencyTimeout, FinishBody
<1>3. /\ waitsFor' = waitsFor \/ \E q : waitsFor' = [waitsFor EXCEPT ![r] = q]
      /\ \/ stage' = [stage EXCEPT ![r] = "running"] /\ ran' = ran \cup {r} /\ race' = race
         \/ stage' = [stage EXCEPT ![r] = "waiting"] /\ UNCHANGED <<ran, race>>
         \/ /\ stage' = [stage EXCEPT ![r] = "released"] /\ ran' = ran
            /\ race' = [race EXCEPT ![r] = IF @ = "open" THEN "result" ELSE @]
  BY <1>1 DEF CompleteTask, ResolveDependencies, EnterBody
<1>4. \A q \in Requests : q # r => waitsFor'[q] = waitsFor[q]  BY <1>3 DEF Inv1, TypeOK
<1> QED  BY <1>2, <1>3, <1>4

\* The abort hook reaches the bodies of its lane, and the only one running there is a command
\* whose own timer has fired: an older one of the same delay fires first, a younger one has not
\* begun while this one is in the lane.
LEMMA TimeoutAborts ==
  ASSUME Inv1, LaneInv, AbortInv, NEW r \in Requests, CommandTimeout(r)
  PROVE  AbortInv'
<1>1. /\ TimerArmed(r) /\ \A q \in 1 .. (r - 1) : ~(TimerArmed(q) /\ cmd[q].policy = cmd[r].policy)
      /\ race' = [race EXCEPT ![r] = "expired"] /\ stage' = stage
      /\ aborted' = aborted \cup AbortTargets(r)
  BY DEF CommandTimeout, laneVars
<1>2. RaceSettled'  BY <1>1 DEF AbortInv, RaceSettled, Inv1, TypeOK
<1>3. ASSUME NEW q \in AbortTargets(r) PROVE race'[q] = "expired"
  <2>1. /\ q \in Requests /\ stage[q] = "running" /\ cmd[q].lane = cmd[r].lane
        /\ cmd[q].policy = "long" /\ cmd[r].policy = "long"
    BY DEF AbortTargets, HasAbortHandler
  <2>2. CASE q = r  BY <1>1, <2>1, <2>2 DEF Inv1, TypeOK
  <2>3. CASE q < r
    <3>1. q \in 1 .. (r - 1)  BY <2>1, <2>3 DEF Requests
    <3>2. race[q] # "open"  BY <1>1, <2>1, <3>1 DEF TimerArmed, Entered
    <3>3. race[q] = "expired"  BY <2>1, <3>2 DEF AbortInv, RaceSettled, Inv1, TypeOK
    <3> QED  BY <1>1, <2>1, <2>3, <3>3 DEF Inv1, TypeOK
  <2>4. CASE r < q
    <3>1. stage[r] = "released"
      BY <1>1, <2>1, <2>4 DEF LaneInv, LaneSerial, TimerArmed, Entered
    <3> QED  BY <1>1, <3>1 DEF TimerArmed, AbortInv, RaceSettled
  <2> QED  BY <2>1, <2>2, <2>3, <2>4 DEF Requests
<1>4. ASSUME NEW q \in aborted PROVE race'[q] = "expired"
  BY <1>1 DEF AbortInv, AbortHitsOnlyExpired, Inv1, TypeOK
<1> QED  BY <1>1, <1>2, <1>3, <1>4 DEF AbortInv, AbortHitsOnlyExpired

LEMMA NextAbort == Inv1 /\ LaneInv /\ AbortInv /\ [Next]_vars => AbortInv'
<1> SUFFICES ASSUME Inv1, LaneInv, AbortInv, [Next]_vars PROVE AbortInv'  OBVIOUS
<1> USE DEF AbortInv, RaceSettled, AbortHitsOnlyExpired, Inv1, TypeOK
<1>1. CASE Submit  BY <1>1, SubmitFacts
<1>2. CASE \E r \in Requests : Task(r)
  <2>1. PICK r \in Requests : Task(r)  BY <1>2
  <2>2. /\ stage[r] \in {"queued", "waiting", "running"} /\ aborted' = aborted
        /\ \/ stage' = [stage EXCEPT ![r] = "running"] /\ race' = race
           \/ stage' = [stage EXCEPT ![r] = "waiting"] /\ race' = race
           \/ /\ stage' = [stage EXCEPT ![r] = "released"]
              /\ race' = [race EXCEPT ![r] = IF @ = "open" THEN "result" ELSE @]
    BY <2>1, TaskFacts
  <2>3. RaceSettled'  BY <2>2
  <2>4. \A q \in aborted : race'[q] = "expired"  BY <2>2
  <2> QED  BY <2>2, <2>3, <2>4
<1>3. CASE \E r \in Requests : CommandTimeout(r)  BY <1>3, TimeoutAborts
<1>4. CASE \E r \in Requests : AnswerResult(r) \/ AnswerTimeout(r) \/ AnswerJoined(r)
  BY <1>4 DEF AnswerResult, AnswerTimeout, AnswerJoined, Conclude, Close, laneVars
<1>5. CASE (\E k \in ScopedKeys : KeyExpires(k)) \/ InitiateShutdown \/ Dispose \/ Quiescent
           \/ UNCHANGED vars
  BY <1>5 DEF KeyExpires, InitiateShutdown, Dispose, Quiescent, vars, laneVars
<1> QED  BY <1>1, <1>2, <1>3, <1>4, <1>5 DEF Next, Answer

\* The abort hook a timeout runs on its session never cuts short the body of a command that has
\* not itself timed out, for any number of requests queued behind one another.
THEOREM AbortHitsOnlyExpiredHolds == Spec => []AbortHitsOnlyExpired
<1>1. Init => LaneInv /\ AbortInv
  BY InitLane DEF Init, AbortInv, RaceSettled, AbortHitsOnlyExpired
<1>2. Inv1 /\ LaneInv /\ AbortInv /\ [Next]_vars => (LaneInv /\ AbortInv)'  BY NextLane, NextAbort
<1>3. AbortInv => AbortHitsOnlyExpired  BY DEF AbortInv
<1> QED  BY <1>1, <1>2, <1>3, SpecInv1, PTL DEF Spec

-----------------------------------------------------------------------------
(* Names: the in-flight tables and at-most-once execution *)

\* A request that was admitted and answered left its names behind, unless they were evicted or
\* expired: a duplicate finds them.
Remembered ==
  runtime # "disposed" =>
    \A q \in Requests : stage[q] \in Entered /\ Answered(q) =>
      /\ \A i \in IdOf(cmd[q]) : i \in forgotten \/ outcomes[i].src # NoReq
      /\ \A k \in KeyOf(cmd[q]) :
           k \in forgotten \/ (keyCache[k].src # NoReq /\ k \notin keyExpired)

Shared(q, r) == (IdOf(cmd[q]) \cap IdOf(cmd[r])) \cup (KeyOf(cmd[q]) \cap KeyOf(cmd[r]))

\* Two admitted requests share only names that were forgotten between them.
OncePerName ==
  \A q, r \in Requests :
    q # r /\ stage[q] \in Entered /\ stage[r] \in Entered => Shared(q, r) \subseteq forgotten

RanEntered == \A r \in ran : stage[r] \in Entered

OnceInv == InFlightAccurate /\ Remembered /\ OncePerName /\ RanEntered

LEMMA NamesOf ==
  ASSUME NEW c \in Commands
  PROVE  /\ IdOf(c) \subseteq Ids /\ KeyOf(c) \subseteq ScopedKeys
         /\ \A i \in Ids : i \in IdOf(c) <=> c.id = i
BY CommandFields, ConstantsAssumption DEF IdOf

\* A command whose replay check finds nothing has names nobody holds or remembers.
LEMMA NothingFound ==
  ASSUME TypeOK, NEW c \in Commands, Hits(c) = {}
  PROVE  /\ \A i \in IdOf(c) : inFlight[i] = NoReq /\ outcomes[i].src = NoReq
         /\ \A k \in KeyOf(c) : /\ keyInFlight[k] = NoReq
                                /\ k \in keyExpired \/ keyCache[k].src = NoReq
<1>1. ASSUME NEW i \in IdOf(c), outcomes[i].src # NoReq PROVE FALSE
  <2>1. [rank |-> 3, how |-> "cached", found |-> outcomes[i]] \in Hits(c)  BY <1>1 DEF Hits
  <2> QED  BY <2>1
<1>2. ASSUME NEW i \in IdOf(c), inFlight[i] # NoReq PROVE FALSE
  <2>1. [rank |-> 4, how |-> "join", found |-> [src |-> inFlight[i], kind |-> "none"]] \in Hits(c)
    BY <1>2 DEF Hits
  <2> QED  BY <2>1
<1>3. ASSUME NEW k \in KeyOf(c), keyInFlight[k] # NoReq PROVE FALSE
  <2>1. [rank |-> 2, how |-> "join", found |-> [src |-> keyInFlight[k], kind |-> "none"]] \in Hits(c)
    BY <1>3 DEF Hits
  <2> QED  BY <2>1
<1>4. ASSUME NEW k \in KeyOf(c), k \notin keyExpired, keyCache[k].src # NoReq PROVE FALSE
  <2>1. SweptCache[k] = keyCache[k]  BY <1>4, NamesOf DEF SweptCache
  <2>2. [rank |-> 1, how |-> "cached", found |-> SweptCache[k]] \in Hits(c)  BY <1>4, <2>1 DEF Hits
  <2> QED  BY <2>2
<1> QED  BY <1>1, <1>2, <1>3, <1>4

\* What is stored stays stored, or is forgotten; what a request stores is its own response.
LEMMA StoreKeeps ==
  ASSUME TypeOK, NEW c \in Commands, NEW v \in Verdict, v.src # NoReq, StoreOutcome(c, v)
  PROVE  /\ forgotten \subseteq forgotten'
         /\ \A i \in Ids : /\ outcomes[i].src # NoReq \/ i = c.id =>
                                i \in forgotten' \/ outcomes'[i].src # NoReq
                           /\ outcomes'[i] \in {outcomes[i], NoVerdict} \/ (i = c.id /\ outcomes'[i] = v)
<1>1. PICK evict : /\ outcomes' = [i \in Ids |-> IF i \in evict THEN NoVerdict
                                                 ELSE IF i = c.id THEN v ELSE outcomes[i]]
                   /\ forgotten' = forgotten \cup evict
  BY DEF StoreOutcome, RecordOutcome
<1> QED  BY <1>1

LEMMA FinalSource ==
  ASSUME NEW r \in Requests, NEW v, v.src = r, NEW w \in FinalVerdicts(r, v)
  PROVE  w.src = r /\ w # NoVerdict
BY DEF FinalVerdicts, NoVerdict, NoReq, Requests

\* A step that neither admits nor answers anybody who was admitted.
LEMMA OnceStutter ==
  ASSUME Inv1, OnceInv,
         \A q \in Requests : /\ stage'[q] \in Entered <=> stage[q] \in Entered
                             /\ stage[q] \in Entered => cmd'[q] = cmd[q] /\ reply'[q] = reply[q],
         runtime' # "disposed" => runtime # "disposed" /\ UNCHANGED <<inFlight, keyInFlight>>,
         forgotten \subseteq forgotten',
         runtime' # "disposed" =>
           \A i \in Ids : outcomes[i].src # NoReq => i \in forgotten' \/ outcomes'[i].src # NoReq,
         runtime' # "disposed" =>
           \A k \in ScopedKeys : keyCache[k].src # NoReq /\ k \notin keyExpired =>
             k \in forgotten' \/ (keyCache'[k].src # NoReq /\ k \notin keyExpired'),
         \A r \in ran' \ ran : r \in Requests /\ stage[r] \in Entered
  PROVE  OnceInv'
<1>1. \A q \in Requests : stage[q] \in Entered => cmd[q] \in Commands  BY EnteredSubmitted
<1>2. \A q \in Requests : Pending(q)' <=> Pending(q)  BY DEF Pending, Answered
<1>3. InFlightAccurate'
  <2> SUFFICES ASSUME runtime' # "disposed", NEW r \in Requests
               PROVE  /\ \A i \in Ids : inFlight'[i] = r <=> (Pending(r)' /\ cmd'[r].id = i)
                      /\ \A k \in ScopedKeys :
                           keyInFlight'[k] = r <=> (Pending(r)' /\ k \in KeyOf(cmd'[r]))
    BY DEF InFlightAccurate
  <2>1. inFlight' = inFlight /\ keyInFlight' = keyInFlight /\ runtime # "disposed"  OBVIOUS
  <2>2. Pending(r) => cmd'[r] = cmd[r]  BY DEF Pending
  <2> QED  BY <1>2, <2>1, <2>2 DEF OnceInv, InFlightAccurate
<1>4. Remembered'
  <2> SUFFICES ASSUME runtime' # "disposed", NEW q \in Requests, stage'[q] \in Entered, Answered(q)'
               PROVE  /\ \A i \in IdOf(cmd'[q]) : i \in forgotten' \/ outcomes'[i].src # NoReq
                      /\ \A k \in KeyOf(cmd'[q]) :
                           k \in forgotten' \/ (keyCache'[k].src # NoReq /\ k \notin keyExpired')
    BY DEF Remembered
  <2>1. stage[q] \in Entered /\ Answered(q) /\ cmd'[q] = cmd[q]  BY DEF Answered
  <2>2. IdOf(cmd[q]) \subseteq Ids /\ KeyOf(cmd[q]) \subseteq ScopedKeys  BY <1>1, <2>1, NamesOf
  <2> QED  BY <2>1, <2>2 DEF OnceInv, Remembered
<1>5. OncePerName'
  <2> SUFFICES ASSUME NEW p \in Requests, NEW q \in Requests, p # q,
                      stage[p] \in Entered, stage[q] \in Entered
               PROVE  Shared(p, q)' \subseteq forgotten'
    BY DEF OncePerName
  <2>1. Shared(p, q)' = Shared(p, q)  BY DEF Shared
  <2> QED  BY <2>1 DEF OnceInv, OncePerName
<1>6. RanEntered'  BY DEF OnceInv, RanEntered, Inv1, TypeOK
<1> QED  BY <1>3, <1>4, <1>5, <1>6 DEF OnceInv

\* An answer takes the names of its request out of the in-flight tables and into the store.
LEMMA ConcludeOnce ==
  ASSUME Inv1, OnceInv, NEW r \in Requests, NEW k \in Kinds, Pending(r), Conclude(r, k)
  PROVE  OnceInv'
<1>1. cmd[r] \in Commands /\ stage[r] \in Entered  BY EnteredSubmitted DEF Pending
<1>2. PICK v \in FinalVerdicts(r, [src |-> r, kind |-> k]) :
        Settle(r, cmd[r], keyCache, keyExpired, v)
  BY DEF Conclude
<1>3. v \in Verdict /\ v.src = r /\ v # NoVerdict /\ r # NoReq
  BY <1>2, VerdictFacts, FinalVerdictType, FinalSource DEF Requests, NoReq
<1>4. /\ stage' = stage /\ cmd' = cmd /\ runtime' = runtime /\ ran' = ran
      /\ reply' = [reply EXCEPT ![r] = v]
      /\ inFlight' = [i \in Ids |-> IF inFlight[i] = r THEN NoReq ELSE inFlight[i]]
      /\ keyInFlight' = [x \in ScopedKeys |-> IF keyInFlight[x] = r THEN NoReq ELSE keyInFlight[x]]
      /\ keyCache' = [x \in ScopedKeys |-> IF x \in KeyOf(cmd[r]) THEN v ELSE keyCache[x]]
      /\ keyExpired' = keyExpired \ KeyOf(cmd[r])
  BY <1>2 DEF Conclude, Settle, Unregistered, clientVars, laneVars
<1>5. /\ forgotten \subseteq forgotten'
      /\ \A i \in Ids : outcomes[i].src # NoReq \/ i = cmd[r].id =>
                          i \in forgotten' \/ outcomes'[i].src # NoReq
  BY <1>1, <1>2, <1>3, StoreKeeps DEF Settle, Inv1
<1>6. \A q \in Requests : /\ q # r => reply'[q] = reply[q]
                          /\ q # r => (Pending(q)' <=> Pending(q))
                          /\ Answered(q)' <=> (q = r \/ Answered(q))
  BY <1>3, <1>4 DEF Pending, Answered, Inv1, TypeOK
<1>7. ~Pending(r)'  BY <1>6 DEF Pending
<1>8. InFlightAccurate'
  <2> SUFFICES ASSUME runtime # "disposed", NEW q \in Requests
               PROVE  /\ \A i \in Ids : inFlight'[i] = q <=> (Pending(q)' /\ cmd[q].id = i)
                      /\ \A x \in ScopedKeys :
                           keyInFlight'[x] = q <=> (Pending(q)' /\ x \in KeyOf(cmd[q]))
    BY <1>4 DEF InFlightAccurate
  <2>1. CASE q = r  BY <1>3, <1>4, <1>7, <2>1
  <2>2. CASE q # r
    <3>1. q # NoReq  BY DEF Requests, NoReq
    <3>2. /\ \A i \in Ids : inFlight'[i] = q <=> inFlight[i] = q
          /\ \A x \in ScopedKeys : keyInFlight'[x] = q <=> keyInFlight[x] = q
      BY <1>4, <2>2, <3>1
    <3> QED  BY <1>6, <2>2, <3>2 DEF OnceInv, InFlightAccurate
  <2> QED  BY <2>1, <2>2
<1>9. Remembered'
  <2> SUFFICES ASSUME runtime # "disposed", NEW q \in Requests, stage[q] \in Entered, q = r \/ Answered(q)
               PROVE  /\ \A i \in IdOf(cmd[q]) : i \in forgotten' \/ outcomes'[i].src # NoReq
                      /\ \A x \in KeyOf(cmd[q]) :
                           x \in forgotten' \/ (keyCache'[x].src # NoReq /\ x \notin keyExpired')
    BY <1>4, <1>6 DEF Remembered
  <2>1. cmd[q] \in Commands  BY EnteredSubmitted
  <2>2. /\ IdOf(cmd[q]) \subseteq Ids /\ KeyOf(cmd[q]) \subseteq ScopedKeys
        /\ \A i \in IdOf(cmd[r]) : i = cmd[r].id /\ i \in Ids
    BY <1>1, <2>1, NamesOf
  <2>3. ASSUME NEW i \in IdOf(cmd[q]) PROVE i \in forgotten' \/ outcomes'[i].src # NoReq
    BY <1>5, <2>2 DEF OnceInv, Remembered
  <2>4. ASSUME NEW x \in KeyOf(cmd[q])
        PROVE  x \in forgotten' \/ (keyCache'[x].src # NoReq /\ x \notin keyExpired')
    <3>1. CASE x \in KeyOf(cmd[r])  BY <1>3, <1>4, <2>2, <3>1
    <3>2. CASE x \notin KeyOf(cmd[r])
      BY <1>4, <1>5, <2>2, <3>2 DEF OnceInv, Remembered
    <3> QED  BY <3>1, <3>2
  <2> QED  BY <2>3, <2>4
<1>10. OncePerName'  BY <1>4, <1>5 DEF OnceInv, OncePerName, Shared
<1>11. RanEntered'  BY <1>4 DEF OnceInv, RanEntered
<1> QED  BY <1>8, <1>9, <1>10, <1>11 DEF OnceInv

\* A command is admitted only if nobody executes or is remembered under its names.
LEMMA AdmitOnce == ASSUME Inv1, OnceInv, NEW c \in Commands, Admit(c) PROVE OnceInv'
<1> PICK r : r = submitted + 1  OBVIOUS
<1>1. /\ r \in Requests /\ r # NoReq /\ stage[r] = "unsent" /\ reply[r] = NoVerdict
      /\ cmd' = [cmd EXCEPT ![r] = c]
  <2>1. Submit  BY DEF Submit
  <2>2. Arrive(c)  BY DEF Admit
  <2> QED  BY <2>1, <2>2, SubmitFacts DEF Arrive, Requests, NoReq
<1>2. /\ runtime = "up" /\ runtime' = runtime /\ Hits(c) = {} /\ ran' = ran
      /\ forgotten' = forgotten /\ outcomes' = outcomes /\ reply' = reply
      /\ stage' = [stage EXCEPT ![r] = "queued"]
      /\ inFlight' = [i \in Ids |-> IF i = c.id THEN r ELSE inFlight[i]]
      /\ keyInFlight' = [k \in ScopedKeys |-> IF k \in KeyOf(c) THEN r ELSE keyInFlight[k]]
      /\ keyCache' = SweptCache /\ keyExpired' = {}
  BY DEF Admit, Admissible, Sweep
<1>3. \A q \in Requests : q # r => /\ stage'[q] = stage[q] /\ cmd'[q] = cmd[q]
                                   /\ Pending(q)' <=> Pending(q)
  BY <1>1, <1>2 DEF Inv1, TypeOK, Pending, Answered
<1>4. stage'[r] = "queued" /\ cmd'[r] = c /\ Pending(r)' /\ ~Pending(r)
  BY <1>1, <1>2 DEF Inv1, TypeOK, Pending, Answered, Entered
<1>5. /\ IdOf(c) \subseteq Ids /\ KeyOf(c) \subseteq ScopedKeys
      /\ \A i \in Ids : i \in IdOf(c) <=> c.id = i
  BY NamesOf
<1>6. InFlightAccurate'
  <2> SUFFICES ASSUME NEW q \in Requests
               PROVE  /\ \A i \in Ids : inFlight'[i] = q <=> (Pending(q)' /\ cmd'[q].id = i)
                      /\ \A k \in ScopedKeys :
                           keyInFlight'[k] = q <=> (Pending(q)' /\ k \in KeyOf(cmd'[q]))
    BY DEF InFlightAccurate
  <2>1. /\ \A i \in Ids : inFlight[i] = q <=> (Pending(q) /\ cmd[q].id = i)
        /\ \A k \in ScopedKeys : keyInFlight[k] = q <=> (Pending(q) /\ k \in KeyOf(cmd[q]))
    BY <1>2 DEF OnceInv, InFlightAccurate
  <2>2. CASE q = r  BY <1>2, <1>4, <2>1, <2>2
  <2>3. CASE q # r
    <3>1. q # NoReq  BY DEF Requests, NoReq
    <3>2. /\ \A i \in IdOf(c) : inFlight[i] # q
          /\ \A k \in KeyOf(c) : keyInFlight[k] # q
      BY <1>2, <3>1, NothingFound DEF Inv1
    <3> QED  BY <1>2, <1>3, <1>5, <2>1, <2>3, <3>2
  <2> QED  BY <2>2, <2>3
<1>7. Remembered'
  <2> SUFFICES ASSUME NEW q \in Requests, stage'[q] \in Entered, Answered(q)'
               PROVE  /\ \A i \in IdOf(cmd'[q]) : i \in forgotten' \/ outcomes'[i].src # NoReq
                      /\ \A k \in KeyOf(cmd'[q]) :
                           k \in forgotten' \/ (keyCache'[k].src # NoReq /\ k \notin keyExpired')
    BY DEF Remembered
  <2>1. q # r /\ stage[q] \in Entered /\ Answered(q) /\ cmd'[q] = cmd[q]
    BY <1>1, <1>2, <1>3 DEF Answered
  <2>2. KeyOf(cmd[q]) \subseteq ScopedKeys  BY <2>1, EnteredSubmitted, NamesOf
  <2>3. \A k \in ScopedKeys : k \notin keyExpired => keyCache'[k] = keyCache[k]
    BY <1>2 DEF SweptCache
  <2> QED  BY <1>2, <2>1, <2>2, <2>3 DEF OnceInv, Remembered
<1>8. ASSUME NEW q \in Requests, q # r, stage[q] \in Entered
      PROVE  Shared(q, r)' \subseteq forgotten /\ Shared(r, q)' \subseteq forgotten
  <2>1. cmd[q] \in Commands /\ cmd'[q] = cmd[q]  BY <1>3, <1>8, EnteredSubmitted
  <2>2. ASSUME NEW i \in IdOf(cmd[q]) \cap IdOf(c) PROVE i \in forgotten
    <3>1. i \in Ids /\ cmd[q].id = i  BY <2>1, NamesOf
    <3>2. inFlight[i] = NoReq /\ outcomes[i].src = NoReq  BY <1>2, NothingFound DEF Inv1
    <3>3. ~Pending(q)
      BY <1>2, <3>1, <3>2 DEF OnceInv, InFlightAccurate, Requests, NoReq
    <3> QED  BY <1>2, <1>8, <3>2, <3>3 DEF OnceInv, Remembered, Pending
  <2>3. ASSUME NEW k \in KeyOf(cmd[q]) \cap KeyOf(c) PROVE k \in forgotten
    <3>1. k \in ScopedKeys  BY <1>5
    <3>2. keyInFlight[k] = NoReq /\ (k \in keyExpired \/ keyCache[k].src = NoReq)
      BY <1>2, NothingFound DEF Inv1
    <3>3. ~Pending(q)
      BY <1>2, <3>1, <3>2 DEF OnceInv, InFlightAccurate, Requests, NoReq
    <3> QED  BY <1>2, <1>8, <3>2, <3>3 DEF OnceInv, Remembered, Pending
  <2> QED  BY <1>4, <2>1, <2>2, <2>3 DEF Shared
<1>9. OncePerName'
  <2> SUFFICES ASSUME NEW p \in Requests, NEW q \in Requests, p # q,
                      stage'[p] \in Entered, stage'[q] \in Entered
               PROVE  Shared(p, q)' \subseteq forgotten
    BY <1>2 DEF OncePerName
  <2>1. CASE p = r \/ q = r  BY <1>3, <1>8, <2>1
  <2>2. CASE p # r /\ q # r
    BY <1>3, <2>2 DEF OnceInv, OncePerName, Shared
  <2> QED  BY <2>1, <2>2
<1>10. RanEntered'
  BY <1>1, <1>2, <1>3, <1>4 DEF OnceInv, RanEntered, Inv1, TypeOK, Entered
<1> QED  BY <1>6, <1>7, <1>9, <1>10 DEF OnceInv

\* The other submissions are answered, or join an execution, without being admitted.
LEMMA SubmitOnce == ASSUME Inv1, OnceInv, Submit PROVE OnceInv'
<1> PICK r : r = submitted + 1  OBVIOUS
<1>1. PICK c \in Commands :
         \/ RefuseShutdown(c) \/ AnswerConflict(c) \/ ReplayCached(c)
         \/ JoinInFlight(c) \/ RejectRateLimited(c) \/ RejectBusy(c)
         \/ AcceptNotJournaled(c) \/ Admit(c)
  BY DEF Submit
<1>2. CASE Admit(c)  BY <1>2, AdmitOnce
<1>3. CASE ~Admit(c)
  <2>1. /\ r \in Requests /\ stage[r] = "unsent" /\ runtime' = runtime /\ ran' = ran
        /\ cmd' = [cmd EXCEPT ![r] = cmd'[r]] /\ reply' = [reply EXCEPT ![r] = reply'[r]]
    BY SubmitFacts DEF Inv1, TypeOK
  <2>2. \E s \in {"closed", "joined"} : stage' = [stage EXCEPT ![r] = s]
    BY <1>1, <1>3
    DEF RefuseShutdown, AnswerConflict, ReplayCached, JoinInFlight, RejectRateLimited,
        RejectBusy, AcceptNotJournaled, AnswerNow, Close
  <2>3. \A q \in Requests : /\ stage'[q] \in Entered <=> stage[q] \in Entered
                            /\ stage[q] \in Entered => cmd'[q] = cmd[q] /\ reply'[q] = reply[q]
    BY <2>1, <2>2 DEF Inv1, TypeOK, Entered
  <2>4. \A k \in ScopedKeys : k \notin keyExpired => SweptCache[k] = keyCache[k]
    BY DEF SweptCache
  <2>5. CASE RefuseShutdown(c)
    BY <2>1, <2>3, <2>5, OnceStutter DEF RefuseShutdown, storeVars
  <2>6. CASE (\E v : AnswerNow(c, v)) \/ JoinInFlight(c)
    <3>1. /\ UNCHANGED <<inFlight, keyInFlight, outcomes, forgotten>>
          /\ keyCache' = SweptCache /\ keyExpired' = {}
      BY <2>6 DEF AnswerNow, JoinInFlight, Sweep
    <3> QED  BY <2>1, <2>3, <2>4, <3>1, OnceStutter
  <2>7. CASE AcceptNotJournaled(c)
    <3> DEFINE v == [src |-> r, kind |-> "fail"]
    <3>0. v \in Verdict  BY <2>1, VerdictFacts DEF Kinds
    <3>1. v \in Verdict /\ v.src # NoReq /\ ~Pending(r)
      BY <2>1, <3>0 DEF Requests, NoReq, Pending, Entered
    <3>2. Settle(r, c, SweptCache, {}, v) /\ runtime = "up"
      BY <2>7 DEF AcceptNotJournaled, Admissible
    <3>3. inFlight' = inFlight /\ keyInFlight' = keyInFlight
      <4>1. /\ \A i \in Ids : inFlight[i] # r
            /\ \A k \in ScopedKeys : keyInFlight[k] # r
        BY <2>1, <3>1, <3>2 DEF OnceInv, InFlightAccurate
      <4> QED  BY <3>2, <4>1 DEF Settle, Unregistered, Inv1, TypeOK
    <3>4. /\ forgotten \subseteq forgotten'
          /\ \A i \in Ids : outcomes[i].src # NoReq => i \in forgotten' \/ outcomes'[i].src # NoReq
      <4>1. StoreOutcome(c, v)  BY <3>2 DEF Settle
      <4> HIDE DEF v
      <4> QED  BY <3>1, <4>1, StoreKeeps DEF Inv1
    <3>5. \A k \in ScopedKeys : keyCache[k].src # NoReq /\ k \notin keyExpired =>
            keyCache'[k].src # NoReq /\ k \notin keyExpired'
      BY <2>4, <3>1, <3>2 DEF Settle
    <3> QED  BY <2>1, <2>3, <3>2, <3>3, <3>4, <3>5, OnceStutter
  <2> QED
    BY <1>1, <1>3, <2>5, <2>6, <2>7 DEF AnswerConflict, ReplayCached, RejectRateLimited, RejectBusy
<1> QED  BY <1>2, <1>3

LEMMA NextOnce == Inv1 /\ OnceInv /\ [Next]_vars => OnceInv'
<1> SUFFICES ASSUME Inv1, OnceInv, [Next]_vars PROVE OnceInv'  OBVIOUS
<1>1. CASE Submit  BY <1>1, SubmitOnce
<1>2. CASE \E r \in Requests : Task(r)
  <2>1. PICK r \in Requests : Task(r)  BY <1>2
  <2>2. /\ stage[r] \in Entered /\ ran' \subseteq ran \cup {r}
        /\ UNCHANGED <<cmd, reply, storeVars, runtime, forgotten>>
        /\ \E s \in Entered : stage' = [stage EXCEPT ![r] = s]
    BY <2>1, TaskFacts DEF Entered, clientVars
  <2>3. \A q \in Requests : stage'[q] \in Entered <=> stage[q] \in Entered
    BY <2>2 DEF Inv1, TypeOK
  <2> QED  BY <2>2, <2>3, OnceStutter DEF storeVars
<1>3. CASE \E r \in Requests : AnswerResult(r) \/ AnswerTimeout(r)
  <2>1. PICK r \in Requests : AnswerResult(r) \/ AnswerTimeout(r)  BY <1>3
  <2>2. result[r] \in Kinds /\ "timeout" \in Kinds  BY DEF Inv1, TypeOK, Kinds
  <2> QED  BY <2>1, <2>2, ConcludeOnce DEF AnswerResult, AnswerTimeout
<1>4. CASE \E r \in Requests : CommandTimeout(r)
  BY <1>4, OnceStutter DEF CommandTimeout, clientVars, laneVars, storeVars
<1>5. CASE \E r \in Requests : AnswerJoined(r)
  <2>1. PICK r \in Requests : AnswerJoined(r)  BY <1>5
  <2>2. /\ stage[r] = "joined" /\ stage' = [stage EXCEPT ![r] = "closed"]
        /\ \E v : reply' = [reply EXCEPT ![r] = v]
        /\ UNCHANGED <<cmd, storeVars, runtime, forgotten, ran>>
    BY <2>1 DEF AnswerJoined, Close, clientVars
  <2>3. \A q \in Requests : /\ stage'[q] \in Entered <=> stage[q] \in Entered
                            /\ stage[q] \in Entered => reply'[q] = reply[q]
    BY <2>2 DEF Inv1, TypeOK, Entered
  <2> QED  BY <2>2, <2>3, OnceStutter DEF storeVars
<1>6. CASE \E k \in ScopedKeys : KeyExpires(k)
  BY <1>6, OnceStutter DEF KeyExpires, clientVars, laneVars
<1>7. CASE InitiateShutdown \/ Dispose
  BY <1>7, OnceStutter DEF InitiateShutdown, Dispose, clientVars, laneVars, storeVars
<1>8. CASE Quiescent \/ UNCHANGED vars
  BY <1>8, OnceStutter DEF Quiescent, vars, clientVars, laneVars, storeVars
<1> QED  BY <1>1, <1>2, <1>3, <1>4, <1>5, <1>6, <1>7, <1>8 DEF Next, Answer

LEMMA InitOnce == Init => OnceInv
BY DEF Init, OnceInv, InFlightAccurate, Remembered, OncePerName, RanEntered, Pending, Entered,
       NoReq, Requests

LEMMA SpecOnce == Spec => []OnceInv
<1>1. Inv1 /\ OnceInv /\ [Next]_vars => OnceInv'  BY NextOnce
<1> QED  BY <1>1, InitOnce, SpecInv1, PTL DEF Spec

\* Until disposal, commandInFlightById and idempotencyInFlightByKey hold exactly the admitted
\* and unanswered requests under each of their names: registerInFlight before the lane, the
\* identity-checked unregistering after it, and no refusal in between leave a stale record.
THEOREM InFlightAccurateHolds == Spec => []InFlightAccurate
<1>1. OnceInv => InFlightAccurate  BY DEF OnceInv
<1> QED  BY <1>1, SpecOnce, PTL

\* Two bodies never run under one command id or one scoped idempotency key unless the binding
\* was evicted or expired in between: checkReplay and the tables it reads close every other
\* window, a timeout with a late completion included.
THEOREM AtMostOnceHolds == Spec => []AtMostOnce
<1>1. Inv1 /\ OnceInv => AtMostOnce
  BY DEF OnceInv, OncePerName, RanEntered, Shared, AtMostOnce, Inv1, TypeOK
<1> QED  BY <1>1, SpecOnce, SpecInv1, PTL

-----------------------------------------------------------------------------
(* Replayed responses *)

\* v is the answer that its source was given.
Backed(v) == v.src \in Requests /\ cmd[v.src] # NoCommand /\ reply[v.src] = v

\* What the tables hold under a name is the answer of a request of that name.
Sourced ==
  /\ \A i \in Ids : outcomes[i] # NoVerdict =>
       Backed(outcomes[i]) /\ cmd[outcomes[i].src].id = i
  /\ \A k \in ScopedKeys : keyCache[k] # NoVerdict =>
       Backed(keyCache[k]) /\ k \in KeyOf(cmd[keyCache[k].src])
  /\ \A i \in Ids : inFlight[i] # NoReq => cmd[inFlight[i]] # NoCommand /\ cmd[inFlight[i]].id = i

\* r may be answered with what q is answered with.
MayCopy(r, q) == cmd[q].fp = cmd[r].fp /\ (q = r \/ Shared(q, r) # {})

Following ==
  \A r \in Requests : stage[r] = "joined" =>
    stage[waitsFor[r]] \in Entered /\ MayCopy(r, waitsFor[r])

Unanswered == \A r \in Requests : stage[r] \in {"unsent", "joined"} => ~Answered(r)

Faithful ==
  \A r \in Requests : Answered(r) =>
    /\ Backed(reply[r]) /\ MayCopy(r, reply[r].src)
    /\ stage[r] \in Entered => reply[r].src = r

FaithInv == Sourced /\ Following /\ Unanswered /\ Faithful

\* What no step takes back: a command, an answer, an admission.
Kept ==
  \A q \in Requests :
    /\ cmd[q] # NoCommand => cmd'[q] = cmd[q]
    /\ Answered(q) => reply'[q] = reply[q]
    /\ stage[q] \in Entered => stage'[q] \in Entered /\ cmd[q] # NoCommand
    /\ Answered(q) /\ stage[q] \notin Entered => stage'[q] \notin Entered

LEMMA SubmittedHasCommand ==
  ASSUME Inv1, NEW r \in Requests, stage[r] # "unsent"
  PROVE  cmd[r] \in Commands /\ cmd[r] # NoCommand
BY CommandFields DEF Inv1, Numbered, TypeOK, Requests

LEMMA NextKeeps == ASSUME Inv1, Unanswered, [Next]_vars PROVE Kept
<1>0. \A q \in Requests : stage[q] \in Entered => cmd[q] # NoCommand
  BY SubmittedHasCommand DEF Entered
<1>1. CASE Submit
  <2>1. PICK r \in Requests : /\ stage[r] = "unsent" /\ reply[r] = NoVerdict /\ cmd[r] = NoCommand
                  /\ \E c : cmd' = [cmd EXCEPT ![r] = c]
                  /\ \E s : stage' = [stage EXCEPT ![r] = s]
                  /\ \E v : reply' = [reply EXCEPT ![r] = v]
    BY <1>1, SubmitFacts
  <2> QED  BY <1>0, <2>1 DEF Kept, Answered, Entered, Inv1, TypeOK
<1>2. CASE \E r \in Requests : Task(r)
  <2>1. PICK r \in Requests : Task(r)  BY <1>2
  <2>2. /\ stage[r] \in Entered /\ UNCHANGED <<cmd, reply>>
        /\ \E s \in Entered : stage' = [stage EXCEPT ![r] = s]
    BY <2>1, TaskFacts DEF Entered, clientVars
  <2> QED  BY <1>0, <2>2 DEF Kept, Inv1, TypeOK
<1>3. CASE \E r \in Requests : AnswerResult(r) \/ AnswerTimeout(r)
  <2>1. PICK r \in Requests : /\ ~Answered(r) /\ UNCHANGED <<cmd, stage>>
                              /\ \E v : reply' = [reply EXCEPT ![r] = v]
    BY <1>3 DEF AnswerResult, AnswerTimeout, Pending, Conclude, Settle, clientVars, laneVars
  <2> QED  BY <1>0, <2>1 DEF Kept, Inv1, TypeOK
<1>4. CASE \E r \in Requests : AnswerJoined(r)
  <2>1. PICK r \in Requests : /\ stage[r] = "joined" /\ stage' = [stage EXCEPT ![r] = "closed"]
                              /\ cmd' = cmd /\ \E v : reply' = [reply EXCEPT ![r] = v]
    BY <1>4 DEF AnswerJoined, Close, clientVars
  <2> QED  BY <1>0, <2>1 DEF Kept, Unanswered, Entered, Inv1, TypeOK
<1>5. CASE UNCHANGED <<cmd, reply, stage>>  BY <1>0, <1>5 DEF Kept
<1> QED
  BY <1>1, <1>2, <1>3, <1>4, <1>5
  DEF Next, Answer, CommandTimeout, KeyExpires, InitiateShutdown, Dispose, Quiescent, vars,
      clientVars, laneVars

\* A step keeps FaithInv if whatever it answers, stores, registers or joins is in order.
LEMMA FaithStep ==
  ASSUME Inv1, FaithInv, Kept, TypeOK',
         \A i \in Ids :
           /\ \/ outcomes'[i] \in {outcomes[i], NoVerdict}
              \/ Backed(outcomes[i])' /\ cmd'[outcomes'[i].src].id = i
           /\ \/ inFlight'[i] \in {inFlight[i], NoReq}
              \/ cmd'[inFlight'[i]] # NoCommand /\ cmd'[inFlight'[i]].id = i,
         \A k \in ScopedKeys :
           \/ keyCache'[k] \in {keyCache[k], NoVerdict}
           \/ Backed(keyCache[k])' /\ k \in KeyOf(cmd'[keyCache'[k].src]),
         \A r \in Requests :
           /\ stage'[r] = "joined" =>
                \/ stage[r] = "joined" /\ waitsFor'[r] = waitsFor[r]
                \/ stage'[waitsFor'[r]] \in Entered /\ MayCopy(r, waitsFor[r])'
           /\ stage'[r] \in {"unsent", "joined"} =>
                ~Answered(r)' \/ (stage[r] \in {"unsent", "joined"} /\ reply'[r] = reply[r])
           /\ Answered(r)' =>
                \/ Answered(r)
                \/ /\ Backed(reply[r])' /\ MayCopy(r, reply[r].src)'
                   /\ stage'[r] \in Entered => reply'[r].src = r
  PROVE  FaithInv'
<1>1. Sourced'
  <2>1. ASSUME NEW i \in Ids, outcomes'[i] # NoVerdict
        PROVE  Backed(outcomes[i])' /\ cmd'[outcomes'[i].src].id = i
    <3>1. CASE outcomes'[i] = outcomes[i]
      <4>1. Backed(outcomes[i]) /\ cmd[outcomes[i].src].id = i
        BY <2>1, <3>1 DEF FaithInv, Sourced
      <4> QED  BY <2>1, <3>1, <4>1 DEF Kept, Backed, Answered
    <3> QED  BY <2>1, <3>1
  <2>2. ASSUME NEW k \in ScopedKeys, keyCache'[k] # NoVerdict
        PROVE  Backed(keyCache[k])' /\ k \in KeyOf(cmd'[keyCache'[k].src])
    <3>1. CASE keyCache'[k] = keyCache[k]
      <4>1. Backed(keyCache[k]) /\ k \in KeyOf(cmd[keyCache[k].src])
        BY <2>2, <3>1 DEF FaithInv, Sourced
      <4> QED  BY <2>2, <3>1, <4>1 DEF Kept, Backed, Answered
    <3> QED  BY <2>2, <3>1
  <2>3. ASSUME NEW i \in Ids, inFlight'[i] # NoReq
        PROVE  cmd'[inFlight'[i]] # NoCommand /\ cmd'[inFlight'[i]].id = i
    <3>1. CASE inFlight'[i] = inFlight[i]
      <4>1. inFlight[i] \in Requests /\ cmd[inFlight[i]] # NoCommand /\ cmd[inFlight[i]].id = i
        BY <2>3, <3>1 DEF FaithInv, Sourced, Inv1, TypeOK
      <4> QED  BY <3>1, <4>1 DEF Kept
    <3> QED  BY <2>3, <3>1
  <2> QED  BY <2>1, <2>2, <2>3 DEF Sourced
<1>2. Following'
  <2> SUFFICES ASSUME NEW r \in Requests, stage'[r] = "joined"
               PROVE  stage'[waitsFor'[r]] \in Entered /\ MayCopy(r, waitsFor[r])'
    BY DEF Following
  <2>1. CASE stage[r] = "joined" /\ waitsFor'[r] = waitsFor[r]
    <3>1. waitsFor[r] \in Requests /\ stage[waitsFor[r]] \in Entered /\ MayCopy(r, waitsFor[r])
      BY <2>1 DEF FaithInv, Following, Inv1, Numbered
    <3>2. cmd[r] # NoCommand  BY <2>1, SubmittedHasCommand
    <3>3. stage'[waitsFor[r]] \in Entered /\ cmd[waitsFor[r]] # NoCommand  BY <3>1 DEF Kept
    <3>4. cmd'[r] = cmd[r] /\ cmd'[waitsFor[r]] = cmd[waitsFor[r]]  BY <3>1, <3>2, <3>3 DEF Kept
    <3> QED  BY <2>1, <3>1, <3>3, <3>4 DEF MayCopy, Shared
  <2> QED  BY <2>1
<1>3. Unanswered'  BY DEF FaithInv, Unanswered, Answered
<1>4. Faithful'
  <2> SUFFICES ASSUME NEW r \in Requests, Answered(r)'
               PROVE  /\ Backed(reply[r])' /\ MayCopy(r, reply[r].src)'
                      /\ stage'[r] \in Entered => reply'[r].src = r
    BY DEF Faithful
  <2>1. CASE Answered(r)
    <3>1. /\ reply'[r] = reply[r] /\ reply[r] # NoVerdict
          /\ Backed(reply[r]) /\ MayCopy(r, reply[r].src)
          /\ stage[r] \in Entered => reply[r].src = r
      BY <2>1 DEF Kept, FaithInv, Faithful, Answered
    <3>2. stage[r] # "unsent"  BY <2>1 DEF FaithInv, Unanswered
    <3>3. cmd[r] # NoCommand  BY <3>2, SubmittedHasCommand
    <3>4. cmd'[r] = cmd[r] /\ cmd'[reply[r].src] = cmd[reply[r].src]
          /\ reply'[reply[r].src] = reply[r] /\ reply[r].src \in Requests
      BY <3>1, <3>3 DEF Kept, Backed, Answered
    <3>5. Backed(reply[r])'  BY <3>1, <3>4 DEF Backed
    <3>6. MayCopy(r, reply[r].src)'  BY <3>1, <3>4 DEF MayCopy, Shared
    <3>7. stage'[r] \in Entered => stage[r] \in Entered  BY <2>1 DEF Kept
    <3> QED  BY <3>1, <3>5, <3>6, <3>7
  <2> QED  BY <2>1
<1> QED  BY <1>1, <1>2, <1>3, <1>4 DEF FaithInv

LEMMA ConcludeFaith ==
  ASSUME Inv1, FaithInv, Kept, TypeOK', NEW r \in Requests, NEW k \in Kinds, Pending(r),
         Conclude(r, k)
  PROVE  FaithInv'
<1>1. cmd[r] \in Commands /\ cmd[r] # NoCommand /\ stage[r] \in Entered
  BY SubmittedHasCommand DEF Pending, Entered
<1>2. PICK v \in FinalVerdicts(r, [src |-> r, kind |-> k]) :
        Settle(r, cmd[r], keyCache, keyExpired, v)
  BY DEF Conclude
<1>3. v \in Verdict /\ v.src = r /\ v.src # NoReq
  BY <1>2, VerdictFacts, FinalVerdictType, FinalSource DEF Requests, NoReq
<1>4. /\ stage' = stage /\ cmd' = cmd /\ waitsFor' = waitsFor
      /\ reply' = [reply EXCEPT ![r] = v]
      /\ inFlight' = [i \in Ids |-> IF inFlight[i] = r THEN NoReq ELSE inFlight[i]]
      /\ keyCache' = [x \in ScopedKeys |-> IF x \in KeyOf(cmd[r]) THEN v ELSE keyCache[x]]
  BY <1>2 DEF Conclude, Settle, Unregistered, clientVars, laneVars
<1>5. reply'[r] = v /\ \A q \in Requests : q # r => reply'[q] = reply[q]
  BY <1>4 DEF Inv1, TypeOK
<1>6. Backed(v)'  BY <1>1, <1>3, <1>4, <1>5 DEF Backed
<1>7. \A i \in Ids : /\ \/ outcomes'[i] \in {outcomes[i], NoVerdict}
                        \/ Backed(outcomes[i])' /\ cmd'[outcomes'[i].src].id = i
                     /\ inFlight'[i] \in {inFlight[i], NoReq}
  <2>1. \A i \in Ids : outcomes'[i] \in {outcomes[i], NoVerdict}
                       \/ (i = cmd[r].id /\ outcomes'[i] = v)
    BY <1>1, <1>2, <1>3, StoreKeeps DEF Settle, Inv1
  <2>2. ASSUME NEW i \in Ids, i = cmd[r].id, outcomes'[i] = v
        PROVE  Backed(outcomes[i])' /\ cmd'[outcomes'[i].src].id = i
    <3>1. outcomes'[i].src = r /\ reply'[r] = outcomes'[i]  BY <1>3, <1>5, <2>2
    <3> QED  BY <1>1, <1>4, <2>2, <3>1 DEF Backed
  <2> QED  BY <1>4, <2>1, <2>2
<1>8. \A x \in ScopedKeys :
        \/ keyCache'[x] \in {keyCache[x], NoVerdict}
        \/ Backed(keyCache[x])' /\ x \in KeyOf(cmd'[keyCache'[x].src])
  <2> SUFFICES ASSUME NEW x \in KeyOf(cmd[r]) \cap ScopedKeys
               PROVE  Backed(keyCache[x])' /\ x \in KeyOf(cmd'[keyCache'[x].src])
    BY <1>4 DEF Backed
  <2>1. keyCache'[x] = v  BY <1>4
  <2>2. keyCache'[x].src = r /\ reply'[r] = keyCache'[x]  BY <1>3, <1>5, <2>1
  <2> QED  BY <1>1, <1>4, <2>2 DEF Backed
<1>9. \A q \in Requests : stage'[q] = "joined" => stage[q] = "joined" /\ waitsFor'[q] = waitsFor[q]
  BY <1>4
<1>10. \A q \in Requests : stage'[q] \in {"unsent", "joined"} =>
          stage[q] \in {"unsent", "joined"} /\ reply'[q] = reply[q]
  BY <1>1, <1>4, <1>5 DEF Entered
<1>11. \A q \in Requests : Answered(q)' =>
          \/ Answered(q)
          \/ Backed(reply[q])' /\ MayCopy(q, reply[q].src)' /\ reply'[q].src = q
  BY <1>3, <1>5, <1>6 DEF Answered, Backed, MayCopy
<1>12. \A q \in Requests :
        /\ stage'[q] = "joined" => stage[q] = "joined" /\ waitsFor'[q] = waitsFor[q]
        /\ stage'[q] \in {"unsent", "joined"} =>
             stage[q] \in {"unsent", "joined"} /\ reply'[q] = reply[q]
        /\ Answered(q)' =>
             \/ Answered(q)
             \/ /\ Backed(reply[q])' /\ MayCopy(q, reply[q].src)'
                /\ stage'[q] \in Entered => reply'[q].src = q
  BY <1>9, <1>10, <1>11
<1> QED  BY <1>7, <1>8, <1>12, FaithStep

\* A joined duplicate gets the answer of the execution it waited for, or a failure of its own.
LEMMA JoinedFaith ==
  ASSUME Inv1, FaithInv, Kept, TypeOK', NEW r \in Requests, AnswerJoined(r)
  PROVE  FaithInv'
<1> DEFINE q == waitsFor[r]
<1>1. /\ stage[r] = "joined" /\ Answered(q) /\ UNCHANGED <<cmd, waitsFor, storeVars>>
      /\ stage' = [stage EXCEPT ![r] = "closed"]
  BY DEF AnswerJoined, Close, clientVars
<1>2. PICK v \in FinalVerdicts(r, reply[q]) : reply' = [reply EXCEPT ![r] = v]
  BY DEF AnswerJoined
<1>3. q \in Requests /\ stage[q] \in Entered /\ MayCopy(r, q)
  BY <1>1 DEF FaithInv, Following, Inv1, Numbered
<1>4. reply[q].src = q /\ q # r /\ reply'[q] = reply[q] /\ cmd[q] # NoCommand /\ cmd[r] # NoCommand
  BY <1>1, <1>2, <1>3, SubmittedHasCommand DEF FaithInv, Faithful, Entered, Inv1, TypeOK
<1>5. reply'[r] = v /\ (v = reply[q] \/ v = [src |-> r, kind |-> "fail"])
  BY <1>2 DEF FinalVerdicts, Inv1, TypeOK
<1>6. Backed(reply[r])' /\ MayCopy(r, reply[r].src)'
  <2>1. CASE v = reply[q]
    <3>1. reply'[r] = reply'[q] /\ reply'[r].src = q  BY <1>4, <1>5, <2>1
    <3> QED  BY <1>1, <1>3, <1>4, <3>1 DEF Backed, MayCopy, Shared
  <2>2. CASE v = [src |-> r, kind |-> "fail"]
    <3>1. reply'[r].src = r  BY <1>5, <2>2
    <3> QED  BY <1>1, <1>4, <3>1 DEF Backed, MayCopy
  <2> QED  BY <1>5, <2>1, <2>2
<1>7. stage'[r] = "closed" /\ \A p \in Requests : p # r => stage'[p] = stage[p] /\ reply'[p] = reply[p]
  BY <1>1, <1>2 DEF Inv1, TypeOK
<1>8. \A p \in Requests :
        /\ stage'[p] = "joined" => stage[p] = "joined" /\ waitsFor'[p] = waitsFor[p]
        /\ stage'[p] \in {"unsent", "joined"} =>
             stage[p] \in {"unsent", "joined"} /\ reply'[p] = reply[p]
        /\ Answered(p)' =>
             \/ Answered(p)
             \/ /\ Backed(reply[p])' /\ MayCopy(p, reply[p].src)'
                /\ stage'[p] \in Entered => reply'[p].src = p
  BY <1>1, <1>6, <1>7 DEF Answered, Entered
<1>9. /\ \A i \in Ids : outcomes'[i] = outcomes[i] /\ inFlight'[i] = inFlight[i]
      /\ \A k \in ScopedKeys : keyCache'[k] = keyCache[k]
  BY <1>1 DEF storeVars
<1> QED  BY <1>8, <1>9, FaithStep

\* What the replay check finds is an answer or an execution under a name of the command.
LEMMA FoundFaith ==
  ASSUME Inv1, OnceInv, FaithInv, runtime = "up", NEW c \in Commands, NEW h \in FirstHits(c)
  PROVE  LET q == h.found.src IN
         /\ q \in Requests /\ cmd[q] # NoCommand
         /\ (IdOf(cmd[q]) \cap IdOf(c)) \cup (KeyOf(cmd[q]) \cap KeyOf(c)) # {}
         /\ h.how = "cached" => Backed(h.found)
         /\ h.how = "join" => stage[q] \in Entered
<1> DEFINE q == h.found.src
<1>1. h \in Hits(c) /\ q \in Requests /\ q # NoReq  BY HitType DEF FirstHits, Hits, Inv1
<1>2. IdOf(c) \subseteq Ids /\ KeyOf(c) \subseteq ScopedKeys  BY NamesOf
<1>3. CASE \E k \in KeyOf(c) : h = [rank |-> 1, how |-> "cached", found |-> SweptCache[k]]
  <2>1. PICK k \in KeyOf(c) : h = [rank |-> 1, how |-> "cached", found |-> SweptCache[k]]
    BY <1>3
  <2>2. h.how = "cached" /\ h.found = keyCache[k] /\ keyCache[k] # NoVerdict
    BY <1>1, <1>2, <2>1 DEF SweptCache, NoVerdict
  <2> QED  BY <1>1, <1>2, <2>2 DEF FaithInv, Sourced, Backed
<1>4. CASE \E k \in KeyOf(c) :
             h = [rank |-> 2, how |-> "join", found |-> [src |-> keyInFlight[k], kind |-> "none"]]
  <2>1. PICK k \in KeyOf(c) :
             h = [rank |-> 2, how |-> "join", found |-> [src |-> keyInFlight[k], kind |-> "none"]]
    BY <1>4
  <2>2. h.how = "join" /\ q = keyInFlight[k] /\ k \in ScopedKeys  BY <1>2, <2>1
  <2>3. Pending(q) /\ k \in KeyOf(cmd[q])
    BY <1>1, <2>2 DEF OnceInv, InFlightAccurate
  <2> QED  BY <1>1, <2>2, <2>3, SubmittedHasCommand DEF Pending, Entered
<1>5. CASE \E i \in IdOf(c) : h = [rank |-> 3, how |-> "cached", found |-> outcomes[i]]
  <2>1. PICK i \in IdOf(c) : h = [rank |-> 3, how |-> "cached", found |-> outcomes[i]]
    BY <1>5
  <2>2. h.how = "cached" /\ h.found = outcomes[i] /\ outcomes[i] # NoVerdict /\ i \in Ids
    BY <1>1, <1>2, <2>1 DEF NoVerdict
  <2>3. Backed(h.found) /\ cmd[q].id = i /\ cmd[q] # NoCommand
    BY <2>2 DEF FaithInv, Sourced, Backed
  <2>4. i \in IdOf(cmd[q])  BY <2>2, <2>3, ConstantsAssumption DEF IdOf
  <2> QED  BY <1>1, <2>2, <2>3, <2>4
<1>6. CASE \E i \in IdOf(c) :
             h = [rank |-> 4, how |-> "join", found |-> [src |-> inFlight[i], kind |-> "none"]]
  <2>1. PICK i \in IdOf(c) :
             h = [rank |-> 4, how |-> "join", found |-> [src |-> inFlight[i], kind |-> "none"]]
    BY <1>6
  <2>2. h.how = "join" /\ q = inFlight[i] /\ i \in Ids  BY <1>2, <2>1
  <2>3. Pending(q) /\ cmd[q].id = i  BY <1>1, <2>2 DEF OnceInv, InFlightAccurate
  <2>4. i \in IdOf(cmd[q])  BY <2>2, <2>3, ConstantsAssumption DEF IdOf
  <2> QED  BY <1>1, <2>2, <2>3, <2>4, SubmittedHasCommand DEF Pending, Entered
<1> QED  BY <1>1, <1>3, <1>4, <1>5, <1>6 DEF Hits

\* A submission keeps FaithInv if the answer given at once, or the execution joined, is in order.
LEMMA SubmitStep ==
  ASSUME Inv1, FaithInv, Kept, TypeOK', Submit, NEW r, r = submitted + 1,
         \A i \in Ids :
           /\ \/ outcomes'[i] \in {outcomes[i], NoVerdict}
              \/ Backed(outcomes[i])' /\ cmd'[outcomes'[i].src].id = i
           /\ \/ inFlight'[i] \in {inFlight[i], NoReq}
              \/ cmd'[inFlight'[i]] # NoCommand /\ cmd'[inFlight'[i]].id = i,
         \A k \in ScopedKeys :
           \/ keyCache'[k] \in {keyCache[k], NoVerdict}
           \/ Backed(keyCache[k])' /\ k \in KeyOf(cmd'[keyCache'[k].src]),
         stage'[r] = "joined" =>
           reply'[r] = reply[r] /\ stage'[waitsFor'[r]] \in Entered /\ MayCopy(r, waitsFor[r])',
         Answered(r)' =>
           Backed(reply[r])' /\ MayCopy(r, reply[r].src)' /\ stage'[r] \notin Entered
  PROVE  FaithInv'
<1>1. /\ r \in Requests /\ stage[r] = "unsent" /\ reply[r] = NoVerdict
      /\ \E s \in {"closed", "joined", "queued"} : stage' = [stage EXCEPT ![r] = s]
      /\ reply' = [reply EXCEPT ![r] = reply'[r]]
      /\ \A q \in Requests : q # r => waitsFor'[q] = waitsFor[q]
  BY SubmitFacts
<1>2. \A q \in Requests : q # r => stage'[q] = stage[q] /\ reply'[q] = reply[q]
  BY <1>1 DEF Inv1, TypeOK
<1>3. stage'[r] # "unsent"  BY <1>1 DEF Inv1, TypeOK
<1>4. ASSUME NEW q \in Requests
      PROVE  /\ stage'[q] = "joined" =>
                  \/ stage[q] = "joined" /\ waitsFor'[q] = waitsFor[q]
                  \/ stage'[waitsFor'[q]] \in Entered /\ MayCopy(q, waitsFor[q])'
             /\ stage'[q] \in {"unsent", "joined"} =>
                  ~Answered(q)' \/ (stage[q] \in {"unsent", "joined"} /\ reply'[q] = reply[q])
             /\ Answered(q)' =>
                  \/ Answered(q)
                  \/ /\ Backed(reply[q])' /\ MayCopy(q, reply[q].src)'
                     /\ stage'[q] \in Entered => reply'[q].src = q
  <2>1. CASE q = r  BY <1>1, <1>3, <2>1
  <2>2. CASE q # r
    <3>1. stage'[q] = stage[q] /\ reply'[q] = reply[q] /\ waitsFor'[q] = waitsFor[q]
      BY <1>1, <1>2, <2>2
    <3> QED  BY <3>1 DEF FaithInv, Unanswered, Answered
  <2> QED  BY <2>1, <2>2
<1> QED  BY <1>4, FaithStep

\* An answer given at once is the request's own, or a stored one under its fingerprint.
LEMMA AnswerNowFaith ==
  ASSUME Inv1, FaithInv, Kept, TypeOK', Submit, NEW c \in Commands, NEW v, AnswerNow(c, v),
         \/ v.src = submitted + 1
         \/ /\ Backed(v) /\ cmd[v.src].fp = c.fp
            /\ (IdOf(cmd[v.src]) \cap IdOf(c)) \cup (KeyOf(cmd[v.src]) \cap KeyOf(c)) # {}
  PROVE  FaithInv'
<1> PICK r : r = submitted + 1  OBVIOUS
<1>1. r \in Requests /\ stage[r] = "unsent" /\ cmd[r] = NoCommand /\ reply[r] = NoVerdict
  BY SubmitFacts
<1>2. /\ cmd' = [cmd EXCEPT ![r] = c] /\ stage' = [stage EXCEPT ![r] = "closed"]
      /\ keyCache' = SweptCache /\ UNCHANGED <<outcomes, inFlight>>
      /\ \E w \in FinalVerdicts(r, v) : reply' = [reply EXCEPT ![r] = w]
  BY DEF AnswerNow, Arrive, Close, Sweep
<1>3. cmd'[r] = c /\ c # NoCommand /\ stage'[r] = "closed"
  BY <1>1, <1>2, CommandFields DEF Inv1, TypeOK
<1>4. reply'[r] = v \/ reply'[r] = [src |-> r, kind |-> "fail"]
  BY <1>1, <1>2 DEF FinalVerdicts, Inv1, TypeOK
<1>5. CASE reply'[r].src = r
  <2>1. Backed(reply[r])' /\ MayCopy(r, reply[r].src)'
    BY <1>1, <1>3, <1>5 DEF Backed, MayCopy
  <2>2. \A k \in ScopedKeys : keyCache'[k] \in {keyCache[k], NoVerdict}  BY <1>2 DEF SweptCache
  <2> QED  BY <1>2, <1>3, <2>1, <2>2, SubmitStep DEF Entered
<1>6. CASE reply'[r] = v /\ v.src # r
  <2>1. /\ Backed(v) /\ cmd[v.src].fp = c.fp
        /\ (IdOf(cmd[v.src]) \cap IdOf(c)) \cup (KeyOf(cmd[v.src]) \cap KeyOf(c)) # {}
    BY <1>6
  <2>2. /\ v.src \in Requests /\ cmd'[v.src] = cmd[v.src] /\ cmd[v.src] # NoCommand
        /\ reply'[v.src] = v
    BY <1>1, <1>2, <1>6, <2>1 DEF Backed, Inv1, TypeOK
  <2>3. Backed(reply[r])' /\ MayCopy(r, reply[r].src)'
    BY <1>3, <1>6, <2>1, <2>2 DEF Backed, MayCopy, Shared
  <2>4. \A k \in ScopedKeys : keyCache'[k] \in {keyCache[k], NoVerdict}  BY <1>2 DEF SweptCache
  <2> QED  BY <1>2, <1>3, <2>3, <2>4, SubmitStep DEF Entered
<1> QED  BY <1>4, <1>5, <1>6

LEMMA JoinFaith ==
  ASSUME Inv1, OnceInv, FaithInv, Kept, TypeOK', Submit, NEW c \in Commands, JoinInFlight(c)
  PROVE  FaithInv'
<1> PICK r : r = submitted + 1  OBVIOUS
<1>1. r \in Requests /\ stage[r] = "unsent" /\ cmd[r] = NoCommand /\ reply[r] = NoVerdict
  BY SubmitFacts
<1>2. PICK h \in FirstHits(c) : /\ h.how = "join" /\ FingerprintsMatch(c, h)
                                /\ waitsFor' = [waitsFor EXCEPT ![r] = h.found.src]
  BY DEF JoinInFlight
<1> DEFINE q == h.found.src
<1>3. /\ runtime = "up" /\ cmd' = [cmd EXCEPT ![r] = c]
      /\ stage' = [stage EXCEPT ![r] = "joined"]
      /\ keyCache' = SweptCache /\ UNCHANGED <<outcomes, inFlight, reply>>
  BY DEF JoinInFlight, Arrive, Sweep
<1>4. /\ q \in Requests /\ cmd[q] # NoCommand /\ stage[q] \in Entered /\ cmd[q].fp = c.fp
      /\ (IdOf(cmd[q]) \cap IdOf(c)) \cup (KeyOf(cmd[q]) \cap KeyOf(c)) # {}
  BY <1>2, <1>3, FoundFaith DEF FingerprintsMatch
<1>5. q # r  BY <1>1, <1>4
<1>6. cmd'[r] = c /\ cmd'[q] = cmd[q] /\ stage'[q] \in Entered /\ waitsFor'[r] = q
  BY <1>1, <1>2, <1>3, <1>4, <1>5 DEF Inv1, TypeOK
<1>7. MayCopy(r, waitsFor[r])'  BY <1>4, <1>6 DEF MayCopy, Shared
<1>8. \A k \in ScopedKeys : keyCache'[k] \in {keyCache[k], NoVerdict}  BY <1>3 DEF SweptCache
<1>9. stage'[r] = "joined" /\ ~Answered(r)'  BY <1>1, <1>3 DEF Answered, Inv1, TypeOK
<1> QED  BY <1>3, <1>6, <1>7, <1>8, <1>9, SubmitStep

LEMMA SubmitFaith ==
  ASSUME Inv1, OnceInv, FaithInv, Kept, TypeOK', Submit
  PROVE  FaithInv'
<1> PICK r : r = submitted + 1  OBVIOUS
<1>1. PICK c \in Commands :
         \/ RefuseShutdown(c) \/ AnswerConflict(c) \/ ReplayCached(c)
         \/ JoinInFlight(c) \/ RejectRateLimited(c) \/ RejectBusy(c)
         \/ AcceptNotJournaled(c) \/ Admit(c)
  BY DEF Submit
<1>2. r \in Requests /\ stage[r] = "unsent" /\ reply[r] = NoVerdict /\ c # NoCommand
  BY SubmitFacts, CommandFields
<1>3. CASE RefuseShutdown(c)
  <2>1. /\ cmd' = [cmd EXCEPT ![r] = c] /\ stage' = [stage EXCEPT ![r] = "closed"]
        /\ UNCHANGED <<outcomes, inFlight, keyCache>>
        /\ reply' = [reply EXCEPT ![r] = [src |-> r, kind |-> "refused"]]
    BY <1>3 DEF RefuseShutdown, Arrive, Close, storeVars
  <2>2. cmd'[r] = c /\ stage'[r] = "closed" /\ reply'[r].src = r
    BY <1>2, <2>1 DEF Inv1, TypeOK
  <2>3. Backed(reply[r])' /\ MayCopy(r, reply[r].src)'  BY <1>2, <2>2 DEF Backed, MayCopy
  <2> QED  BY <2>1, <2>2, <2>3, SubmitStep DEF Entered
<1>4. CASE AnswerConflict(c) \/ RejectRateLimited(c) \/ RejectBusy(c)
  BY <1>4, AnswerNowFaith DEF AnswerConflict, RejectRateLimited, RejectBusy
<1>5. CASE ReplayCached(c)
  <2>1. PICK h \in FirstHits(c) :
          h.how = "cached" /\ FingerprintsMatch(c, h) /\ AnswerNow(c, h.found)
    BY <1>5 DEF ReplayCached
  <2>2. /\ Backed(h.found) /\ cmd[h.found.src].fp = c.fp
        /\ (IdOf(cmd[h.found.src]) \cap IdOf(c)) \cup (KeyOf(cmd[h.found.src]) \cap KeyOf(c)) # {}
    BY <2>1, FoundFaith DEF FingerprintsMatch, AnswerNow
  <2> QED  BY <2>1, <2>2, AnswerNowFaith
<1>6. CASE JoinInFlight(c)  BY <1>6, JoinFaith
<1>7. CASE AcceptNotJournaled(c)
  <2> DEFINE v == [src |-> r, kind |-> "fail"]
  <2>1. Settle(r, c, SweptCache, {}, v) /\ cmd' = [cmd EXCEPT ![r] = c]
        /\ stage' = [stage EXCEPT ![r] = "closed"]
    BY <1>7 DEF AcceptNotJournaled, Arrive, Close
  <2>2. v \in Verdict  BY <1>2, VerdictFacts DEF Kinds
  <2>3. v.src = r /\ v.src # NoReq  BY <1>2 DEF Requests, NoReq
  <2> HIDE DEF v
  <2>4. cmd'[r] = c /\ stage'[r] = "closed" /\ reply'[r] = v
    BY <1>2, <2>1 DEF Settle, Inv1, TypeOK
  <2>5. Backed(v)' /\ Backed(reply[r])' /\ MayCopy(r, reply[r].src)'
    BY <1>2, <2>3, <2>4 DEF Backed, MayCopy
  <2>6. \A i \in Ids : outcomes'[i] \in {outcomes[i], NoVerdict} \/ (i = c.id /\ outcomes'[i] = v)
    BY <2>1, <2>2, <2>3, StoreKeeps DEF Settle, Inv1
  <2>7. \A i \in Ids : inFlight'[i] \in {inFlight[i], NoReq}
    BY <2>1 DEF Settle, Unregistered
  <2>8. \A k \in ScopedKeys : keyCache'[k] \in {keyCache[k], NoVerdict} \/ (k \in KeyOf(c) /\ keyCache'[k] = v)
    BY <2>1 DEF Settle, SweptCache
  <2>9. \A i \in Ids : i = c.id /\ outcomes'[i] = v =>
          Backed(outcomes[i])' /\ cmd'[outcomes'[i].src].id = i
    BY <2>3, <2>4, <2>5 DEF Backed
  <2>10. \A k \in ScopedKeys : k \in KeyOf(c) /\ keyCache'[k] = v =>
          Backed(keyCache[k])' /\ k \in KeyOf(cmd'[keyCache'[k].src])
    BY <2>3, <2>4, <2>5 DEF Backed
  <2> QED  BY <2>4, <2>5, <2>6, <2>7, <2>8, <2>9, <2>10, SubmitStep DEF Entered
<1>8. CASE Admit(c)
  <2>1. /\ cmd' = [cmd EXCEPT ![r] = c] /\ stage' = [stage EXCEPT ![r] = "queued"]
        /\ keyCache' = SweptCache /\ UNCHANGED <<outcomes, reply>>
        /\ inFlight' = [i \in Ids |-> IF i = c.id THEN r ELSE inFlight[i]]
    BY <1>8 DEF Admit, Arrive, Sweep
  <2>2. cmd'[r] = c /\ stage'[r] = "queued" /\ ~Answered(r)'
    BY <1>2, <2>1 DEF Answered, Inv1, TypeOK
  <2>3. \A k \in ScopedKeys : keyCache'[k] \in {keyCache[k], NoVerdict}  BY <2>1 DEF SweptCache
  <2>4. \A i \in Ids : inFlight'[i] = inFlight[i] \/ (cmd'[inFlight'[i]] # NoCommand /\ cmd'[inFlight'[i]].id = i)
    BY <1>2, <2>1, <2>2
  <2> QED  BY <2>1, <2>2, <2>3, <2>4, SubmitStep
<1> QED  BY <1>1, <1>3, <1>4, <1>5, <1>6, <1>7, <1>8

LEMMA NextFaith == Inv1 /\ OnceInv /\ FaithInv /\ [Next]_vars => FaithInv'
<1> SUFFICES ASSUME Inv1, OnceInv, FaithInv, [Next]_vars PROVE FaithInv'  OBVIOUS
<1>1. Kept  BY NextKeeps DEF FaithInv
<1>2. TypeOK'  BY NextInv1 DEF Inv1
<1>3. CASE Submit  BY <1>1, <1>2, <1>3, SubmitFaith
<1>4. CASE \E r \in Requests : AnswerResult(r) \/ AnswerTimeout(r)
  <2>1. PICK r \in Requests : AnswerResult(r) \/ AnswerTimeout(r)  BY <1>4
  <2>2. result[r] \in Kinds /\ "timeout" \in Kinds  BY DEF Inv1, TypeOK, Kinds
  <2> QED  BY <1>1, <1>2, <2>1, <2>2, ConcludeFaith DEF AnswerResult, AnswerTimeout
<1>5. CASE \E r \in Requests : AnswerJoined(r)  BY <1>1, <1>2, <1>5, JoinedFaith
<1>6. ASSUME UNCHANGED <<cmd, reply>>,
             \A i \in Ids : outcomes'[i] \in {outcomes[i], NoVerdict} /\ inFlight'[i] \in {inFlight[i], NoReq},
             \A k \in ScopedKeys : keyCache'[k] \in {keyCache[k], NoVerdict},
             \A r \in Requests : stage'[r] \in {"unsent", "joined"} =>
                                   stage'[r] = stage[r] /\ waitsFor'[r] = waitsFor[r]
      PROVE  FaithInv'
  <2>1. \A r \in Requests : Answered(r)' => Answered(r)  BY <1>6 DEF Answered
  <2>2. \A r \in Requests : reply'[r] = reply[r]  BY <1>6
  <2> QED  BY <1>1, <1>2, <1>6, <2>1, <2>2, FaithStep
<1>7. CASE \E r \in Requests : Task(r)
  <2>1. PICK r \in Requests : Task(r)  BY <1>7
  <2>2. /\ UNCHANGED <<cmd, reply, storeVars>>
        /\ \A q \in Requests : q # r => waitsFor'[q] = waitsFor[q]
        /\ \E s \in {"running", "waiting", "released"} : stage' = [stage EXCEPT ![r] = s]
    BY <2>1, TaskFacts DEF clientVars
  <2>3. \A q \in Requests : stage'[q] \in {"unsent", "joined"} => stage'[q] = stage[q] /\ q # r
    BY <2>2 DEF Inv1, TypeOK
  <2> QED  BY <1>6, <2>2, <2>3 DEF storeVars
<1>8. CASE (\E r \in Requests : CommandTimeout(r)) \/ (\E k \in ScopedKeys : KeyExpires(k))
           \/ InitiateShutdown \/ Quiescent \/ UNCHANGED vars
  <2>1. UNCHANGED <<cmd, reply, stage, waitsFor, outcomes, inFlight, keyCache>>
    BY <1>8 DEF CommandTimeout, KeyExpires, InitiateShutdown, Quiescent, vars, clientVars, laneVars,
                storeVars
  <2> QED  BY <1>6, <2>1
<1>9. CASE Dispose
  <2>1. /\ UNCHANGED <<cmd, reply, stage, waitsFor>>
        /\ outcomes' = [i \in Ids |-> NoVerdict] /\ inFlight' = [i \in Ids |-> NoReq]
        /\ keyCache' = [k \in ScopedKeys |-> NoVerdict]
    BY <1>9 DEF Dispose, clientVars
  <2> QED  BY <1>6, <2>1
<1> QED  BY <1>3, <1>4, <1>5, <1>7, <1>8, <1>9 DEF Next, Answer

LEMMA InitFaith == Init => FaithInv
BY DEF Init, FaithInv, Sourced, Following, Unanswered, Faithful, Answered

LEMMA SpecFaith == Spec => [](OnceInv /\ FaithInv)
<1>1. Init => OnceInv /\ FaithInv  BY InitOnce, InitFaith
<1>2. Inv1 /\ (OnceInv /\ FaithInv) /\ [Next]_vars => (OnceInv /\ FaithInv)'
  BY NextOnce, NextFaith
<1> QED  BY <1>1, <1>2, SpecInv1, PTL DEF Spec

\* A replayed response is the one its source returned, under the same fingerprint and a common
\* name, through every join, eviction, expiry and failing append.
THEOREM ReplayFaithfulHolds == Spec => []ReplayFaithful
<1>1. FaithInv => ReplayFaithful
  BY DEF FaithInv, Faithful, Backed, MayCopy, Shared, ReplayFaithful
<1> QED  BY <1>1, SpecFaith, PTL

-----------------------------------------------------------------------------
(* Dependencies *)

\* A command of id i was answered with success.
Succeeded(i) == \E q \in Requests : cmd[q] # NoCommand /\ cmd[q].id = i /\ reply[q].kind = "ok"

\* A waiting command awaits the holder of its next dependency, and those before it succeeded.
WaitsWell(r) ==
  stage[r] = "waiting" =>
    /\ depIdx[r] \in 1 .. Len(cmd[r].deps)
    /\ waitsFor[r] \in Requests
    /\ cmd[waitsFor[r]] # NoCommand /\ cmd[waitsFor[r]].id = cmd[r].deps[depIdx[r]]
    /\ \A j \in 1 .. (depIdx[r] - 1) : Succeeded(cmd[r].deps[j])

WaitsInOrder == \A r \in Requests : WaitsWell(r)

DepsDone(r) == \A j \in 1 .. Len(cmd[r].deps) : Succeeded(cmd[r].deps[j])

DepInv == WaitsInOrder /\ \A r \in ran : cmd[r] # NoCommand /\ DepsDone(r)

\* A dependency that awaitDependencies takes as met did succeed.
LEMMA MetSucceeded ==
  ASSUME Inv1, Sourced, NEW i \in Ids, DependencyMet(i)
  PROVE  Succeeded(i)
<1>1. outcomes[i] # NoVerdict /\ outcomes[i].kind = "ok"  BY DEF DependencyMet, NoVerdict
<1>2. Backed(outcomes[i]) /\ cmd[outcomes[i].src].id = i  BY <1>1 DEF Sourced
<1> QED  BY <1>1, <1>2 DEF Backed, Succeeded

\* What the loop of awaitDependencies leaves behind: only r changed, and r waits for the holder
\* of a dependency with those before it met, or runs with all of them met.
InOrder(r) ==
  /\ ran' \subseteq ran \cup {r}
  /\ \A q \in Requests : q # r =>
       stage'[q] = stage[q] /\ waitsFor'[q] = waitsFor[q] /\ depIdx'[q] = depIdx[q]
  /\ r \in ran' => r \in ran \/ DepsDone(r)
  /\ stage'[r] = "waiting" =>
       /\ depIdx'[r] \in 1 .. Len(cmd[r].deps)
       /\ waitsFor'[r] \in Requests
       /\ cmd[waitsFor'[r]] # NoCommand /\ cmd[waitsFor'[r]].id = cmd[r].deps[depIdx'[r]]
       /\ \A j \in 1 .. (depIdx'[r] - 1) : Succeeded(cmd[r].deps[j])

LEMMA ResolveInOrder ==
  ASSUME Inv1, Sourced, NEW r \in Requests, cmd[r] \in Commands, NEW n \in Nat \ {0},
         ResolveDependencies(r, n),
         \A j \in 1 .. Len(cmd[r].deps) : j < n => Succeeded(cmd[r].deps[j])
  PROVE  InOrder(r)
<1> DEFINE deps == cmd[r].deps
<1>1. Len(deps) \in Nat /\ \A j \in 1 .. Len(deps) : deps[j] \in Ids  BY CommandFields
<1>2. ASSUME NEW j \in 1 .. Len(deps), \A m \in n .. j : DependencyMet(deps[m])
      PROVE  Succeeded(deps[j])
  <2>1. CASE j < n  BY <2>1
  <2>2. CASE j >= n
    <3>1. j \in n .. j  BY <1>1, <2>2
    <3>2. DependencyMet(deps[j]) /\ deps[j] \in Ids  BY <1>1, <1>2, <3>1
    <3> QED  BY <3>2, MetSucceeded
  <2> QED  BY <1>1, <2>1, <2>2
<1>3. CASE /\ \A j \in n .. Len(deps) : DependencyMet(deps[j])
           /\ EnterBody(r)
           /\ UNCHANGED <<laneTail, waitsFor, depIdx, race, result>>
  <2>1. DepsDone(r)
    <3>1. ASSUME NEW j \in 1 .. Len(deps) PROVE Succeeded(deps[j])
      <4>1. \A m \in n .. j : m \in n .. Len(deps)  BY <1>1
      <4> QED  BY <1>2, <1>3, <4>1
    <3> QED  BY <3>1 DEF DepsDone
  <2>2. /\ ran' = ran \cup {r} /\ stage' = [stage EXCEPT ![r] = "running"]
        /\ UNCHANGED <<waitsFor, depIdx>>
    BY <1>3 DEF EnterBody
  <2> QED  BY <2>1, <2>2 DEF InOrder, Inv1, TypeOK
<1>4. CASE /\ CompleteTask(r, "fail") /\ UNCHANGED <<waitsFor, depIdx, ran>>
  BY <1>4 DEF CompleteTask, InOrder, Inv1, TypeOK
<1>5. ASSUME NEW j \in n .. Len(deps),
             \A m \in n .. (j - 1) : DependencyMet(deps[m]),
             inFlight[deps[j]] \in Requests,
             stage' = [stage EXCEPT ![r] = "waiting"],
             waitsFor' = [waitsFor EXCEPT ![r] = inFlight[deps[j]]],
             depIdx' = [depIdx EXCEPT ![r] = j], ran' = ran
      PROVE  InOrder(r)
  <2>1. j \in 1 .. Len(deps) /\ deps[j] \in Ids  BY <1>1, <1>5
  <2>2. cmd[inFlight[deps[j]]] # NoCommand /\ cmd[inFlight[deps[j]]].id = deps[j]
    BY <1>5, <2>1 DEF Sourced, NoReq, Requests
  <2>3. ASSUME NEW m \in 1 .. (j - 1) PROVE Succeeded(deps[m])
    <3>1. m \in 1 .. Len(deps) /\ \A k \in n .. m : k \in n .. (j - 1)  BY <1>1, <2>1
    <3> QED  BY <1>2, <1>5, <3>1
  <2>4. stage'[r] = "waiting" /\ waitsFor'[r] = inFlight[deps[j]] /\ depIdx'[r] = j
    BY <1>5 DEF Inv1, TypeOK
  <2>5. \A q \in Requests : q # r =>
          stage'[q] = stage[q] /\ waitsFor'[q] = waitsFor[q] /\ depIdx'[q] = depIdx[q]
    BY <1>5 DEF Inv1, TypeOK
  <2> QED  BY <1>5, <2>1, <2>2, <2>3, <2>4, <2>5 DEF InOrder
<1>6. QED  BY <1>3, <1>4, <1>5 DEF ResolveDependencies

\* A step of a lane task resolves its dependencies in order.
LEMMA TaskInOrder ==
  ASSUME Inv1, Sourced, DepInv, NEW r \in Requests, Task(r)
  PROVE  InOrder(r)
<1>1. cmd[r] \in Commands
  BY SubmittedHasCommand DEF Task, StartTask, DependencySettled, DependencyTimeout, FinishBody
<1>2. Len(cmd[r].deps) \in Nat  BY <1>1, CommandFields
<1>3. CASE \E k : CompleteTask(r, k) /\ UNCHANGED <<waitsFor, depIdx, ran>>
  BY <1>3 DEF CompleteTask, InOrder, Inv1, TypeOK
<1>4. CASE ResolveDependencies(r, 1)
  <2>1. \A j \in 1 .. Len(cmd[r].deps) : ~(j < 1)  BY <1>2
  <2> QED  BY <1>1, <1>4, <2>1, ResolveInOrder
<1>5. CASE /\ stage[r] = "waiting" /\ reply[waitsFor[r]].kind = "ok"
           /\ ResolveDependencies(r, depIdx[r] + 1)
  <2>1. /\ depIdx[r] \in 1 .. Len(cmd[r].deps) /\ waitsFor[r] \in Requests
        /\ cmd[waitsFor[r]] # NoCommand /\ cmd[waitsFor[r]].id = cmd[r].deps[depIdx[r]]
        /\ \A j \in 1 .. (depIdx[r] - 1) : Succeeded(cmd[r].deps[j])
    BY <1>5 DEF DepInv, WaitsInOrder, WaitsWell
  <2>2. Succeeded(cmd[r].deps[depIdx[r]])  BY <1>5, <2>1 DEF Succeeded
  <2>3. ASSUME NEW j \in 1 .. Len(cmd[r].deps), j < depIdx[r] + 1
        PROVE  Succeeded(cmd[r].deps[j])
    <3>1. j \in 1 .. (depIdx[r] - 1) \/ j = depIdx[r]  BY <1>2, <2>1, <2>3
    <3> QED  BY <2>1, <2>2, <3>1
  <2>4. depIdx[r] + 1 \in Nat \ {0}  BY <1>2, <2>1
  <2> QED  BY <1>1, <1>5, <2>3, <2>4, ResolveInOrder
<1> QED
  BY <1>3, <1>4, <1>5 DEF Task, StartTask, DependencySettled, DependencyTimeout, FinishBody

LEMMA NextDeps ==
  ASSUME Inv1, Inv1', Sourced, Unanswered, DepInv, [Next]_vars
  PROVE  DepInv'
<1>1. Kept  BY NextKeeps
<1>2. \A i : Succeeded(i) => Succeeded(i)'
  BY <1>1 DEF Kept, Succeeded, Answered, NoVerdict
<1>3. ASSUME NEW r \in Requests, cmd[r] # NoCommand PROVE cmd'[r] = cmd[r]  BY <1>1, <1>3 DEF Kept
<1>4. ASSUME NEW r \in Requests, stage[r] = "waiting", WaitsWell(r),
             stage'[r] = "waiting", waitsFor'[r] = waitsFor[r], depIdx'[r] = depIdx[r]
      PROVE  WaitsWell(r)'
  <2>1. cmd[r] # NoCommand  BY <1>4, SubmittedHasCommand
  <2>2. cmd'[r] = cmd[r] /\ cmd'[waitsFor[r]] = cmd[waitsFor[r]]
    BY <1>3, <1>4, <2>1 DEF WaitsWell
  <2> QED  BY <1>2, <1>4, <2>2 DEF WaitsWell
<1>5. ASSUME NEW r \in ran PROVE cmd'[r] # NoCommand /\ DepsDone(r)'
  <2>1. r \in Requests /\ cmd[r] # NoCommand /\ DepsDone(r)  BY DEF DepInv, Inv1, TypeOK
  <2>2. cmd'[r] = cmd[r]  BY <1>3, <2>1
  <2> QED  BY <1>2, <2>1, <2>2 DEF DepsDone
<1>6. CASE \E r \in Requests : Task(r)
  <2>1. PICK r \in Requests : Task(r)  BY <1>6
  <2>2. InOrder(r)  BY <2>1, TaskInOrder
  <2>3. cmd[r] # NoCommand /\ UNCHANGED <<cmd, reply>>
    <3>1. stage[r] # "unsent" /\ UNCHANGED <<cmd, reply>>  BY <2>1, TaskFacts DEF clientVars
    <3> QED  BY <3>1, SubmittedHasCommand
  <2>4. ASSUME NEW q \in ran' PROVE cmd'[q] # NoCommand /\ DepsDone(q)'
    <3>1. CASE q \in ran  BY <1>5, <3>1
    <3>2. CASE q \notin ran
      <4>1. q = r /\ DepsDone(r)  BY <2>2, <2>4, <3>2 DEF InOrder
      <4> QED  BY <1>2, <2>3, <4>1 DEF DepsDone
    <3> QED  BY <3>1, <3>2
  <2>5. ASSUME NEW q \in Requests, stage'[q] = "waiting" PROVE WaitsWell(q)'
    <3>1. CASE q = r
      BY <1>2, <2>2, <2>3, <2>5, <3>1 DEF InOrder, WaitsWell
    <3>2. CASE q # r
      <4>1. stage[q] = "waiting" /\ waitsFor'[q] = waitsFor[q] /\ depIdx'[q] = depIdx[q]
        BY <2>2, <2>5, <3>2 DEF InOrder
      <4> QED  BY <1>4, <2>5, <4>1 DEF DepInv, WaitsInOrder
    <3> QED  BY <3>1, <3>2
  <2> QED  BY <2>4, <2>5 DEF DepInv, WaitsInOrder, WaitsWell
<1>7. CASE ~\E r \in Requests : Task(r)
  <2>1. ran' = ran /\ \A q \in Requests : stage'[q] = "waiting" =>
          stage[q] = "waiting" /\ waitsFor'[q] = waitsFor[q] /\ depIdx'[q] = depIdx[q]
    <3>1. CASE Submit  BY <3>1, SubmitFacts DEF Inv1, TypeOK
    <3>2. CASE \E r \in Requests : Answer(r)
      BY <3>2 DEF Answer, CommandTimeout, AnswerResult, AnswerTimeout, AnswerJoined, Conclude,
                  Close, laneVars, Inv1, TypeOK
    <3>3. CASE \/ (\E k \in ScopedKeys : KeyExpires(k)) \/ InitiateShutdown \/ Dispose
               \/ Quiescent \/ UNCHANGED vars
      BY <3>3 DEF KeyExpires, InitiateShutdown, Dispose, Quiescent, vars, laneVars
    <3> QED  BY <1>7, <3>1, <3>2, <3>3 DEF Next
  <2>2. ASSUME NEW q \in Requests, stage'[q] = "waiting" PROVE WaitsWell(q)'
    BY <1>4, <2>1, <2>2 DEF DepInv, WaitsInOrder
  <2> QED  BY <1>5, <2>1, <2>2 DEF DepInv, WaitsInOrder, WaitsWell
<1> QED  BY <1>6, <1>7

\* awaitDependencies never lets a body begin before each command it depends on was answered with
\* success: an in-flight holder, a stored outcome that is evicted meanwhile, a timeout of either
\* side and a disposal in the middle of the wait all end in success of the dependency or no body.
THEOREM DependenciesHonouredHolds == Spec => []DependenciesHonoured
<1>1. Init => DepInv  BY DEF Init, DepInv, WaitsInOrder, WaitsWell
<1>2. Inv1 /\ Inv1' /\ FaithInv /\ DepInv /\ [Next]_vars => DepInv'
  BY NextDeps DEF FaithInv
<1>3. DepInv => DependenciesHonoured
  BY DEF DepInv, DepsDone, Succeeded, DependenciesHonoured
<1> QED  BY <1>1, <1>2, <1>3, SpecInv1, SpecFaith, PTL DEF Spec

-----------------------------------------------------------------------------
(* The limits of the replay store *)

Distinct(s) == \A m, n \in 1 .. Len(s) : s[m] = s[n] => m = n

\* The queue of outcomes lists each stored outcome once, within the limit.
QueueInv ==
  /\ Len(outcomeOrder) <= MaxOutcomes /\ Distinct(outcomeOrder)
  /\ \A i \in Ids : outcomes[i] # NoVerdict <=> \E n \in 1 .. Len(outcomeOrder) : outcomeOrder[n] = i

HeldIds == {i \in Ids : inFlight[i] # NoReq}

\* Ids may be infinite, so the finiteness of the table is part of its limit.
FlightInv == IsFiniteSet(HeldIds) /\ Cardinality(HeldIds) <= MaxInFlight

\* Appending a value that is not there.
LEMMA AppendDistinct ==
  ASSUME NEW S, NEW s \in Seq(S), Distinct(s), NEW x \in S, \A n \in 1 .. Len(s) : s[n] # x
  PROVE  /\ Distinct(s \o <<x>>) /\ Len(s \o <<x>>) = Len(s) + 1
         /\ \A y \in S : (\E n \in 1 .. Len(s \o <<x>>) : (s \o <<x>>)[n] = y)
                           <=> (y = x \/ \E n \in 1 .. Len(s) : s[n] = y)
<1> DEFINE t == s \o <<x>>
<1>1. /\ Len(s) \in Nat /\ Len(t) = Len(s) + 1
      /\ \A n \in 1 .. Len(s) : t[n] = s[n]
      /\ t[Len(s) + 1] = x
  OBVIOUS
<1> HIDE DEF t
<1>2. Distinct(t)  BY <1>1 DEF Distinct
<1>3. \A y \in S : (\E n \in 1 .. Len(t) : t[n] = y) <=> (y = x \/ \E n \in 1 .. Len(s) : s[n] = y)
  BY <1>1
<1> QED  BY <1>1, <1>2, <1>3 DEF t

\* Dropping the first of distinct values.
LEMMA TailDistinct ==
  ASSUME NEW S, NEW s \in Seq(S), Distinct(s), Len(s) > 0
  PROVE  /\ Distinct(Tail(s)) /\ Len(Tail(s)) = Len(s) - 1 /\ Head(s) \in S
         /\ \A y \in S : (\E n \in 1 .. Len(Tail(s)) : Tail(s)[n] = y)
                           <=> (y # Head(s) /\ \E n \in 1 .. Len(s) : s[n] = y)
<1> DEFINE t == Tail(s)
<1>1. /\ Len(s) \in Nat /\ Len(t) = Len(s) - 1 /\ Head(s) = s[1] /\ s[1] \in S
      /\ \A n \in 1 .. Len(t) : t[n] = s[n + 1]
  OBVIOUS
<1> HIDE DEF t
<1>2. Distinct(t)  BY <1>1 DEF Distinct
<1>3. ASSUME NEW y \in S
      PROVE  (\E n \in 1 .. Len(t) : t[n] = y) <=> (y # Head(s) /\ \E n \in 1 .. Len(s) : s[n] = y)
  <2>1. ASSUME NEW n \in 1 .. Len(t), t[n] = y
        PROVE  y # Head(s) /\ \E m \in 1 .. Len(s) : s[m] = y
    <3>1. n + 1 \in 1 .. Len(s) /\ 1 \in 1 .. Len(s) /\ n + 1 # 1 /\ s[n + 1] = y
      BY <1>1, <2>1
    <3> QED  BY <1>1, <3>1 DEF Distinct
  <2>2. ASSUME NEW n \in 1 .. Len(s), s[n] = y, y # Head(s)
        PROVE  \E m \in 1 .. Len(t) : t[m] = y
    <3>1. n - 1 \in 1 .. Len(t) /\ t[n - 1] = s[n]  BY <1>1, <2>2
    <3> QED  BY <2>2, <3>1
  <2> QED  BY <2>1, <2>2
<1> QED  BY <1>1, <1>2, <1>3 DEF t

\* storeCommandOutcome and trimCommandOutcomes keep the queue and the map in step.
LEMMA StoreQueue ==
  ASSUME TypeOK, QueueInv, NEW c \in Commands, NEW v, v # NoVerdict, StoreOutcome(c, v)
  PROVE  QueueInv'
<1> DEFINE new   == c.id # NoId /\ outcomes[c.id] = NoVerdict
           order == outcomeOrder \o (IF c.id = NoId \/ outcomes[c.id] # NoVerdict
                                     THEN <<>> ELSE <<c.id>>)
<1>1. /\ outcomes' = [i \in Ids |-> IF i \in Overflow(order) THEN NoVerdict
                                    ELSE IF i = c.id THEN v ELSE outcomes[i]]
      /\ outcomeOrder' = IF Overflow(order) = {} THEN order ELSE Tail(order)
  BY DEF StoreOutcome, RecordOutcome
<1>2. /\ outcomeOrder \in Seq(Ids) /\ c.id \in Ids \cup {NoId} /\ NoId \notin Ids
      /\ MaxOutcomes \in Nat \ {0}
  BY CommandFields, ConstantsAssumption DEF TypeOK
<1>3. /\ order \in Seq(Ids) /\ Distinct(order)
      /\ Len(order) <= MaxOutcomes + 1
      /\ \A i \in Ids : (\E n \in 1 .. Len(order) : order[n] = i)
                          <=> (i = c.id \/ outcomes[i] # NoVerdict)
  <2>1. CASE new
    <3>1. order = outcomeOrder \o <<c.id>> /\ c.id \in Ids  BY <1>2, <2>1
    <3>2. \A n \in 1 .. Len(outcomeOrder) : outcomeOrder[n] # c.id  BY <2>1, <3>1 DEF QueueInv
    <3>3. /\ Distinct(order) /\ Len(order) = Len(outcomeOrder) + 1
          /\ \A i \in Ids : (\E n \in 1 .. Len(order) : order[n] = i)
                              <=> (i = c.id \/ \E n \in 1 .. Len(outcomeOrder) : outcomeOrder[n] = i)
      BY <1>2, <3>1, <3>2, AppendDistinct DEF QueueInv
    <3>4. order \in Seq(Ids)  BY <1>2, <3>1
    <3> HIDE DEF order
    <3> QED  BY <1>2, <3>3, <3>4 DEF QueueInv
  <2>2. CASE ~new
    <3>1. order = outcomeOrder  BY <1>2, <2>2
    <3> HIDE DEF order
    <3> QED  BY <1>2, <2>2, <3>1 DEF QueueInv
  <2> QED  BY <2>1, <2>2
<1> HIDE DEF order
<1>4. CASE Overflow(order) = {}
  <2>1. Len(order) <= MaxOutcomes
    <3>1. ~(Len(order) > MaxOutcomes)  BY <1>4 DEF Overflow
    <3>2. Len(order) \in Nat /\ MaxOutcomes \in Nat  BY <1>2, <1>3
    <3> QED  BY <3>1, <3>2
  <2>2. outcomeOrder' = order  BY <1>1, <1>4
  <2>3. \A i \in Ids : outcomes'[i] # NoVerdict <=> (i = c.id \/ outcomes[i] # NoVerdict)
    BY <1>1, <1>4
  <2> QED  BY <1>3, <2>1, <2>2, <2>3 DEF QueueInv, Distinct
<1>5. CASE Overflow(order) # {}
  <2>1. Overflow(order) = {Head(order)} /\ Len(order) > MaxOutcomes  BY <1>5 DEF Overflow
  <2>2. outcomeOrder' = Tail(order) /\ Len(order) > 0
    <3>1. Len(order) \in Nat /\ MaxOutcomes \in Nat  BY <1>2, <1>3
    <3>2. Len(order) > 0  BY <2>1, <3>1
    <3> QED  BY <1>1, <1>5, <3>2
  <2>3. /\ Distinct(Tail(order)) /\ Len(Tail(order)) = Len(order) - 1
        /\ \A y \in Ids : (\E n \in 1 .. Len(Tail(order)) : Tail(order)[n] = y)
                            <=> (y # Head(order) /\ \E n \in 1 .. Len(order) : order[n] = y)
    <3>1. order \in Seq(Ids) /\ Distinct(order) /\ Len(order) > 0  BY <1>3, <2>2
    <3> QED  BY ONLY <3>1, TailDistinct, Zenon
  <2>4. \A i \in Ids : outcomes'[i] # NoVerdict
                         <=> (i # Head(order) /\ (i = c.id \/ outcomes[i] # NoVerdict))
    BY <1>1, <2>1
  <2>5. Len(outcomeOrder') <= MaxOutcomes  BY <1>2, <1>3, <2>2, <2>3
  <2> QED  BY <1>3, <2>2, <2>3, <2>4, <2>5 DEF QueueInv, Distinct
<1> QED  BY <1>4, <1>5

\* The table shrinks, or takes one id while it is below its limit.
LEMMA FlightStep ==
  ASSUME FlightInv,
         \/ HeldIds' \subseteq HeldIds
         \/ \E x : HeldIds' \subseteq HeldIds \cup {x} /\ Cardinality(HeldIds) < MaxInFlight
  PROVE  FlightInv'
<1>1. Cardinality(HeldIds) \in Nat /\ MaxInFlight \in Nat
  BY FS_CardinalityType, ConstantsAssumption DEF FlightInv
<1>2. CASE HeldIds' \subseteq HeldIds
  <2>1. IsFiniteSet(HeldIds') /\ Cardinality(HeldIds') <= Cardinality(HeldIds)
    BY <1>2, FS_Subset DEF FlightInv
  <2>2. Cardinality(HeldIds') \in Nat  BY <2>1, FS_CardinalityType
  <2> QED  BY <1>1, <2>1, <2>2 DEF FlightInv
<1>3. ASSUME NEW x, HeldIds' \subseteq HeldIds \cup {x}, Cardinality(HeldIds) < MaxInFlight
      PROVE  FlightInv'
  <2> DEFINE more == HeldIds \cup {x}
  <2>1. /\ IsFiniteSet(more) /\ Cardinality(more) \in Nat
        /\ Cardinality(more) = IF x \in HeldIds THEN Cardinality(HeldIds) ELSE Cardinality(HeldIds) + 1
    BY FS_AddElement, FS_CardinalityType DEF FlightInv
  <2>2. Cardinality(more) <= MaxInFlight  BY <1>1, <1>3, <2>1
  <2> HIDE DEF more
  <2>3. HeldIds' \subseteq more  BY <1>3 DEF more
  <2>4. IsFiniteSet(HeldIds') /\ Cardinality(HeldIds') <= Cardinality(more)
    BY <2>1, <2>3, FS_Subset
  <2>5. Cardinality(HeldIds') \in Nat  BY <2>4, FS_CardinalityType
  <2> QED  BY <1>1, <2>1, <2>2, <2>4, <2>5 DEF FlightInv
<1> QED  BY <1>2, <1>3

\* Settling a request stores its answer and only gives names back.
LEMMA SettleBounded ==
  ASSUME TypeOK, QueueInv, FlightInv, NEW r \in Requests, NEW c \in Commands, NEW cache,
         NEW expired, NEW v, v # NoVerdict, Settle(r, c, cache, expired, v)
  PROVE  QueueInv' /\ FlightInv'
<1>1. StoreOutcome(c, v) /\ inFlight' = [x \in Ids |-> IF inFlight[x] = r THEN NoReq ELSE inFlight[x]]
  BY DEF Settle, Unregistered
<1>2. HeldIds' \subseteq HeldIds  BY <1>1 DEF HeldIds
<1> QED  BY <1>1, <1>2, StoreQueue, FlightStep

LEMMA SubmitBounded ==
  ASSUME Inv1, QueueInv, FlightInv, Submit
  PROVE  QueueInv' /\ FlightInv'
<1>1. PICK c \in Commands :
        \/ RefuseShutdown(c) \/ (\E v : AnswerNow(c, v)) \/ JoinInFlight(c)
        \/ AcceptNotJournaled(c) \/ Admit(c)
  BY DEF Submit, AnswerConflict, ReplayCached, RejectRateLimited, RejectBusy
<1>2. CASE RefuseShutdown(c) \/ (\E v : AnswerNow(c, v)) \/ JoinInFlight(c)
  <2>1. UNCHANGED <<inFlight, outcomes, outcomeOrder>>
    BY <1>2 DEF RefuseShutdown, AnswerNow, JoinInFlight, storeVars
  <2> QED  BY <2>1 DEF QueueInv, FlightInv, HeldIds
<1>3. CASE AcceptNotJournaled(c)
  <2> DEFINE r == submitted + 1
  <2>1. r \in Requests  BY <1>3, ArriveType DEF Inv1, AcceptNotJournaled, Arrive
  <2>2. Settle(r, c, SweptCache, {}, [src |-> r, kind |-> "fail"])  BY <1>3 DEF AcceptNotJournaled
  <2>3. [src |-> r, kind |-> "fail"] # NoVerdict  BY DEF NoVerdict
  <2> HIDE DEF r
  <2> QED  BY <2>1, <2>2, <2>3, SettleBounded DEF Inv1
<1>4. CASE Admit(c)
  <2>1. /\ inFlight' = [i \in Ids |-> IF i = c.id THEN submitted + 1 ELSE inFlight[i]]
        /\ UNCHANGED <<outcomes, outcomeOrder>> /\ (c.id # NoId => ~InFlightFull)
    BY <1>4 DEF Admit, Admissible
  <2>2. CASE c.id = NoId
    <3>1. HeldIds' \subseteq HeldIds  BY <2>1, <2>2, ConstantsAssumption DEF HeldIds
    <3> QED  BY <2>1, <3>1, FlightStep DEF QueueInv
  <2>3. CASE c.id # NoId
    <3>1. HeldIds' \subseteq HeldIds \cup {c.id}  BY <2>1 DEF HeldIds
    <3>2. Cardinality(HeldIds) < MaxInFlight
      <4>1. ~(Cardinality(HeldIds) >= MaxInFlight)  BY <2>1, <2>3 DEF InFlightFull, HeldIds
      <4>2. Cardinality(HeldIds) \in Nat /\ MaxInFlight \in Nat
        BY FS_CardinalityType, ConstantsAssumption DEF FlightInv
      <4> QED  BY <4>1, <4>2
    <3> QED  BY <2>1, <3>1, <3>2, FlightStep DEF QueueInv
  <2> QED  BY <2>2, <2>3
<1> QED  BY <1>1, <1>2, <1>3, <1>4

LEMMA NextBounded == Inv1 /\ QueueInv /\ FlightInv /\ [Next]_vars => (QueueInv /\ FlightInv)'
<1> SUFFICES ASSUME Inv1, QueueInv, FlightInv, [Next]_vars PROVE QueueInv' /\ FlightInv'  OBVIOUS
<1>1. CASE Submit  BY <1>1, SubmitBounded
<1>2. CASE \E r \in Requests : AnswerResult(r) \/ AnswerTimeout(r)
  <2>1. PICK r \in Requests, k \in Kinds : Pending(r) /\ Conclude(r, k)
    BY <1>2 DEF AnswerResult, AnswerTimeout, Inv1, TypeOK, Kinds
  <2>2. PICK v \in FinalVerdicts(r, [src |-> r, kind |-> k]) :
          Settle(r, cmd[r], keyCache, keyExpired, v)
    BY <2>1 DEF Conclude
  <2>3. v # NoVerdict /\ cmd[r] \in Commands
    BY <2>1, <2>2, FinalSource, SubmittedHasCommand DEF Pending, Entered
  <2> QED  BY <2>2, <2>3, SettleBounded DEF Inv1
<1>3. CASE Dispose
  <2>1. /\ inFlight' = [i \in Ids |-> NoReq] /\ outcomes' = [i \in Ids |-> NoVerdict]
        /\ outcomeOrder' = <<>>
    BY <1>3 DEF Dispose
  <2>2. HeldIds' \subseteq HeldIds  BY <2>1 DEF HeldIds
  <2>3. QueueInv'  BY <2>1, ConstantsAssumption DEF QueueInv, Distinct
  <2> QED  BY <2>2, <2>3, FlightStep
<1>4. CASE UNCHANGED <<inFlight, outcomes, outcomeOrder>>
  BY <1>4 DEF QueueInv, FlightInv, HeldIds
<1>5. CASE \E r \in Requests : Task(r) \/ CommandTimeout(r) \/ AnswerJoined(r)
  <2>1. UNCHANGED <<inFlight, outcomes, outcomeOrder>>
    BY <1>5, TaskFacts DEF CommandTimeout, AnswerJoined, storeVars
  <2> QED  BY <1>4, <2>1
<1>6. CASE (\E k \in ScopedKeys : KeyExpires(k)) \/ InitiateShutdown \/ Quiescent \/ UNCHANGED vars
  BY <1>4, <1>6 DEF KeyExpires, InitiateShutdown, Quiescent, vars, storeVars
<1> QED  BY <1>1, <1>2, <1>3, <1>5, <1>6 DEF Next, Answer

LEMMA SpecBounded == Spec => [](QueueInv /\ FlightInv)
<1>1. Init => QueueInv /\ FlightInv
  <2> SUFFICES ASSUME Init PROVE QueueInv /\ FlightInv  OBVIOUS
  <2>1. HeldIds = {}  BY DEF Init, HeldIds
  <2>2. FlightInv  BY <2>1, FS_EmptySet, ConstantsAssumption DEF FlightInv
  <2>3. QueueInv  BY ConstantsAssumption DEF Init, QueueInv, Distinct
  <2> QED  BY <2>2, <2>3
<1> QED  BY <1>1, NextBounded, SpecInv1, PTL DEF Spec

\* CommandReplayStore keeps its queue and its map in step and both tables within their limits:
\* trimming after every stored outcome, and the check of the in-flight limit in the same turn as
\* the registration, are enough whatever the number of ids in use.
THEOREM StoreBoundedHolds == Spec => []StoreBounded
<1>1. QueueInv /\ FlightInv => StoreBounded
  BY DEF QueueInv, FlightInv, HeldIds, Distinct, StoreBounded
<1> QED  BY <1>1, SpecBounded, PTL

-----------------------------------------------------------------------------
(***************************************************************************)
(* What is final, and the contract.  Both need that a name belongs to one  *)
(* execution at a time: while it is pending nothing is stored under its    *)
(* names, and nobody else pending has one of them, disposal or not.        *)
(***************************************************************************)

Alone == \A q, r \in Requests : Pending(q) /\ Pending(r) /\ q # r => Shared(q, r) = {}

Fresh ==
  \A r \in Requests : Pending(r) =>
    /\ \A i \in IdOf(cmd[r]) : outcomes[i] = NoVerdict
    /\ \A k \in KeyOf(cmd[r]) : keyCache[k] = NoVerdict

\* Disposal empties the in-flight tables, and nobody is admitted after it.
Cleared ==
  runtime = "disposed" =>
    (\A i \in Ids : inFlight[i] = NoReq) /\ (\A k \in ScopedKeys : keyInFlight[k] = NoReq)

\* What a lane task returns.
Returned == {"ok", "fail", "cancelled"}
Resulted == \A r \in Requests : race[r] = "result" => result[r] \in Returned

NamesInv == Alone /\ Fresh /\ Cleared /\ Resulted

LEMMA RequestIsNot0 == ASSUME NEW r \in Requests PROVE r # NoReq
BY DEF Requests, NoReq

\* Who is registered is pending, under a name of his that holds no answer.
LEMMA Registered ==
  ASSUME Inv1, OnceInv, NamesInv
  PROVE  /\ \A i \in Ids : inFlight[i] # NoReq =>
              /\ inFlight[i] \in Requests /\ Pending(inFlight[i]) /\ i \in IdOf(cmd[inFlight[i]])
              /\ outcomes[i] = NoVerdict
         /\ \A k \in ScopedKeys : keyInFlight[k] # NoReq =>
              /\ keyInFlight[k] \in Requests /\ Pending(keyInFlight[k])
              /\ k \in KeyOf(cmd[keyInFlight[k]]) /\ keyCache[k] = NoVerdict
<1>1. ASSUME NEW i \in Ids, inFlight[i] # NoReq
      PROVE  /\ inFlight[i] \in Requests /\ Pending(inFlight[i]) /\ i \in IdOf(cmd[inFlight[i]])
             /\ outcomes[i] = NoVerdict
  <2>1. inFlight[i] \in Requests /\ runtime # "disposed"  BY <1>1 DEF NamesInv, Cleared, Inv1, TypeOK
  <2>2. Pending(inFlight[i]) /\ cmd[inFlight[i]].id = i  BY <2>1 DEF OnceInv, InFlightAccurate
  <2>3. i \in IdOf(cmd[inFlight[i]])  BY <2>2, ConstantsAssumption DEF IdOf
  <2> QED  BY <2>1, <2>2, <2>3 DEF NamesInv, Fresh
<1>2. ASSUME NEW k \in ScopedKeys, keyInFlight[k] # NoReq
      PROVE  /\ keyInFlight[k] \in Requests /\ Pending(keyInFlight[k])
             /\ k \in KeyOf(cmd[keyInFlight[k]]) /\ keyCache[k] = NoVerdict
  <2>1. keyInFlight[k] \in Requests /\ runtime # "disposed"
    BY <1>2 DEF NamesInv, Cleared, Inv1, TypeOK
  <2>2. Pending(keyInFlight[k]) /\ k \in KeyOf(cmd[keyInFlight[k]])
    BY <2>1 DEF OnceInv, InFlightAccurate
  <2> QED  BY <2>1, <2>2 DEF NamesInv, Fresh
<1> QED  BY <1>1, <1>2

LEMMA PendingNames ==
  ASSUME Inv1, NEW r \in Requests, Pending(r)
  PROVE  /\ cmd[r] \in Commands /\ cmd[r] # NoCommand /\ r <= submitted
         /\ IdOf(cmd[r]) \subseteq Ids /\ KeyOf(cmd[r]) \subseteq ScopedKeys
BY EnteredSubmitted, SubmittedHasCommand, NamesOf DEF Pending, Entered

\* A step that admits nobody keeps the names apart if it stores nothing under those of others.
LEMMA NamesStep ==
  ASSUME Inv1, NamesInv, Cleared', Resulted',
         \A q \in Requests : Pending(q)' =>
           /\ Pending(q) /\ cmd'[q] = cmd[q]
           /\ \A i \in IdOf(cmd[q]) : outcomes'[i] \in {outcomes[i], NoVerdict}
           /\ \A k \in KeyOf(cmd[q]) : keyCache'[k] \in {keyCache[k], NoVerdict}
  PROVE  NamesInv'
<1>1. Alone'  BY DEF NamesInv, Alone, Shared
<1>2. Fresh'
  <2> SUFFICES ASSUME NEW r \in Requests, Pending(r)'
               PROVE  /\ \A i \in IdOf(cmd'[r]) : outcomes'[i] = NoVerdict
                      /\ \A k \in KeyOf(cmd'[r]) : keyCache'[k] = NoVerdict
    BY DEF Fresh
  <2>1. Pending(r) /\ cmd'[r] = cmd[r]  OBVIOUS
  <2> QED  BY <2>1 DEF NamesInv, Fresh
<1> QED  BY <1>1, <1>2 DEF NamesInv

LEMMA StoredHasSource ==
  ASSUME FaithInv
  PROVE  /\ \A i \in Ids : outcomes[i].src = NoReq => outcomes[i] = NoVerdict
         /\ \A k \in ScopedKeys : keyCache[k].src = NoReq => keyCache[k] = NoVerdict
BY RequestIsNot0 DEF FaithInv, Sourced, Backed

LEMMA AdmitNames ==
  ASSUME Inv1, OnceInv, FaithInv, NamesInv, NEW c \in Commands, Admit(c)
  PROVE  NamesInv'
<1> PICK r : r = submitted + 1  OBVIOUS
<1>1. /\ r \in Requests /\ stage[r] = "unsent" /\ reply[r] = NoVerdict /\ r # NoReq
      /\ cmd' = [cmd EXCEPT ![r] = c] /\ UNCHANGED <<race, result, runtime>>
  <2>1. Submit  BY DEF Submit
  <2>2. Arrive(c)  BY DEF Admit
  <2> QED  BY <2>1, <2>2, SubmitFacts, RequestIsNot0 DEF Arrive
<1>2. /\ runtime = "up" /\ Hits(c) = {} /\ UNCHANGED <<reply, outcomes>>
      /\ stage' = [stage EXCEPT ![r] = "queued"] /\ keyCache' = SweptCache
  BY DEF Admit, Admissible, Sweep
<1>3. \A q \in Requests : q # r => cmd'[q] = cmd[q] /\ (Pending(q)' <=> Pending(q))
  BY <1>1, <1>2 DEF Inv1, TypeOK, Pending, Answered
<1>4. cmd'[r] = c  BY <1>1 DEF Inv1, TypeOK
<1>5. ASSUME NEW q \in Requests, q # r, Pending(q)
      PROVE  IdOf(cmd[q]) \cap IdOf(c) = {} /\ KeyOf(cmd[q]) \cap KeyOf(c) = {}
  <2>1. \A i \in Ids : inFlight[i] = q <=> cmd[q].id = i
    BY <1>2, <1>5 DEF OnceInv, InFlightAccurate
  <2>2. \A k \in ScopedKeys : keyInFlight[k] = q <=> k \in KeyOf(cmd[q])
    BY <1>2, <1>5 DEF OnceInv, InFlightAccurate
  <2>3. cmd[q] \in Commands /\ KeyOf(cmd[q]) \subseteq ScopedKeys /\ q # NoReq
    BY <1>5, PendingNames, RequestIsNot0
  <2>4. \A i \in IdOf(cmd[q]) : i \in Ids /\ cmd[q].id = i  BY <2>3, NamesOf
  <2> QED  BY <1>2, <2>1, <2>2, <2>3, <2>4, NothingFound DEF Inv1
<1>6. Alone'
  <2> SUFFICES ASSUME NEW p \in Requests, NEW q \in Requests, Pending(p)', Pending(q)', p # q
               PROVE  Shared(p, q)' = {}
    BY DEF Alone
  <2>1. CASE p # r /\ q # r  BY <1>3, <2>1 DEF NamesInv, Alone, Shared
  <2>2. CASE p = r  BY <1>3, <1>4, <1>5, <2>2 DEF Shared
  <2>3. CASE q = r  BY <1>3, <1>4, <1>5, <2>3 DEF Shared
  <2> QED  BY <2>1, <2>2, <2>3
<1>7. Fresh'
  <2>1. \A k \in ScopedKeys : /\ keyCache'[k] \in {keyCache[k], NoVerdict}
                              /\ k \in keyExpired => keyCache'[k] = NoVerdict
    BY <1>2 DEF SweptCache
  <2>2. /\ \A i \in IdOf(c) : i \in Ids /\ outcomes[i].src = NoReq
        /\ \A k \in KeyOf(c) : k \in ScopedKeys /\ (k \in keyExpired \/ keyCache[k].src = NoReq)
    BY <1>2, NothingFound, NamesOf DEF Inv1
  <2>3. /\ \A i \in IdOf(c) : outcomes'[i] = NoVerdict
        /\ \A k \in KeyOf(c) : keyCache'[k] = NoVerdict
    BY <1>2, <2>1, <2>2, StoredHasSource
  <2>4. ASSUME NEW q \in Requests, Pending(q)', q # r
        PROVE  /\ \A i \in IdOf(cmd'[q]) : outcomes'[i] = NoVerdict
               /\ \A k \in KeyOf(cmd'[q]) : keyCache'[k] = NoVerdict
    <3>1. Pending(q) /\ cmd'[q] = cmd[q] /\ KeyOf(cmd[q]) \subseteq ScopedKeys
      BY <1>3, <2>4, PendingNames
    <3> QED  BY <1>2, <2>1, <3>1 DEF NamesInv, Fresh
  <2> QED  BY <1>4, <2>3, <2>4 DEF Fresh
<1>8. Cleared' /\ Resulted'  BY <1>1, <1>2 DEF NamesInv, Cleared, Resulted
<1> QED  BY <1>6, <1>7, <1>8 DEF NamesInv

LEMMA ConcludeNames ==
  ASSUME Inv1, OnceInv, NamesInv, Kept, NEW r \in Requests, NEW k \in Kinds, Pending(r), Conclude(r, k)
  PROVE  NamesInv'
<1>1. PICK v \in FinalVerdicts(r, [src |-> r, kind |-> k]) :
        Settle(r, cmd[r], keyCache, keyExpired, v)
  BY DEF Conclude
<1>2. v \in Verdict /\ v.src = r /\ v # NoVerdict /\ v.src # NoReq
  BY <1>1, VerdictFacts, FinalVerdictType, FinalSource, RequestIsNot0
<1>3. /\ UNCHANGED <<stage, cmd, runtime, race, result>>
      /\ reply' = [reply EXCEPT ![r] = v]
      /\ inFlight' = [i \in Ids |-> IF inFlight[i] = r THEN NoReq ELSE inFlight[i]]
      /\ keyInFlight' = [x \in ScopedKeys |-> IF keyInFlight[x] = r THEN NoReq ELSE keyInFlight[x]]
      /\ keyCache' = [x \in ScopedKeys |-> IF x \in KeyOf(cmd[r]) THEN v ELSE keyCache[x]]
  BY <1>1 DEF Conclude, Settle, Unregistered, clientVars, laneVars
<1>4. cmd[r] \in Commands  BY PendingNames
<1>5. \A i \in Ids : outcomes'[i] \in {outcomes[i], NoVerdict} \/ i \in IdOf(cmd[r])
  BY <1>1, <1>2, <1>4, StoreKeeps, NamesOf DEF Settle, Inv1
<1>6. Cleared' /\ Resulted'  BY <1>3 DEF NamesInv, Cleared, Resulted
<1>7. ASSUME NEW q \in Requests, Pending(q)'
      PROVE  /\ Pending(q) /\ cmd'[q] = cmd[q]
             /\ \A i \in IdOf(cmd[q]) : outcomes'[i] \in {outcomes[i], NoVerdict}
             /\ \A x \in KeyOf(cmd[q]) : keyCache'[x] \in {keyCache[x], NoVerdict}
  <2>1. q # r /\ Pending(q)
    BY <1>2, <1>3, <1>7 DEF Pending, Answered, Inv1, TypeOK
  <2>2. Shared(q, r) = {}  BY <2>1 DEF NamesInv, Alone
  <2>3. IdOf(cmd[q]) \subseteq Ids /\ KeyOf(cmd[q]) \subseteq ScopedKeys  BY <2>1, PendingNames
  <2> QED  BY <1>3, <1>5, <2>1, <2>2, <2>3 DEF Shared
<1> QED  BY <1>6, <1>7, NamesStep

\* How a lane task changes the race and its result.
LEMMA TaskResult ==
  ASSUME Inv1, NEW r \in Requests, Task(r), Resulted
  PROVE  Resulted'
<1>1. \/ \E k \in Returned : CompleteTask(r, k)
      \/ UNCHANGED <<race, result>>
  BY DEF Task, StartTask, DependencySettled, DependencyTimeout, FinishBody, ResolveDependencies, Returned
<1>2. CASE UNCHANGED <<race, result>>  BY <1>2 DEF Resulted
<1>3. ASSUME NEW k \in Returned, CompleteTask(r, k) PROVE Resulted'
  <2>1. /\ \A q \in Requests : q # r => race'[q] = race[q] /\ result'[q] = result[q]
        /\ race[r] = "open" => result'[r] = k
        /\ race[r] # "open" => race'[r] = race[r] /\ result'[r] = result[r]
    BY <1>3 DEF CompleteTask, Inv1, TypeOK
  <2> QED  BY <2>1 DEF Resulted
<1> QED  BY <1>1, <1>2, <1>3

LEMMA SubmitNames ==
  ASSUME Inv1, OnceInv, FaithInv, NamesInv, Kept, Submit
  PROVE  NamesInv'
<1> PICK r : r = submitted + 1  OBVIOUS
<1>1. PICK c \in Commands :
        \/ RefuseShutdown(c) \/ (\E v : AnswerNow(c, v)) \/ JoinInFlight(c)
        \/ AcceptNotJournaled(c) \/ Admit(c)
  BY DEF Submit, AnswerConflict, ReplayCached, RejectRateLimited, RejectBusy
<1>2. CASE Admit(c)  BY <1>2, AdmitNames
<1>3. CASE ~Admit(c)
  <2>1. /\ r \in Requests /\ stage[r] = "unsent" /\ UNCHANGED <<runtime, race, result>>
        /\ cmd' = [cmd EXCEPT ![r] = cmd'[r]] /\ reply' = [reply EXCEPT ![r] = reply'[r]]
    BY SubmitFacts DEF Inv1, TypeOK
  <2>2. \E s \in {"closed", "joined"} : stage' = [stage EXCEPT ![r] = s]
    BY <1>1, <1>3 DEF RefuseShutdown, JoinInFlight, AcceptNotJournaled, AnswerNow, Close
  <2>3. \A q \in Requests : Pending(q)' => q # r /\ Pending(q) /\ cmd'[q] = cmd[q]
    BY <2>1, <2>2 DEF Pending, Answered, Entered, Inv1, TypeOK
  <2>4. \A k \in ScopedKeys : SweptCache[k] \in {keyCache[k], NoVerdict}  BY DEF SweptCache
  <2>5. Resulted'  BY <2>1 DEF NamesInv, Resulted
  <2>6. CASE RefuseShutdown(c) \/ (\E v : AnswerNow(c, v)) \/ JoinInFlight(c)
    <3>1. /\ UNCHANGED <<inFlight, keyInFlight, outcomes>>
          /\ \A k \in ScopedKeys : keyCache'[k] \in {keyCache[k], NoVerdict}
      BY <2>4, <2>6 DEF RefuseShutdown, AnswerNow, JoinInFlight, Sweep, storeVars
    <3>2. Cleared'  BY <2>1, <3>1 DEF NamesInv, Cleared
    <3>3. \A q \in Requests : Pending(q) => KeyOf(cmd[q]) \subseteq ScopedKeys  BY PendingNames
    <3> QED  BY <2>3, <2>5, <3>1, <3>2, <3>3, NamesStep
  <2>7. CASE AcceptNotJournaled(c)
    <3> DEFINE v == [src |-> r, kind |-> "fail"]
    <3>0. v \in Verdict  BY <2>1, VerdictFacts DEF Kinds
    <3>1. v.src # NoReq  BY <2>1, RequestIsNot0
    <3>2. Settle(r, c, SweptCache, {}, v) /\ runtime = "up" /\ Hits(c) = {}
      BY <2>7 DEF AcceptNotJournaled, Admissible
    <3> HIDE DEF v
    <3>3. \A i \in Ids : outcomes'[i] \in {outcomes[i], NoVerdict} \/ i \in IdOf(c)
      BY <3>0, <3>1, <3>2, StoreKeeps, NamesOf DEF Settle, Inv1
    <3>4. \A k \in ScopedKeys : keyCache'[k] \in {keyCache[k], NoVerdict} \/ k \in KeyOf(c)
      BY <2>4, <3>2 DEF Settle
    <3>5. Cleared'  BY <2>1, <3>2 DEF Cleared
    <3>6. ASSUME NEW q \in Requests, Pending(q)
          PROVE  /\ IdOf(cmd[q]) \cap IdOf(c) = {} /\ KeyOf(cmd[q]) \cap KeyOf(c) = {}
                 /\ IdOf(cmd[q]) \subseteq Ids /\ KeyOf(cmd[q]) \subseteq ScopedKeys
      <4>1. /\ \A i \in Ids : inFlight[i] = q <=> cmd[q].id = i
            /\ \A k \in ScopedKeys : keyInFlight[k] = q <=> k \in KeyOf(cmd[q])
        BY <3>2, <3>6 DEF OnceInv, InFlightAccurate
      <4>2. /\ cmd[q] \in Commands /\ IdOf(cmd[q]) \subseteq Ids /\ q # NoReq
            /\ KeyOf(cmd[q]) \subseteq ScopedKeys
        BY <3>6, PendingNames, RequestIsNot0
      <4>3. \A i \in IdOf(cmd[q]) : i \in Ids /\ cmd[q].id = i  BY <4>2, NamesOf
      <4> QED  BY <3>2, <4>1, <4>2, <4>3, NothingFound DEF Inv1
    <3>7. ASSUME NEW q \in Requests, Pending(q)'
          PROVE  /\ Pending(q) /\ cmd'[q] = cmd[q]
                 /\ \A i \in IdOf(cmd[q]) : outcomes'[i] \in {outcomes[i], NoVerdict}
                 /\ \A x \in KeyOf(cmd[q]) : keyCache'[x] \in {keyCache[x], NoVerdict}
      BY <2>3, <3>3, <3>4, <3>6, <3>7
    <3> QED  BY <2>5, <3>5, <3>7, NamesStep
  <2> QED  BY <1>1, <1>3, <2>6, <2>7
<1> QED  BY <1>2, <1>3

LEMMA NextNames == Inv1 /\ OnceInv /\ FaithInv /\ NamesInv /\ [Next]_vars => NamesInv'
<1> SUFFICES ASSUME Inv1, OnceInv, FaithInv, NamesInv, [Next]_vars PROVE NamesInv'  OBVIOUS
<1>0. Kept  BY NextKeeps DEF FaithInv
<1>1. CASE Submit  BY <1>0, <1>1, SubmitNames
<1>2. CASE \E r \in Requests : AnswerResult(r) \/ AnswerTimeout(r)
  <2>1. PICK r \in Requests : AnswerResult(r) \/ AnswerTimeout(r)  BY <1>2
  <2>2. result[r] \in Kinds /\ "timeout" \in Kinds  BY DEF Inv1, TypeOK, Kinds
  <2> QED  BY <1>0, <2>1, <2>2, ConcludeNames DEF AnswerResult, AnswerTimeout
<1>3. ASSUME UNCHANGED <<cmd, inFlight, keyInFlight, outcomes, keyCache, runtime>>, Resulted',
             \A q \in Requests : stage'[q] \in Entered => stage[q] \in Entered
      PROVE  NamesInv'
  <2>1. Cleared'  BY <1>3 DEF NamesInv, Cleared
  <2>2. \A q \in Requests : Pending(q)' => Pending(q)  BY <1>0, <1>3 DEF Pending, Kept, Answered
  <2> QED  BY <1>3, <2>1, <2>2, NamesStep
<1>4. CASE \E r \in Requests : Task(r)
  <2>1. PICK r \in Requests : Task(r)  BY <1>4
  <2>2. /\ UNCHANGED <<cmd, storeVars, runtime>> /\ stage[r] \in Entered
        /\ \E s : stage' = [stage EXCEPT ![r] = s]
    BY <2>1, TaskFacts DEF clientVars, Entered
  <2>3. \A q \in Requests : stage'[q] \in Entered => stage[q] \in Entered
    BY <2>2 DEF Inv1, TypeOK
  <2> QED  BY <1>3, <2>1, <2>2, <2>3, TaskResult DEF storeVars, NamesInv
<1>5. CASE \E r \in Requests : CommandTimeout(r)
  <2>1. PICK r \in Requests : CommandTimeout(r)  BY <1>5
  <2>2. /\ UNCHANGED <<cmd, stage, storeVars, runtime, result>>
        /\ race' = [race EXCEPT ![r] = "expired"]
    BY <2>1 DEF CommandTimeout, clientVars, laneVars
  <2>3. Resulted'  BY <2>2 DEF NamesInv, Resulted, Inv1, TypeOK
  <2> QED  BY <1>3, <2>2, <2>3 DEF storeVars
<1>6. CASE \E r \in Requests : AnswerJoined(r)
  <2>1. PICK r \in Requests : AnswerJoined(r)  BY <1>6
  <2>2. /\ UNCHANGED <<cmd, storeVars, runtime, race, result>>
        /\ stage' = [stage EXCEPT ![r] = "closed"]
    BY <2>1 DEF AnswerJoined, Close, clientVars
  <2>3. Resulted' /\ \A q \in Requests : stage'[q] \in Entered => stage[q] \in Entered
    BY <2>2 DEF NamesInv, Resulted, Entered, Inv1, TypeOK
  <2> QED  BY <1>3, <2>2, <2>3 DEF storeVars
<1>7. CASE (\E k \in ScopedKeys : KeyExpires(k)) \/ Quiescent \/ UNCHANGED vars
  <2>1. UNCHANGED <<cmd, stage, inFlight, keyInFlight, outcomes, keyCache, runtime, race, result>>
    BY <1>7 DEF KeyExpires, Quiescent, vars, clientVars, laneVars, storeVars
  <2>2. Resulted'  BY <2>1 DEF NamesInv, Resulted
  <2> QED  BY <1>3, <2>1, <2>2
<1>8. CASE InitiateShutdown \/ Dispose
  <2>1. UNCHANGED <<cmd, stage, reply, race, result>>
    BY <1>8 DEF InitiateShutdown, Dispose, clientVars, laneVars
  <2>2. Resulted' /\ \A q \in Requests : Pending(q)' => Pending(q) /\ cmd'[q] = cmd[q]
    BY <2>1 DEF NamesInv, Resulted, Pending, Answered
  <2>3. /\ \A i \in Ids : outcomes'[i] \in {outcomes[i], NoVerdict}
        /\ \A k \in ScopedKeys : keyCache'[k] \in {keyCache[k], NoVerdict}
    BY <1>8 DEF InitiateShutdown, Dispose, storeVars
  <2>4. Cleared'  BY <1>8 DEF InitiateShutdown, Dispose, Cleared
  <2>5. \A q \in Requests : Pending(q) => IdOf(cmd[q]) \subseteq Ids /\ KeyOf(cmd[q]) \subseteq ScopedKeys
    BY PendingNames
  <2> QED  BY <2>2, <2>3, <2>4, <2>5, NamesStep
<1> QED  BY <1>1, <1>2, <1>4, <1>5, <1>6, <1>7, <1>8 DEF Next, Answer

LEMMA InitNames == Init => NamesInv
BY RequestIsNot0 DEF Init, NamesInv, Alone, Fresh, Cleared, Resulted, Pending, Entered

LEMMA SpecNames == Spec => [](Inv1 /\ OnceInv /\ FaithInv /\ NamesInv)
<1> QED  BY InitNames, NextNames, SpecInv1, SpecFaith, PTL DEF Spec

\* No event added by this step announces the end of q.
Unannounced(q) == "finished" \notin {events'[q][n] : n \in (Len(events[q]) + 1) .. Len(events'[q])}

LEMMA SilentStep ==
  ASSUME Inv1, NEW q \in Requests, events'[q] = events[q] \/ events'[q] = events[q] \o <<"started">>
  PROVE  Unannounced(q)
<1>1. events[q] \in Seq({"accepted", "started", "finished"})  BY DEF Inv1, TypeOK
<1>2. CASE events'[q] = events[q]  BY <1>1, <1>2 DEF Unannounced
<1>3. CASE events'[q] = events[q] \o <<"started">>
  <2>1. /\ Len(events'[q]) = Len(events[q]) + 1
        /\ events'[q][Len(events[q]) + 1] = "started"
    BY <1>1, <1>3
  <2>2. \A n \in (Len(events[q]) + 1) .. Len(events'[q]) : n = Len(events[q]) + 1
    BY <1>1, <2>1
  <2> QED  BY <2>1, <2>2 DEF Unannounced
<1> QED  BY <1>2, <1>3

\* Only the steps of r may announce anything of r.
LEMMA EmitOthers ==
  ASSUME Inv1, NEW r \in Requests, NEW es, Emit(r, es), NEW q \in Requests, q # r
  PROVE  events'[q] = events[q]
BY DEF Emit, Inv1, TypeOK

\* What a step does to events and outcomes.
LEMMA SubmitFinal ==
  ASSUME Inv1, OnceInv, FaithInv, NamesInv, Submit
  PROVE  /\ \A q \in Requests : Answered(q) => Unannounced(q)
         /\ \A i \in Ids : outcomes[i] # NoVerdict => outcomes'[i] \in {outcomes[i], NoVerdict}
<1> PICK r : r = submitted + 1  OBVIOUS
<1>1. PICK c \in Commands :
        \/ RefuseShutdown(c) \/ (\E v : AnswerNow(c, v)) \/ JoinInFlight(c)
        \/ AcceptNotJournaled(c) \/ Admit(c)
  BY DEF Submit, AnswerConflict, ReplayCached, RejectRateLimited, RejectBusy
<1>2. r \in Requests /\ ~Answered(r)  BY SubmitFacts DEF Answered
<1>3. events' = events \/ \E es : Emit(r, es)
  BY <1>1 DEF RefuseShutdown, AnswerNow, JoinInFlight, AcceptNotJournaled, Admit
<1>4. \A q \in Requests : q # r => events'[q] = events[q]  BY <1>2, <1>3, EmitOthers
<1>5. \A q \in Requests : Answered(q) => Unannounced(q)  BY <1>2, <1>4, SilentStep
<1>6. CASE ~AcceptNotJournaled(c)
  <2>1. outcomes' = outcomes
    BY <1>1, <1>6 DEF RefuseShutdown, AnswerNow, JoinInFlight, Admit, storeVars
  <2> QED  BY <1>5, <2>1
<1>7. CASE AcceptNotJournaled(c)
  <2> DEFINE v == [src |-> r, kind |-> "fail"]
  <2>0. v \in Verdict  BY <1>2, VerdictFacts DEF Kinds
  <2>1. v.src # NoReq  BY <1>2, RequestIsNot0
  <2>2. StoreOutcome(c, v) /\ Hits(c) = {}  BY <1>7 DEF AcceptNotJournaled, Admissible, Settle
  <2> HIDE DEF v
  <2>3. \A i \in Ids : outcomes'[i] \in {outcomes[i], NoVerdict} \/ i \in IdOf(c)
    BY <2>0, <2>1, <2>2, StoreKeeps, NamesOf DEF Inv1
  <2>4. \A i \in IdOf(c) : i \in Ids /\ outcomes[i].src = NoReq
    BY <2>2, NothingFound, NamesOf DEF Inv1
  <2> QED  BY <1>5, <2>3, <2>4, StoredHasSource
<1> QED  BY <1>6, <1>7

LEMMA ConcludeFinal ==
  ASSUME Inv1, OnceInv, FaithInv, NamesInv, NEW r \in Requests, NEW k \in Kinds, Pending(r),
         Conclude(r, k)
  PROVE  /\ \A q \in Requests : Answered(q) => Unannounced(q)
         /\ \A i \in Ids : outcomes[i] # NoVerdict => outcomes'[i] \in {outcomes[i], NoVerdict}
<1>1. PICK v \in FinalVerdicts(r, [src |-> r, kind |-> k]) :
        Settle(r, cmd[r], keyCache, keyExpired, v)
  BY DEF Conclude
<1>2. v \in Verdict /\ v.src # NoReq
  BY <1>1, VerdictFacts, FinalVerdictType, FinalSource, RequestIsNot0
<1>3. cmd[r] \in Commands  BY PendingNames
<1>4. \A i \in Ids : outcomes'[i] \in {outcomes[i], NoVerdict} \/ i \in IdOf(cmd[r])
  BY <1>1, <1>2, <1>3, StoreKeeps, NamesOf DEF Settle, Inv1
<1>5. \A i \in IdOf(cmd[r]) : outcomes[i] = NoVerdict  BY DEF NamesInv, Fresh
<1>6. \A q \in Requests : q # r => events'[q] = events[q]  BY EmitOthers DEF Conclude
<1>7. \A q \in Requests : Answered(q) => q # r  BY DEF Pending
<1> QED  BY <1>4, <1>5, <1>6, <1>7, SilentStep

LEMMA NextFinal == Inv1 /\ OnceInv /\ FaithInv /\ NamesInv /\ [Next]_vars => [FinalsStay]_vars
<1> SUFFICES ASSUME Inv1, OnceInv, FaithInv, NamesInv, [Next]_vars PROVE FinalsStay
  OBVIOUS
<1>0. \A r \in Requests : Answered(r) => reply'[r] = reply[r]  BY NextKeeps DEF FaithInv, Kept
<1> DEFINE Goal == /\ \A q \in Requests : Answered(q) => Unannounced(q)
                   /\ \A i \in Ids : outcomes[i] # NoVerdict => outcomes'[i] \in {outcomes[i], NoVerdict}
<1> SUFFICES Goal  BY <1>0 DEF FinalsStay, Unannounced
<1>1. CASE Submit  BY <1>1, SubmitFinal
<1>2. CASE \E r \in Requests : AnswerResult(r) \/ AnswerTimeout(r)
  <2>1. PICK r \in Requests : AnswerResult(r) \/ AnswerTimeout(r)  BY <1>2
  <2>2. result[r] \in Kinds /\ "timeout" \in Kinds  BY DEF Inv1, TypeOK, Kinds
  <2> QED  BY <2>1, <2>2, ConcludeFinal DEF AnswerResult, AnswerTimeout
<1>3. CASE \E r \in Requests : Task(r)
  <2>1. PICK r \in Requests : Task(r)  BY <1>3
  <2>2. outcomes' = outcomes  BY <2>1, TaskFacts DEF storeVars
  <2>3. events' = events \/ Emit(r, <<"started">>)
    BY <2>1 DEF Task, StartTask, DependencySettled, DependencyTimeout, FinishBody
  <2>4. \A q \in Requests : events'[q] = events[q] \/ events'[q] = events[q] \o <<"started">>
    BY <2>3 DEF Emit, Inv1, TypeOK
  <2> QED  BY <2>2, <2>4, SilentStep
<1>4. CASE \E r \in Requests : AnswerJoined(r)
  <2>1. PICK r \in Requests : AnswerJoined(r)  BY <1>4
  <2>2. outcomes' = outcomes /\ Emit(r, <<"finished">>) /\ stage[r] = "joined"
    BY <2>1 DEF AnswerJoined, storeVars
  <2>3. ~Answered(r)  BY <2>2 DEF FaithInv, Unanswered
  <2> QED  BY <2>2, <2>3, EmitOthers, SilentStep
<1>5. CASE (\E r \in Requests : CommandTimeout(r)) \/ (\E k \in ScopedKeys : KeyExpires(k))
           \/ InitiateShutdown \/ Dispose \/ Quiescent \/ UNCHANGED vars
  <2>1. events' = events /\ (outcomes' = outcomes \/ outcomes' = [i \in Ids |-> NoVerdict])
    BY <1>5 DEF CommandTimeout, KeyExpires, InitiateShutdown, Dispose, Quiescent, vars, storeVars
  <2> QED  BY <2>1, SilentStep
<1> QED  BY <1>1, <1>2, <1>3, <1>4, <1>5 DEF Next, Answer

\* A terminal response is given once and announced once, and a stored outcome is never
\* overwritten, only evicted or cleared: the late result of a command that timed out, a failing
\* append and a refused retry change neither.
THEOREM TerminalIsFinalHolds == Spec => TerminalIsFinal
<1> QED  BY NextFinal, SpecNames, PTL DEF Spec, TerminalIsFinal

-----------------------------------------------------------------------------
(***************************************************************************)
(* The contract.  Owner is a binding of each name: registered, stored or   *)
(* cached.  A submission that finds nothing binds free names, a settled    *)
(* request keeps its own, and what eviction and expiry drop is answered.   *)
(***************************************************************************)

LEMMA OwnerIs ==
  /\ DOMAIN Owner = Ids \cup ScopedKeys
  /\ \A i \in Ids : Owner[i] = IF inFlight[i] # NoReq THEN inFlight[i] ELSE outcomes[i].src
  /\ \A k \in ScopedKeys : /\ k \notin Ids
       /\ Owner[k] = IF keyInFlight[k] # NoReq THEN keyInFlight[k]
                     ELSE IF k \in keyExpired THEN NoReq ELSE keyCache[k].src
BY ContractAssumption DEF Owner

LEMMA OwnerIsNext ==
  /\ DOMAIN Owner' = Ids \cup ScopedKeys
  /\ \A i \in Ids : Owner'[i] = IF inFlight'[i] # NoReq THEN inFlight'[i] ELSE outcomes'[i].src
  /\ \A k \in ScopedKeys :
       Owner'[k] = IF keyInFlight'[k] # NoReq THEN keyInFlight'[k]
                   ELSE IF k \in keyExpired' THEN NoReq ELSE keyCache'[k].src
BY ContractAssumption DEF Owner

LEMMA OwnerFunction == Owner = [n \in Ids \cup ScopedKeys |-> Owner[n]]
BY DEF Owner
LEMMA OwnerFunctionNext == Owner' = [n \in Ids \cup ScopedKeys |-> Owner'[n]]
BY DEF Owner

\* The new owners are given by those of the two kinds of name.
LEMMA OwnerBound ==
  ASSUME NEW r, NEW names, NEW dropped,
         \A n \in Ids \cup ScopedKeys :
           Owner'[n] = IF n \in dropped THEN 0 ELSE IF n \in names THEN r ELSE Owner[n]
  PROVE  Owner' = Contract!Bound(names, r, dropped)
<1>1. Contract!Bound(names, r, dropped) =
        [n \in Ids \cup ScopedKeys |-> IF n \in dropped THEN 0 ELSE IF n \in names THEN r ELSE Owner[n]]
  BY DEF Contract!Bound
<1> QED  BY <1>1, OwnerFunctionNext

LEMMA OwnerUnchanged ==
  ASSUME \A n \in Ids \cup ScopedKeys : Owner'[n] = Owner[n]
  PROVE  Owner' = Owner
BY OwnerFunction, OwnerFunctionNext

\* A submission is a request made in the contract, and a sweep of the cache unbinds nothing.
LEMMA Asking ==
  ASSUME Inv1, Submit, NEW c \in Commands, Arrive(c), NEW r, r = submitted + 1
  PROVE  /\ r \in Requests /\ AskOf(c) \in {AskOf(d) : d \in Commands}
         /\ Contract!Make(r, AskOf(c))
         /\ \A q \in Requests : cmd[q] # NoCommand => Asked[q] = AskOf(cmd[q])
         /\ Followed[r] = NoReq
<1>1. r \in Requests /\ cmd[r] = NoCommand /\ stage[r] = "unsent" /\ cmd' = [cmd EXCEPT ![r] = c]
  BY SubmitFacts DEF Arrive
<1>2. c # NoCommand  BY CommandFields
<1>3. Asked' = [Asked EXCEPT ![r] = AskOf(c)]
  BY <1>1, <1>2 DEF Asked, Inv1, TypeOK, AskOf, IdOf, KeyOf
<1>4. Asked[r] = NoCommand /\ Followed[r] = NoReq  BY <1>1 DEF Asked, Followed
<1> QED  BY <1>1, <1>3, <1>4 DEF Contract!Make, Asked

\* Nothing changes for the contract but the answer or the binding of a request.
LEMMA SameFollowed ==
  ASSUME \A q \in Requests : /\ stage'[q] = "joined" <=> stage[q] = "joined"
                             /\ stage[q] = "joined" => waitsFor'[q] = waitsFor[q]
  PROVE  Followed' = Followed
BY DEF Followed

LEMMA SweptOwners ==
  ASSUME \A i \in Ids : inFlight'[i] = inFlight[i] /\ outcomes'[i] = outcomes[i],
         \A k \in ScopedKeys : keyInFlight'[k] = keyInFlight[k],
         Sweep
  PROVE  Owner' = Owner
<1>1. \A k \in ScopedKeys : k \notin keyExpired' /\
        keyCache'[k] = IF k \in keyExpired THEN NoVerdict ELSE keyCache[k]
  BY DEF Sweep, SweptCache
<1>2. NoVerdict.src = NoReq  BY DEF NoVerdict
<1>3. \A n \in Ids \cup ScopedKeys : Owner'[n] = Owner[n]
  BY <1>1, <1>2, OwnerIs, OwnerIsNext
<1> QED  BY <1>3, OwnerUnchanged

\* What the replay check finds is the execution bound to a name of the command.
LEMMA FoundOwner ==
  ASSUME Inv1, OnceInv, FaithInv, NamesInv, runtime = "up", NEW c \in Commands,
         NEW h \in FirstHits(c), FingerprintsMatch(c, h)
  PROVE  h.found.src \in Contract!Twins(AskOf(c))
<1> DEFINE q == h.found.src
<1>1. q \in Requests /\ q # NoReq /\ cmd[q] # NoCommand /\ h \in Hits(c)
  BY FoundFaith, RequestIsNot0 DEF FirstHits
<1>2. IdOf(c) \subseteq Ids /\ KeyOf(c) \subseteq ScopedKeys  BY NamesOf
<1>3. \E n \in IdOf(c) \cup KeyOf(c) : Owner[n] = q
  <2>1. CASE \E k \in KeyOf(c) : h = [rank |-> 1, how |-> "cached", found |-> SweptCache[k]]
    <3>1. PICK k \in KeyOf(c) : h = [rank |-> 1, how |-> "cached", found |-> SweptCache[k]]
      BY <2>1
    <3>2. SweptCache[k].src = q /\ k \in ScopedKeys  BY <1>2, <3>1
    <3>3. k \notin keyExpired /\ keyCache[k].src = q /\ keyCache[k] # NoVerdict
      BY <1>1, <3>2 DEF SweptCache, NoVerdict
    <3>4. keyInFlight[k] = NoReq  BY <3>2, <3>3, Registered
    <3> QED  BY <3>2, <3>3, <3>4, OwnerIs
  <2>2. CASE \E k \in KeyOf(c) :
               h = [rank |-> 2, how |-> "join", found |-> [src |-> keyInFlight[k], kind |-> "none"]]
    BY <1>1, <1>2, <2>2, OwnerIs
  <2>3. CASE \E i \in IdOf(c) : h = [rank |-> 3, how |-> "cached", found |-> outcomes[i]]
    <3>1. PICK i \in IdOf(c) : h = [rank |-> 3, how |-> "cached", found |-> outcomes[i]]
      BY <2>3
    <3>2. outcomes[i].src = q /\ i \in Ids /\ outcomes[i] # NoVerdict
      BY <1>1, <1>2, <3>1 DEF NoVerdict
    <3>3. inFlight[i] = NoReq  BY <3>2, Registered
    <3> QED  BY <3>2, <3>3, OwnerIs
  <2>4. CASE \E i \in IdOf(c) :
               h = [rank |-> 4, how |-> "join", found |-> [src |-> inFlight[i], kind |-> "none"]]
    BY <1>1, <1>2, <2>4, OwnerIs
  <2> QED  BY <1>1, <2>1, <2>2, <2>3, <2>4 DEF Hits
<1>4. Asked[q] = AskOf(cmd[q]) /\ cmd[q].fp = c.fp
  BY <1>1 DEF Asked, FingerprintsMatch
<1> QED  BY <1>1, <1>3, <1>4 DEF Contract!Twins, Contract!Owners, AskOf, NoReq

\* An answer before admission is a refusal or the copy of an answer.
LEMMA AnswerNowContract ==
  ASSUME Inv1, OnceInv, FaithInv, NamesInv, Submit, NEW c \in Commands, NEW v, AnswerNow(c, v),
         \/ v \in {[src |-> submitted + 1, kind |-> k] : k \in {"conflict", "limited", "busy"}}
         \/ v.src \in Contract!Twins(AskOf(c)) /\ Backed(v) /\ v # NoVerdict
  PROVE  Contract!Next
<1> PICK r : r = submitted + 1  OBVIOUS
<1>1. Arrive(c)  BY DEF AnswerNow
<1>2. /\ r \in Requests /\ AskOf(c) \in {AskOf(d) : d \in Commands}
      /\ Contract!Make(r, AskOf(c)) /\ Followed[r] = NoReq
  BY <1>1, Asking
<1>3. /\ stage' = [stage EXCEPT ![r] = "closed"] /\ stage[r] = "unsent"
      /\ UNCHANGED <<waitsFor, inFlight, keyInFlight, outcomes>> /\ Sweep
      /\ \E w \in FinalVerdicts(r, v) : reply' = [reply EXCEPT ![r] = w]
  BY SubmitFacts DEF AnswerNow, Close
<1>4. Owner' = Owner  BY <1>3, SweptOwners
<1>5. Followed' = Followed
  <2>1. \A q \in Requests : stage'[q] = "joined" <=> stage[q] = "joined"
    BY <1>2, <1>3 DEF Inv1, TypeOK
  <2> QED  BY <1>3, <2>1, SameFollowed
<1>6. PICK w \in FinalVerdicts(r, v) : reply' = [reply EXCEPT ![r] = w]  BY <1>3
<1>7. CASE \E k \in {"conflict", "limited", "busy", "fail"} : w = [src |-> r, kind |-> k]
  <2>1. \E k \in Contract!Refusals : reply' = [reply EXCEPT ![r] = Contract!Own(r, k)]
    BY <1>6, <1>7 DEF Contract!Refusals, Contract!Own
  <2>2. Contract!Refuse(r, AskOf(c))  BY <1>2, <1>4, <1>5, <2>1 DEF Contract!Refuse
  <2> QED  BY <1>2, <2>2 DEF Contract!Next
<1>8. CASE w = v /\ v.src \in Contract!Twins(AskOf(c)) /\ Backed(v) /\ v # NoVerdict
  <2>1. reply[v.src] = v /\ Contract!Answered(v.src)
    BY <1>8 DEF Backed, Contract!Answered
  <2>2. Contract!Copy(r, AskOf(c))
    BY <1>2, <1>4, <1>5, <1>6, <1>8, <2>1 DEF Contract!Copy
  <2> QED  BY <1>2, <2>2 DEF Contract!Next
<1> QED  BY <1>6, <1>7, <1>8 DEF FinalVerdicts

\* Storing the answer of r binds its names to it, and may drop one other that is not in use.
LEMMA SettleContract ==
  ASSUME Inv1, QueueInv, OnceInv, NamesInv, NEW r \in Requests, NEW c \in Commands,
         NEW cache, NEW expired, NEW v, v.src = r, Settle(r, c, cache, expired, v),
         \A i \in Ids : inFlight[i] = r => i \in IdOf(c),
         \A k \in ScopedKeys : keyInFlight[k] = r => k \in KeyOf(c),
         \A i \in IdOf(c) : inFlight[i] \in {r, NoReq},
         \A k \in KeyOf(c) : keyInFlight[k] \in {r, NoReq},
         \/ cache = keyCache /\ expired = keyExpired
         \/ cache = SweptCache /\ expired = {}
  PROVE  \E dropped \in Contract!Droppable : Owner' = Contract!Bound(IdOf(c) \cup KeyOf(c), r, dropped)
<1> DEFINE order == outcomeOrder \o (IF c.id = NoId \/ outcomes[c.id] # NoVerdict
                                     THEN <<>> ELSE <<c.id>>)
           drop  == Overflow(order)
<1>1. /\ outcomes' = [i \in Ids |-> IF i \in drop THEN NoVerdict
                                    ELSE IF i = c.id THEN v ELSE outcomes[i]]
      /\ inFlight' = [i \in Ids |-> IF inFlight[i] = r THEN NoReq ELSE inFlight[i]]
      /\ keyInFlight' = [k \in ScopedKeys |-> IF keyInFlight[k] = r THEN NoReq ELSE keyInFlight[k]]
      /\ keyCache' = [k \in ScopedKeys |-> IF k \in KeyOf(c) THEN v ELSE cache[k]]
      /\ keyExpired' = expired \ KeyOf(c)
  BY DEF Settle, Unregistered, StoreOutcome, RecordOutcome
<1>2. /\ c.id \in Ids \cup {NoId} /\ NoId \notin Ids /\ KeyOf(c) \subseteq ScopedKeys
      /\ \A i \in Ids : i \in IdOf(c) <=> c.id = i
  BY CommandFields, ConstantsAssumption, NamesOf
<1>3. /\ drop = {} \/ \E i \in Ids : drop = {i}
      /\ \A i \in drop : i \in Ids /\ (outcomes[i] # NoVerdict \/ i = c.id)
  <2>1. order \in Seq(Ids)  BY <1>2 DEF Inv1, TypeOK
  <2>2. ASSUME drop # {}
        PROVE  drop = {Head(order)} /\ Head(order) \in Ids /\
               (outcomes[Head(order)] # NoVerdict \/ Head(order) = c.id)
    <3>1. drop = {Head(order)} /\ Len(order) > 0
      BY <2>1, <2>2, ConstantsAssumption DEF Overflow
    <3>2. Head(order) = order[1] /\ Head(order) \in Ids  BY <2>1, <3>1
    <3>3. CASE Len(outcomeOrder) = 0
      <4>1. outcomeOrder = <<>>  BY <3>3 DEF Inv1, TypeOK
      <4>2. order = <<c.id>>  BY <3>1, <4>1
      <4> HIDE DEF order
      <4> QED  BY <3>1, <3>2, <4>2
    <3>4. CASE Len(outcomeOrder) # 0
      <4>1. /\ outcomeOrder \in Seq(Ids) /\ Len(outcomeOrder) \in Nat \ {0}
            /\ 1 \in 1 .. Len(outcomeOrder)
        BY <3>4 DEF Inv1, TypeOK
      <4>2. order[1] = outcomeOrder[1]  BY <1>2, <4>1
      <4>3. outcomes[outcomeOrder[1]] # NoVerdict  BY <3>2, <4>1, <4>2 DEF QueueInv
      <4> QED  BY <3>1, <3>2, <4>2, <4>3
    <3> QED  BY <3>3, <3>4
  <2> QED  BY <2>2
<1> HIDE DEF drop
<1>4. NoVerdict.src = NoReq /\ r # NoReq /\ NoReq = 0  BY RequestIsNot0 DEF NoVerdict, NoReq
<1>5. \A i \in drop : i \notin IdOf(c) => inFlight[i] = NoReq
  BY <1>2, <1>3, Registered
<1>6. ASSUME NEW n \in Ids \cup ScopedKeys
      PROVE  Owner'[n] = IF n \in drop THEN 0 ELSE IF n \in IdOf(c) \cup KeyOf(c) THEN r ELSE Owner[n]
  <2>1. CASE n \in Ids
    <3>1. n \notin KeyOf(c)  BY <1>2, <2>1, OwnerIs
    <3>2. Owner'[n] = IF inFlight'[n] # NoReq THEN inFlight'[n] ELSE outcomes'[n].src
      BY <2>1, OwnerIsNext
    <3>3. Owner[n] = IF inFlight[n] # NoReq THEN inFlight[n] ELSE outcomes[n].src
      BY <2>1, OwnerIs
    <3> QED  BY <1>1, <1>2, <1>4, <1>5, <2>1, <3>1, <3>2, <3>3
  <2>2. CASE n \in ScopedKeys
    <3>1. n \notin IdOf(c) /\ n \notin drop  BY <1>2, <1>3, <2>2, OwnerIs, NamesOf
    <3>2. Owner'[n] = IF keyInFlight'[n] # NoReq THEN keyInFlight'[n]
                      ELSE IF n \in keyExpired' THEN NoReq ELSE keyCache'[n].src
      BY <2>2, OwnerIsNext
    <3>3. Owner[n] = IF keyInFlight[n] # NoReq THEN keyInFlight[n]
                     ELSE IF n \in keyExpired THEN NoReq ELSE keyCache[n].src
      BY <2>2, OwnerIs
    <3>4. SweptCache[n] = IF n \in keyExpired THEN NoVerdict ELSE keyCache[n]
      BY <2>2 DEF SweptCache
    <3> QED  BY <1>1, <1>4, <2>2, <3>1, <3>2, <3>3, <3>4
  <2> QED  BY <2>1, <2>2
<1>7. Owner' = Contract!Bound(IdOf(c) \cup KeyOf(c), r, drop)  BY <1>6, OwnerBound
<1>8. drop \in Contract!Droppable  BY <1>3 DEF Contract!Droppable
<1> QED  BY <1>7, <1>8

LEMMA AcceptContract ==
  ASSUME Inv1, QueueInv, OnceInv, FaithInv, NamesInv, Submit, NEW c \in Commands,
         AcceptNotJournaled(c)
  PROVE  Contract!Next
<1> PICK r : r = submitted + 1  OBVIOUS
<1> DEFINE v == [src |-> r, kind |-> "fail"]
<1>1. Arrive(c) /\ Hits(c) = {} /\ runtime = "up"  BY DEF AcceptNotJournaled, Admissible
<1>2. /\ r \in Requests /\ AskOf(c) \in {AskOf(d) : d \in Commands}
      /\ Contract!Make(r, AskOf(c)) /\ stage[r] = "unsent"
  BY <1>1, Asking, SubmitFacts
<1>3. /\ stage' = [stage EXCEPT ![r] = "closed"] /\ waitsFor' = waitsFor
      /\ Settle(r, c, SweptCache, {}, v)
  BY DEF AcceptNotJournaled, Close
<1>4. Followed' = Followed
  <2>1. \A q \in Requests : stage'[q] = "joined" <=> stage[q] = "joined"
    BY <1>2, <1>3 DEF Inv1, TypeOK
  <2> QED  BY <1>3, <2>1, SameFollowed
<1>5. /\ IdOf(c) \subseteq Ids /\ KeyOf(c) \subseteq ScopedKeys
      /\ \A i \in IdOf(c) : inFlight[i] = NoReq /\ outcomes[i].src = NoReq
      /\ \A k \in KeyOf(c) : keyInFlight[k] = NoReq /\ (k \in keyExpired \/ keyCache[k].src = NoReq)
  BY <1>1, NothingFound, NamesOf DEF Inv1
<1>6. Contract!Free(IdOf(c) \cup KeyOf(c))
  BY <1>5, OwnerIs DEF Contract!Free, NoReq
<1>7. /\ \A i \in Ids : inFlight[i] # r
      /\ \A k \in ScopedKeys : keyInFlight[k] # r
  BY <1>2, Registered, RequestIsNot0 DEF Pending, Entered
<1>8. v.src = r  OBVIOUS
<1> HIDE DEF v
<1>9. \E dropped \in Contract!Droppable : Owner' = Contract!Bound(IdOf(c) \cup KeyOf(c), r, dropped)
  BY <1>2, <1>3, <1>5, <1>7, <1>8, SettleContract
<1>10. reply' = [reply EXCEPT ![r] = Contract!Own(r, "fail")]
  BY <1>3 DEF Settle, Contract!Own, v
<1>11. AskOf(c).names = IdOf(c) \cup KeyOf(c)  BY DEF AskOf
<1>12. Contract!ExecuteAndFail(r, AskOf(c))
  BY <1>2, <1>4, <1>6, <1>9, <1>10, <1>11 DEF Contract!ExecuteAndFail
<1> QED  BY <1>2, <1>12 DEF Contract!Next

LEMMA AdmitContract ==
  ASSUME Inv1, OnceInv, FaithInv, NamesInv, Submit, NEW c \in Commands, Admit(c)
  PROVE  Contract!Next
<1> PICK r : r = submitted + 1  OBVIOUS
<1>1. Arrive(c) /\ Hits(c) = {} /\ runtime = "up"  BY DEF Admit, Admissible
<1>2. /\ r \in Requests /\ AskOf(c) \in {AskOf(d) : d \in Commands}
      /\ Contract!Make(r, AskOf(c)) /\ stage[r] = "unsent"
  BY <1>1, Asking, SubmitFacts
<1>3. /\ stage' = [stage EXCEPT ![r] = "queued"] /\ UNCHANGED <<waitsFor, outcomes, reply>>
      /\ inFlight' = [i \in Ids |-> IF i = c.id THEN r ELSE inFlight[i]]
      /\ keyInFlight' = [k \in ScopedKeys |-> IF k \in KeyOf(c) THEN r ELSE keyInFlight[k]]
      /\ keyCache' = SweptCache /\ keyExpired' = {}
  BY DEF Admit, Sweep
<1>4. Followed' = Followed
  <2>1. \A q \in Requests : stage'[q] = "joined" <=> stage[q] = "joined"
    BY <1>2, <1>3 DEF Inv1, TypeOK
  <2> QED  BY <1>3, <2>1, SameFollowed
<1>5. /\ IdOf(c) \subseteq Ids /\ KeyOf(c) \subseteq ScopedKeys
      /\ \A i \in Ids : i \in IdOf(c) <=> c.id = i
      /\ \A i \in IdOf(c) : inFlight[i] = NoReq /\ outcomes[i].src = NoReq
      /\ \A k \in KeyOf(c) : keyInFlight[k] = NoReq /\ (k \in keyExpired \/ keyCache[k].src = NoReq)
  BY <1>1, NothingFound, NamesOf DEF Inv1
<1>6. Contract!Free(IdOf(c) \cup KeyOf(c))
  BY <1>5, OwnerIs DEF Contract!Free, NoReq
<1>7. ASSUME NEW n \in Ids \cup ScopedKeys
      PROVE  Owner'[n] = IF n \in {} THEN 0 ELSE IF n \in IdOf(c) \cup KeyOf(c) THEN r ELSE Owner[n]
  <2>1. CASE n \in Ids
    <3>1. n \notin KeyOf(c)  BY <1>5, <2>1, OwnerIs
    <3> QED  BY <1>2, <1>3, <1>5, <2>1, <3>1, OwnerIs, OwnerIsNext, RequestIsNot0
  <2>2. CASE n \in ScopedKeys
    <3>1. n \notin IdOf(c)  BY <1>5, <2>2, OwnerIs
    <3>2. keyCache'[n] = IF n \in keyExpired THEN NoVerdict ELSE keyCache[n]
      BY <1>3, <2>2 DEF SweptCache
    <3>3. NoVerdict.src = NoReq  BY DEF NoVerdict
    <3> QED  BY <1>2, <1>3, <2>2, <3>1, <3>2, <3>3, OwnerIs, OwnerIsNext, RequestIsNot0
  <2> QED  BY <2>1, <2>2
<1>8. Owner' = Contract!Bound(IdOf(c) \cup KeyOf(c), r, {})  BY <1>7, OwnerBound
<1>9. AskOf(c).names = IdOf(c) \cup KeyOf(c)  BY DEF AskOf
<1>10. Contract!Execute(r, AskOf(c))
  BY <1>2, <1>3, <1>4, <1>6, <1>8, <1>9 DEF Contract!Execute
<1> QED  BY <1>2, <1>10 DEF Contract!Next

LEMMA SubmitContract ==
  ASSUME Inv1, QueueInv, OnceInv, FaithInv, NamesInv, Submit
  PROVE  Contract!Next
<1> PICK r : r = submitted + 1  OBVIOUS
<1>1. PICK c \in Commands :
         \/ RefuseShutdown(c) \/ AnswerConflict(c) \/ ReplayCached(c)
         \/ JoinInFlight(c) \/ RejectRateLimited(c) \/ RejectBusy(c)
         \/ AcceptNotJournaled(c) \/ Admit(c)
  BY DEF Submit
<1>2. Arrive(c)
  BY <1>1 DEF RefuseShutdown, AnswerConflict, ReplayCached, JoinInFlight, RejectRateLimited,
              RejectBusy, AnswerNow, AcceptNotJournaled, Admit
<1>3. /\ r \in Requests /\ AskOf(c) \in {AskOf(d) : d \in Commands}
      /\ Contract!Make(r, AskOf(c)) /\ stage[r] = "unsent" /\ Followed[r] = NoReq
  BY <1>2, Asking, SubmitFacts
<1>4. CASE RefuseShutdown(c)
  <2>1. /\ stage' = [stage EXCEPT ![r] = "closed"] /\ UNCHANGED <<waitsFor, storeVars>>
        /\ reply' = [reply EXCEPT ![r] = [src |-> r, kind |-> "refused"]]
    BY <1>4 DEF RefuseShutdown, Close
  <2>2. Followed' = Followed
    <3>1. \A q \in Requests : stage'[q] = "joined" <=> stage[q] = "joined"
      BY <1>3, <2>1 DEF Inv1, TypeOK
    <3> QED  BY <2>1, <3>1, SameFollowed
  <2>3. Owner' = Owner  BY <2>1 DEF Owner, storeVars
  <2>4. \E k \in Contract!Refusals : reply' = [reply EXCEPT ![r] = Contract!Own(r, k)]
    BY <2>1 DEF Contract!Refusals, Contract!Own
  <2>5. Contract!Refuse(r, AskOf(c))  BY <1>3, <2>2, <2>3, <2>4 DEF Contract!Refuse
  <2> QED  BY <1>3, <2>5 DEF Contract!Next
<1>5. CASE AnswerConflict(c) \/ RejectRateLimited(c) \/ RejectBusy(c)
  <2>1. PICK v \in {[src |-> submitted + 1, kind |-> k] : k \in {"conflict", "limited", "busy"}} :
          AnswerNow(c, v)
    BY <1>5 DEF AnswerConflict, RejectRateLimited, RejectBusy
  <2> QED  BY <2>1, AnswerNowContract
<1>6. CASE ReplayCached(c)
  <2>1. PICK h \in FirstHits(c) :
          h.how = "cached" /\ FingerprintsMatch(c, h) /\ AnswerNow(c, h.found)
    BY <1>6 DEF ReplayCached
  <2>2. runtime = "up"  BY <2>1 DEF AnswerNow
  <2>3. h.found.src \in Contract!Twins(AskOf(c)) /\ Backed(h.found) /\ h.found.src \in Requests
    BY <2>1, <2>2, FoundOwner, FoundFaith
  <2>4. h.found # NoVerdict  BY <2>3, RequestIsNot0 DEF NoVerdict
  <2> QED  BY <2>1, <2>3, <2>4, AnswerNowContract
<1>7. CASE JoinInFlight(c)
  <2>1. PICK h \in FirstHits(c) : /\ h.how = "join" /\ FingerprintsMatch(c, h)
                                  /\ waitsFor' = [waitsFor EXCEPT ![r] = h.found.src]
    BY <1>7 DEF JoinInFlight
  <2>2. /\ runtime = "up" /\ stage' = [stage EXCEPT ![r] = "joined"] /\ Sweep
        /\ UNCHANGED <<reply, inFlight, keyInFlight, outcomes>>
    BY <1>7 DEF JoinInFlight
  <2>3. h.found.src \in Contract!Twins(AskOf(c))  BY <2>1, <2>2, FoundOwner
  <2>4. Owner' = Owner  BY <2>2, SweptOwners
  <2>5. Followed' = [Followed EXCEPT ![r] = h.found.src]
    BY <1>3, <2>1, <2>2 DEF Followed, Inv1, TypeOK
  <2>6. Contract!Follow(r, AskOf(c))  BY <1>3, <2>2, <2>3, <2>4, <2>5 DEF Contract!Follow
  <2> QED  BY <1>3, <2>6 DEF Contract!Next
<1>8. CASE AcceptNotJournaled(c)  BY <1>8, AcceptContract
<1>9. CASE Admit(c)  BY <1>9, AdmitContract
<1> QED  BY <1>1, <1>4, <1>5, <1>6, <1>7, <1>8, <1>9

\* An answer to an admitted request is its decision.
LEMMA ConcludeContract ==
  ASSUME Inv1, QueueInv, OnceInv, FaithInv, NamesInv, NEW r \in Requests, Pending(r),
         NEW k \in Returned \cup {"timeout"}, Conclude(r, k)
  PROVE  Contract!Next
<1>1. PICK v \in FinalVerdicts(r, [src |-> r, kind |-> k]) :
        Settle(r, cmd[r], keyCache, keyExpired, v)
  BY DEF Conclude
<1>2. UNCHANGED <<cmd, stage, waitsFor>> /\ reply' = [reply EXCEPT ![r] = v]
  BY <1>1 DEF Conclude, Settle, clientVars, laneVars
<1>3. Asked' = Asked /\ Followed' = Followed  BY <1>2 DEF Asked, Followed
<1>4. /\ cmd[r] \in Commands /\ cmd[r] # NoCommand
      /\ IdOf(cmd[r]) \subseteq Ids /\ KeyOf(cmd[r]) \subseteq ScopedKeys
  BY PendingNames
<1>5. v.src = r /\ \E e \in Contract!Endings : v = Contract!Own(r, e)
  BY <1>1 DEF FinalVerdicts, Returned, Contract!Endings, Contract!Own
<1>6. Asked[r] = AskOf(cmd[r]) /\ Asked[r].names = IdOf(cmd[r]) \cup KeyOf(cmd[r])
      /\ Asked[r] # NoCommand
  BY <1>4, ContractAssumption DEF Asked, AskOf
<1>7. Followed[r] = 0 /\ ~Contract!Answered(r)
  BY DEF Followed, NoReq, Pending, Entered, Answered, Contract!Answered
<1>8. /\ \A i \in IdOf(cmd[r]) : inFlight[i] \in {r, NoReq} /\ outcomes[i] = NoVerdict
      /\ \A x \in KeyOf(cmd[r]) : keyInFlight[x] \in {r, NoReq} /\ keyCache[x] = NoVerdict
  <2>1. ASSUME NEW i \in IdOf(cmd[r]), inFlight[i] # NoReq PROVE inFlight[i] = r
    <3>1. /\ inFlight[i] \in Requests /\ Pending(inFlight[i]) /\ i \in IdOf(cmd[inFlight[i]])
      BY <1>4, <2>1, Registered
    <3> QED  BY <3>1 DEF NamesInv, Alone, Shared
  <2>2. ASSUME NEW x \in KeyOf(cmd[r]), keyInFlight[x] # NoReq PROVE keyInFlight[x] = r
    <3>1. /\ keyInFlight[x] \in Requests /\ Pending(keyInFlight[x]) /\ x \in KeyOf(cmd[keyInFlight[x]])
      BY <1>4, <2>2, Registered
    <3> QED  BY <3>1 DEF NamesInv, Alone, Shared
  <2> QED  BY <2>1, <2>2 DEF NamesInv, Fresh
<1>9. \A n \in Asked[r].names : Owner[n] \in {0, r}
  BY <1>4, <1>6, <1>8, OwnerIs DEF NoVerdict, NoReq
<1>10. /\ \A i \in Ids : inFlight[i] = r => i \in IdOf(cmd[r])
       /\ \A x \in ScopedKeys : keyInFlight[x] = r => x \in KeyOf(cmd[r])
  BY Registered, RequestIsNot0
<1>11. \E dropped \in Contract!Droppable :
         Owner' = Contract!Bound(IdOf(cmd[r]) \cup KeyOf(cmd[r]), r, dropped)
  BY <1>1, <1>4, <1>5, <1>8, <1>10, SettleContract
<1>12. \E e \in Contract!Endings : reply' = [reply EXCEPT ![r] = Contract!Own(r, e)]
  BY <1>2, <1>5
<1>13. Contract!Decide(r)
  BY <1>3, <1>6, <1>7, <1>9, <1>11, <1>12 DEF Contract!Decide
<1> QED  BY <1>13 DEF Contract!Next

\* A joined request gets the answer it followed, or a failure of its own.
LEMMA JoinedContract ==
  ASSUME Inv1, FaithInv, NEW r \in Requests, AnswerJoined(r)
  PROVE  Contract!Next
<1>1. /\ stage[r] = "joined" /\ Answered(waitsFor[r]) /\ UNCHANGED <<cmd, waitsFor, storeVars>>
      /\ stage' = [stage EXCEPT ![r] = "closed"]
      /\ \E v \in FinalVerdicts(r, reply[waitsFor[r]]) : reply' = [reply EXCEPT ![r] = v]
  BY DEF AnswerJoined, Close, clientVars
<1>2. Followed[r] = waitsFor[r] /\ waitsFor[r] # 0
  BY <1>1, RequestIsNot0 DEF Followed, Inv1, Numbered, NoReq
<1>3. Followed' = [Followed EXCEPT ![r] = 0]
  BY <1>1 DEF Followed, NoReq, Inv1, TypeOK
<1>4. Asked' = Asked /\ Owner' = Owner  BY <1>1 DEF Asked, Owner, storeVars
<1>5. reply' \in {[reply EXCEPT ![r] = reply[Followed[r]]], [reply EXCEPT ![r] = Contract!Own(r, "fail")]}
  BY <1>1, <1>2 DEF FinalVerdicts, Contract!Own
<1>6. Contract!FollowUp(r)
  BY <1>1, <1>2, <1>3, <1>4, <1>5 DEF Contract!FollowUp, Contract!Answered, Answered
<1> QED  BY <1>6 DEF Contract!Next

\* What expires is released, and disposal tears everything down.
LEMMA ReleaseContract ==
  ASSUME Inv1, OnceInv, FaithInv, NamesInv, Dispose \/ \E k \in ScopedKeys : KeyExpires(k)
  PROVE  Contract!Next
<1>1. CASE Dispose
  <2>1. /\ UNCHANGED <<cmd, stage, waitsFor, reply>>
        /\ \A i \in Ids : inFlight'[i] = NoReq /\ outcomes'[i] = NoVerdict
        /\ \A k \in ScopedKeys : keyInFlight'[k] = NoReq /\ keyCache'[k] = NoVerdict
    BY <1>1 DEF Dispose, clientVars
  <2>2. \A n \in Ids \cup ScopedKeys : Owner'[n] = 0
    BY <2>1, OwnerIsNext DEF NoReq, NoVerdict
  <2>3. Owner' = [n \in Ids \cup ScopedKeys |-> 0]  BY <2>2, OwnerFunctionNext
  <2>4. Contract!TearDown  BY <2>1, <2>3 DEF Contract!TearDown, Asked, Followed
  <2> QED  BY <2>4 DEF Contract!Next
<1>2. ASSUME NEW k \in ScopedKeys, KeyExpires(k) PROVE Contract!Next
  <2>1. /\ keyCache[k] # NoVerdict /\ k \notin keyExpired /\ keyExpired' = keyExpired \cup {k}
        /\ UNCHANGED <<cmd, stage, waitsFor, reply, inFlight, keyInFlight, outcomes, keyCache>>
    BY <1>2 DEF KeyExpires, clientVars, laneVars
  <2>2. keyInFlight[k] = NoReq  BY <2>1, Registered
  <2>3. Owner[k] = keyCache[k].src  BY <2>1, <2>2, OwnerIs
  <2>4. Backed(keyCache[k])  BY <2>1 DEF FaithInv, Sourced
  <2>5. Owner[k] # 0 /\ Contract!Answered(Owner[k])
    BY <2>1, <2>3, <2>4, RequestIsNot0 DEF Backed, Contract!Answered, NoReq
  <2>6. \A n \in Ids \cup ScopedKeys : Owner'[n] = IF n = k THEN 0 ELSE Owner[n]
    BY <2>1, <2>2, OwnerIs, OwnerIsNext DEF NoReq
  <2>7. Owner' = [Owner EXCEPT ![k] = 0]
    BY <2>6, OwnerFunction, OwnerFunctionNext
  <2>8. Contract!Release(k)
    BY <2>1, <2>5, <2>7 DEF Contract!Release, Asked, Followed
  <2> QED  BY <2>8 DEF Contract!Next
<1> QED  BY <1>1, <1>2

LEMMA NextContract ==
  Inv1 /\ QueueInv /\ OnceInv /\ FaithInv /\ NamesInv /\ [Next]_vars => [Contract!Next]_(Contract!vars)
<1> SUFFICES ASSUME Inv1, QueueInv, OnceInv, FaithInv, NamesInv, [Next]_vars
             PROVE  [Contract!Next]_(Contract!vars)
  OBVIOUS
<1>1. CASE Submit  BY <1>1, SubmitContract
<1>2. CASE \E r \in Requests : AnswerResult(r) \/ AnswerTimeout(r)
  <2>1. PICK r \in Requests : AnswerResult(r) \/ AnswerTimeout(r)  BY <1>2
  <2>2. PICK k \in Returned \cup {"timeout"} : Pending(r) /\ Conclude(r, k)
    BY <2>1 DEF AnswerResult, AnswerTimeout, NamesInv, Resulted
  <2> QED  BY <2>2, ConcludeContract
<1>3. CASE \E r \in Requests : AnswerJoined(r)  BY <1>3, JoinedContract
<1>4. CASE Dispose \/ \E k \in ScopedKeys : KeyExpires(k)  BY <1>4, ReleaseContract
<1>5. CASE \E r \in Requests : Task(r)
  <2>1. PICK r \in Requests : Task(r)  BY <1>5
  <2>2. /\ UNCHANGED <<cmd, reply, storeVars>> /\ stage[r] # "joined"
        /\ \A q \in Requests : q # r => waitsFor'[q] = waitsFor[q]
        /\ \E s \in {"running", "waiting", "released"} : stage' = [stage EXCEPT ![r] = s]
    BY <2>1, TaskFacts DEF clientVars
  <2>3. Followed' = Followed
    <3>1. \A q \in Requests : /\ stage'[q] = "joined" <=> stage[q] = "joined"
                              /\ stage[q] = "joined" => waitsFor'[q] = waitsFor[q]
      BY <2>2 DEF Inv1, TypeOK
    <3> QED  BY <3>1, SameFollowed
  <2> QED  BY <2>2, <2>3 DEF Contract!vars, Asked, Owner, storeVars
<1>6. CASE (\E r \in Requests : CommandTimeout(r)) \/ InitiateShutdown \/ Quiescent \/ UNCHANGED vars
  <2>1. UNCHANGED <<cmd, stage, waitsFor, reply, storeVars>>
    BY <1>6 DEF CommandTimeout, InitiateShutdown, Quiescent, vars, clientVars, laneVars
  <2> QED  BY <2>1 DEF Contract!vars, Asked, Followed, Owner, storeVars
<1> QED  BY <1>1, <1>2, <1>3, <1>4, <1>5, <1>6 DEF Next, Answer

\* The replay store, both in-flight tables, the eviction queue, the key cache with its expiry,
\* the lanes, the timers and disposal together implement the contract: each name is bound to at
\* most one execution, each request is answered once, and a copied answer is that of the
\* execution bound to one of its names, under the same fingerprint.
THEOREM KeepsContractHolds == Spec => KeepsContract
<1>1. Init => Contract!Init
  <2> SUFFICES ASSUME Init PROVE Contract!Init  OBVIOUS
  <2>1. Asked = [r \in Requests |-> NoCommand] /\ Followed = [r \in Requests |-> 0]
    BY DEF Init, Asked, Followed, NoReq
  <2>2. \A n \in Ids \cup ScopedKeys : Owner[n] = 0
    BY OwnerIs DEF Init, NoReq, NoVerdict
  <2>3. Owner = [n \in Ids \cup ScopedKeys |-> 0]  BY <2>2, OwnerFunction
  <2> QED  BY <2>1, <2>3 DEF Contract!Init, Init
<1>2. Spec => []QueueInv  BY SpecBounded, PTL
<1> QED  BY <1>1, <1>2, NextContract, SpecNames, PTL DEF Spec, KeepsContract, Contract!Spec
=============================================================================
