----------------------- MODULE SessionLifecycleProofs -----------------------
(***************************************************************************)
(* Failure atomicity of the session operations, and freedom from lost      *)
(* updates, for any number of operations and sessions, as long as clients  *)
(* create no duplicates, cleanup does not throw, and neither the sweep nor *)
(* a disposal interferes (the runs show what happens when they do).  Then, *)
(* with all of these but the duplicates, that the books balance.           *)
(***************************************************************************)
EXTENDS SessionLifecycle, FiniteSetTheorems, SequenceTheorems, TLAPS

Undisturbed == ~MayDuplicate /\ ~MayExpire /\ ~MayDispose /\ ~MayFailCleanup

InFlight(o) == pc[o] \notin {"idle", "ok", "failed"}

Types ==
  /\ sessions \in [Ids -> Ops \cup {NoOp}] /\ lane \in [Ids -> Ops \cup {NoOp}]
  /\ versions \in [Ids -> Nat \cup {NoVersion}] /\ base \in [Ops -> Nat \cup {NoVersion}]
  /\ pc \in [Ops -> Labels] /\ ~disposed /\ due = {}

\* An operation in flight owns the lane of its session and is at a label of its kind.
InLane ==
  \A o \in Ops : InFlight(o) =>
    /\ lane[Id(o)] = o
    /\ \/ Publishes(o) /\ pc[o] \in {"opening", "asking", "building", "binding", "saving",
                                     "saved", "unsaving"}
       \/ Kind[o] = "delete" /\ pc[o] \in {"asking", "unstoring", "unstored"}
       \/ Kind[o] \in {"command", "query"} /\ pc[o] = "working"

\* What the operation in the lane has learnt about its session stays true.
StillTrue ==
  \A o \in Ops :
    /\ (InFlight(o) /\ Publishes(o)) => sessions[Id(o)] = NoOp
    /\ pc[o] \in {"unstoring", "unstored"} => sessions[Id(o)] # NoOp
    /\ pc[o] = "working" => sessions[Id(o)] # NoOp /\ base[o] = versions[Id(o)]

VersionsMatch == \A s \in Ids : versions[s] = NoVersion <=> sessions[s] = NoOp

LifeInv == Types /\ InLane /\ StillTrue /\ VersionsMatch

\* The registry's variables and what a step does to them.
Answers == [o \in Ops |-> IF Ended(o) THEN pc[o] ELSE "none"]
Silent == UNCHANGED <<versions, Answers>>

USE LifecycleAssumption

LEMMA LifeInit == Init => LifeInv
BY DEF Init, LifeInv, Types, InLane, StillTrue, VersionsMatch, InFlight, Labels

\* An operation that moves on to another label of its kind is silent.
LEMMA SilentStep ==
  ASSUME LifeInv, NEW o \in Ops, NEW l \in Labels, ~Ended(o), l \notin {"ok", "failed"},
         Goto(o, l), UNCHANGED versions
  PROVE  Silent
BY DEF Silent, Answers, Ended, Goto, LifeInv, Types

\* An operation that ends is answered.
LEMMA AnswerStep ==
  ASSUME LifeInv, NEW o \in Ops, NEW r \in {"ok", "failed"}, ~Ended(o), Goto(o, r)
  PROVE  Answers[o] = "none" /\ Answers' = [Answers EXCEPT ![o] = r]
BY DEF Answers, Ended, Goto, LifeInv, Types
-----------------------------------------------------------------------------
\* Entering the lane leaves every other operation in flight where it is.
LEMMA Entering ==
  ASSUME LifeInv, NEW o \in Ops, EnterLane(o), NEW l \in Labels, Goto(o, l)
  PROVE  /\ \A q \in Ops : (q # o /\ InFlight(q)) => Id(q) # Id(o)
         /\ \A q \in Ops : q # o => pc'[q] = pc[q]
         /\ pc' \in [Ops -> Labels] /\ pc'[o] = l
         /\ lane' \in [Ids -> Ops \cup {NoOp}] /\ lane'[Id(o)] = o
         /\ \A s \in Ids : s # Id(o) => lane'[s] = lane[s]
<1>1. Id(o) \in Ids BY DEF Id
<1>2. \A q \in Ops : (q # o /\ InFlight(q)) => Id(q) # Id(o)
  BY DEF EnterLane, LaneFree, LifeInv, InLane
<1>3. QED BY <1>1, <1>2 DEF EnterLane, Goto, LifeInv, Types

LEMMA LifeNext == ASSUME Undisturbed, LifeInv, [Next]_vars PROVE LifeInv'
<1> USE DEF LifeInv, Types, InLane, StillTrue, VersionsMatch, InFlight, Labels, Id, NoVersion
<1>0. CASE UNCHANGED vars BY <1>0 DEF vars
<1>1. ASSUME NEW o \in Ops, EnterPublish(o) PROVE LifeInv'
  <2>1. PICK l \in {"opening", "asking"} : Goto(o, l) BY <1>1 DEF EnterPublish, Ask
  <2>2. sessions[Id(o)] = NoOp /\ Publishes(o) BY <1>1 DEF EnterPublish, Undisturbed
  <2>3. UNCHANGED <<sessions, versions, base, due, disposed>> /\ EnterLane(o)
    BY <1>1 DEF EnterPublish
  <2>4. l \in Labels OBVIOUS
  <2>5. QED BY <2>1, <2>2, <2>3, <2>4, Entering DEF Publishes
<1>2. ASSUME NEW o \in Ops, EnterDelete(o) PROVE LifeInv'
  <2>1. Goto(o, "asking") /\ EnterLane(o) /\ Kind[o] = "delete"
        /\ UNCHANGED <<sessions, versions, base, due, disposed>>
    BY <1>2 DEF EnterDelete, Ask
  <2>2. "asking" \in Labels OBVIOUS
  <2>3. QED BY <2>1, <2>2, Entering DEF Publishes
<1>3. ASSUME NEW o \in Ops, EnterCommand(o) PROVE LifeInv'
  <2>1. Goto(o, "working") /\ EnterLane(o) /\ Kind[o] \in {"command", "query"}
        /\ UNCHANGED <<sessions, versions, due, disposed>> /\ sessions[Id(o)] # NoOp
        /\ base' = [base EXCEPT ![o] = versions[Id(o)]]
    BY <1>3 DEF EnterCommand
  <2>2. "working" \in Labels OBVIOUS
  <2>3. QED BY <2>1, <2>2, Entering DEF Publishes
<1>4. ASSUME NEW o \in Ops, RefuseCommand(o) PROVE LifeInv'
  BY <1>4 DEF RefuseCommand, Goto
<1>5. ASSUME NEW o \in Ops, LockRefused(o) PROVE LifeInv'
  BY <1>5 DEF LockRefused, Return, LeaveLane, Goto
<1>6. ASSUME NEW o \in Ops, OpenFile(o) PROVE LifeInv'
  BY <1>6 DEF OpenFile, Ask, Return, LeaveLane, Goto
<1>7. ASSUME NEW o \in Ops, Refuse(o) PROVE LifeInv'
  BY <1>7 DEF Refuse, Erase, Return, LeaveLane, Goto, Publishes
<1>8. ASSUME NEW o \in Ops, Reserve(o) PROVE LifeInv'
  BY <1>8 DEF Reserve, Goto
<1>9. ASSUME NEW o \in Ops, Built(o) PROVE LifeInv'
  BY <1>9 DEF Built, Goto
<1>10. ASSUME NEW o \in Ops, Bound(o) PROVE LifeInv'
  BY <1>10 DEF Bound, Goto
<1>11. ASSUME NEW o \in Ops, Saved(o) PROVE LifeInv'
  BY <1>11 DEF Saved, Goto
<1>12. ASSUME NEW o \in Ops, PublishFails(o) PROVE LifeInv'
  BY <1>12 DEF PublishFails, GiveUp, Erase, Return, LeaveLane, Goto, Publishes
<1>13. ASSUME NEW o \in Ops, SubscribeFails(o) PROVE LifeInv'
  BY <1>13 DEF SubscribeFails, Erase, Goto, Publishes
<1>14. ASSUME NEW o \in Ops, RollBack(o) PROVE LifeInv'
  BY <1>14 DEF RollBack, GiveUp, Erase, Return, LeaveLane, Goto, Publishes
<1>15. ASSUME NEW o \in Ops, Publish(o) PROVE LifeInv'
  BY <1>15 DEF Publish, Return, LeaveLane, Goto, Answer
<1>16. ASSUME NEW o \in Ops, DeleteMissing(o) PROVE LifeInv'
  BY <1>16 DEF DeleteMissing, Return, LeaveLane, Goto
<1>17. ASSUME NEW o \in Ops, BeginDelete(o) PROVE LifeInv'
  BY <1>17 DEF BeginDelete, Goto
<1>18. ASSUME NEW o \in Ops, StoreDeleted(o) PROVE LifeInv'
  BY <1>18 DEF StoreDeleted, Goto
<1>19. ASSUME NEW o \in Ops, StoreDeleteFails(o) PROVE LifeInv'
  BY <1>19 DEF StoreDeleteFails, Return, LeaveLane, Goto
<1>20. ASSUME NEW o \in Ops, Teardown(o) PROVE LifeInv'
  BY <1>20 DEF Teardown, Erase, Return, LeaveLane, Goto, Answer
<1>21. ASSUME NEW o \in Ops, FinishCommand(o) PROVE LifeInv'
  BY <1>21 DEF FinishCommand, NextVersion, Return, LeaveLane, Goto
<1>22. ASSUME NEW o \in Ops, EnterExpire(o) PROVE LifeInv'
  BY <1>22 DEF Undisturbed, EnterExpire, Sweep, SweepOn
<1>23. ASSUME NEW s \in Ids, Age(s) \/ Subscribe(s) PROVE LifeInv'
  BY <1>23 DEF Undisturbed, Age, Subscribe
<1>24. CASE Dispose BY <1>24 DEF Undisturbed, Dispose
<1>25. QED
  BY <1>0, <1>1, <1>2, <1>3, <1>4, <1>5, <1>6, <1>7, <1>8, <1>9, <1>10, <1>11, <1>12, <1>13, <1>14, <1>15, <1>16, <1>17, <1>18, <1>19, <1>20, <1>21, <1>22, <1>23, <1>24 DEF Next, Step
-----------------------------------------------------------------------------
LEMMA LifeInvariant == ASSUME Undisturbed PROVE Spec => []LifeInv
BY LifeInit, LifeNext, PTL DEF Spec

LEMMA FailStep ==
  ASSUME LifeInv, NEW o \in Ops, ~Ended(o), Goto(o, "failed"), UNCHANGED versions
  PROVE  Registry!Fail(o)
BY AnswerStep DEF Answers, Registry!Fail, Registry!Answered

\* Clearing the maps of an id that is not published changes no version.
LEMMA EraseNothing ==
  ASSUME LifeInv, NEW o \in Ops, sessions[Id(o)] = NoOp, Erase(o)
  PROVE  UNCHANGED versions
BY DEF LifeInv, VersionsMatch, Types, Erase, Id

\* The three steps at which an operation takes effect.
LEMMA PublishStep ==
  ASSUME LifeInv, NEW o \in Ops, Publish(o) PROVE Registry!Publish(o)
<1>1. pc[o] = "saved" /\ ~Ended(o) /\ InFlight(o) BY DEF Publish, Ended, InFlight
<1>2. Publishes(o) BY <1>1 DEF LifeInv, InLane
<1>3. versions[Id(o)] = NoVersion BY <1>1, <1>2 DEF LifeInv, StillTrue, VersionsMatch, Id
<1>4. Goto(o, "ok") /\ versions' = [versions EXCEPT ![Id(o)] = 0]
  BY DEF Publish, Return, Answer, LifeInv, Types
<1>5. Answers[o] = "none" /\ Answers' = [Answers EXCEPT ![o] = "ok"] BY <1>1, <1>4, AnswerStep
<1>6. QED
  BY <1>2, <1>3, <1>4, <1>5
  DEF Registry!Publish, Registry!Exists, Registry!Becomes, Registry!Answered,
      Registry!NoVersion, NoVersion, Answers, Id, Publishes

LEMMA TeardownStep ==
  ASSUME Undisturbed, LifeInv, NEW o \in Ops, Teardown(o) PROVE Registry!Remove(o)
<1>1. pc[o] = "unstored" /\ ~Ended(o) /\ InFlight(o) BY DEF Teardown, Ended, InFlight
<1>2. Kind[o] = "delete" BY <1>1 DEF LifeInv, InLane
<1>3. versions[Id(o)] # NoVersion BY <1>1 DEF LifeInv, StillTrue, VersionsMatch, Id
<1>4. Goto(o, "ok") /\ versions' = [versions EXCEPT ![Id(o)] = NoVersion]
  BY DEF Teardown, Erase, Return, Answer, LifeInv, Types, Undisturbed
<1>5. Answers[o] = "none" /\ Answers' = [Answers EXCEPT ![o] = "ok"] BY <1>1, <1>4, AnswerStep
<1>6. QED
  BY <1>2, <1>3, <1>4, <1>5
  DEF Registry!Remove, Registry!Exists, Registry!Becomes, Registry!Answered,
      Registry!NoVersion, NoVersion, Answers, Id

LEMMA FinishStep ==
  ASSUME LifeInv, NEW o \in Ops, FinishCommand(o)
  PROVE  Registry!Mutate(o) \/ Registry!Read(o) \/ Registry!Fail(o)
<1>1. pc[o] = "working" /\ ~Ended(o) /\ InFlight(o) BY DEF FinishCommand, Ended, InFlight
<1>2. Kind[o] \in {"command", "query"} BY <1>1 DEF LifeInv, InLane
<1>3. versions[Id(o)] # NoVersion BY <1>1 DEF LifeInv, StillTrue, VersionsMatch, Id
<1>4. CASE Goto(o, "failed") /\ UNCHANGED versions BY <1>1, <1>4, FailStep
<1>5. CASE Goto(o, "ok") /\ versions' = [versions EXCEPT ![Id(o)] = NextVersion(o)]
  <2>1. Answers[o] = "none" /\ Answers' = [Answers EXCEPT ![o] = "ok"]
    BY <1>1, <1>5, AnswerStep
  <2>2. CASE Kind[o] = "command"
    BY <1>3, <1>5, <2>1, <2>2
    DEF NextVersion, Registry!Mutate, Registry!Exists, Registry!Becomes, Registry!Answered,
        Registry!NoVersion, NoVersion, Answers, Id
  <2>3. CASE Kind[o] = "query"
    <3>1. versions' = versions BY <1>3, <1>5, <2>3 DEF NextVersion, LifeInv, Types, Id
    <3>2. QED
      BY <1>3, <2>1, <2>3, <3>1
      DEF Registry!Read, Registry!Exists, Registry!Answered, Registry!NoVersion, NoVersion,
          Answers, Id
  <2>4. QED BY <1>2, <2>2, <2>3
<1>6. QED BY <1>4, <1>5 DEF FinishCommand, Return

LEMMA RegistryStep ==
  ASSUME Undisturbed, LifeInv, [Next]_vars PROVE [Registry!Next]_(Registry!vars)
<1> DEFINE Goal == [Registry!Next]_(Registry!vars)
<1>0. Silent => Goal BY DEF Silent, Answers, Registry!vars
<1>1. CASE UNCHANGED vars
  <2>1. UNCHANGED <<versions, pc>> BY <1>1 DEF vars
  <2>2. QED BY <1>0, <2>1 DEF Silent, Answers, Ended
<1>2. ASSUME NEW o \in Ops, EnterPublish(o) \/ EnterDelete(o) \/ EnterCommand(o) PROVE Goal
  <2>1. pc[o] = "idle" /\ UNCHANGED versions
        /\ \E l \in {"opening", "asking", "working"} : Goto(o, l)
    BY <1>2 DEF EnterPublish, EnterDelete, EnterCommand, Ask
  <2>2. QED BY <1>0, <2>1, SilentStep DEF Labels, Ended
<1>3. ASSUME NEW o \in Ops,
             Reserve(o) \/ Built(o) \/ Bound(o) \/ Saved(o) \/ BeginDelete(o) \/ StoreDeleted(o)
      PROVE  Goal
  <2>1. ~Ended(o) /\ UNCHANGED versions
        /\ \E l \in {"building", "binding", "saving", "saved", "unstoring", "unstored"} : Goto(o, l)
    BY <1>3 DEF Reserve, Built, Bound, Saved, BeginDelete, StoreDeleted, Ended
  <2>2. QED BY <1>0, <2>1, SilentStep DEF Labels
<1>4. ASSUME NEW o \in Ops, SubscribeFails(o) PROVE Goal
  <2>1. pc[o] = "saved" /\ Erase(o) /\ Goto(o, "unsaving") BY <1>4 DEF SubscribeFails
  <2>2. sessions[Id(o)] = NoOp BY <2>1 DEF LifeInv, InLane, StillTrue, InFlight
  <2>3. UNCHANGED versions BY <2>1, <2>2, EraseNothing
  <2>4. QED BY <1>0, <2>1, <2>3, SilentStep DEF Labels, Ended
<1>5. ASSUME NEW o \in Ops, OpenFile(o) PROVE Goal
  <2>1. pc[o] = "opening" /\ UNCHANGED versions /\ (Goto(o, "asking") \/ Goto(o, "failed"))
    BY <1>5 DEF OpenFile, Ask, Return
  <2>2. CASE Goto(o, "asking") BY <1>0, <2>1, <2>2, SilentStep DEF Labels, Ended
  <2>3. CASE Goto(o, "failed") BY <2>1, <2>3, FailStep DEF Registry!Next, Ended
  <2>4. QED BY <2>1, <2>2, <2>3
<1>6. ASSUME NEW o \in Ops,
             RefuseCommand(o) \/ LockRefused(o) \/ DeleteMissing(o) \/ StoreDeleteFails(o)
      PROVE  Goal
  <2>1. ~Ended(o) /\ UNCHANGED versions /\ Goto(o, "failed")
    BY <1>6 DEF RefuseCommand, LockRefused, DeleteMissing, StoreDeleteFails, Return, Ended
  <2>2. QED BY <2>1, FailStep DEF Registry!Next
<1>7. ASSUME NEW o \in Ops, Refuse(o) \/ PublishFails(o) \/ RollBack(o) PROVE Goal
  <2>1. ~Ended(o) /\ InFlight(o) /\ Erase(o) /\ Goto(o, "failed")
    BY <1>7 DEF Refuse, PublishFails, RollBack, GiveUp, Return, Ended, InFlight
  <2>2. Publishes(o) BY <1>7, <2>1 DEF Refuse, PublishFails, RollBack, LifeInv, InLane
  <2>3. UNCHANGED versions BY <2>1, <2>2, EraseNothing DEF LifeInv, StillTrue
  <2>4. QED BY <2>1, <2>3, FailStep DEF Registry!Next
<1>8. ASSUME NEW o \in Ops, Publish(o) \/ Teardown(o) \/ FinishCommand(o) PROVE Goal
  BY <1>8, PublishStep, TeardownStep, FinishStep DEF Registry!Next
<1>9. ASSUME NEW o \in Ops, EnterExpire(o) PROVE Goal
  BY <1>9 DEF EnterExpire, Sweep, SweepOn, Undisturbed, LifeInv, Types
<1>10. ASSUME NEW s \in Ids, Age(s) \/ Subscribe(s) PROVE Goal
  <2>1. UNCHANGED <<versions, pc>> BY <1>10 DEF Age, Subscribe
  <2>2. QED BY <1>0, <2>1 DEF Silent, Answers, Ended
<1>11. CASE Dispose BY <1>11 DEF Dispose, Undisturbed
<1>12. QED
  BY <1>1, <1>2, <1>3, <1>4, <1>5, <1>6, <1>7, <1>8, <1>9, <1>10, <1>11 DEF Next, Step

\* Failure atomicity (ADR-0020): what clients see of the operations is what they would see
\* of atomic ones, a failed operation having no effect.
THEOREM FailureAtomic == ASSUME Undisturbed PROVE Spec => ImplementsRegistry
<1>1. Init => Registry!Init
  BY DEF Init, Registry!Init, Registry!NoVersion, NoVersion, Ended
<1>2. QED
  BY <1>1, LifeInvariant, RegistryStep, PTL DEF Spec, ImplementsRegistry, Registry!Spec

\* Only its own last step ends a command that is at work.
LEMMA OnlyFinishEnds ==
  ASSUME Undisturbed, LifeInv, Next, NEW o \in Ops, pc[o] = "working", pc'[o] = "ok"
  PROVE  FinishCommand(o)
<1>0. \A q \in Ops : \A l : Goto(q, l) => pc'[o] = IF o = q THEN l ELSE pc[o]
  BY DEF Goto, LifeInv, Types
<1>1. ASSUME NEW q \in Ops,
             \/ EnterPublish(q) \/ EnterDelete(q) \/ EnterCommand(q) \/ RefuseCommand(q)
             \/ LockRefused(q) \/ OpenFile(q) \/ Refuse(q) \/ Reserve(q)
      PROVE  FALSE
  BY <1>0, <1>1
  DEF EnterPublish, EnterDelete, EnterCommand, RefuseCommand, LockRefused, OpenFile, Refuse,
      Reserve, Ask, Return
<1>2. ASSUME NEW q \in Ops,
             \/ Built(q) \/ Bound(q) \/ Saved(q) \/ PublishFails(q) \/ SubscribeFails(q)
             \/ RollBack(q) \/ Publish(q)
      PROVE  FALSE
  BY <1>0, <1>2
  DEF Built, Bound, Saved, PublishFails, SubscribeFails, RollBack, Publish, GiveUp, Return
<1>3. ASSUME NEW q \in Ops,
             \/ DeleteMissing(q) \/ BeginDelete(q) \/ StoreDeleted(q) \/ StoreDeleteFails(q)
             \/ Teardown(q)
      PROVE  FALSE
  BY <1>0, <1>3
  DEF DeleteMissing, BeginDelete, StoreDeleted, StoreDeleteFails, Teardown, Return
<1>4. ASSUME NEW q \in Ops, FinishCommand(q), q # o PROVE FALSE
  BY <1>0, <1>4 DEF FinishCommand, Return
<1>5. ASSUME NEW q \in Ops, EnterExpire(q) PROVE FALSE
  BY <1>5 DEF EnterExpire, Sweep, SweepOn, Undisturbed, LifeInv, Types
<1>6. ASSUME NEW s \in Ids, Age(s) \/ Subscribe(s) PROVE FALSE BY <1>6 DEF Age, Subscribe
<1>7. CASE Dispose BY <1>7 DEF Dispose, Undisturbed
<1>8. QED BY <1>1, <1>2, <1>3, <1>4, <1>5, <1>6, <1>7 DEF Next, Step

\* Lost updates: a command that succeeds replaces the version it was checked against.
THEOREM NoLostUpdateHolds == ASSUME Undisturbed PROVE Spec => NoLostUpdate
<1> DEFINE Updates == \A o \in Ops :
      (Kind[o] = "command" /\ pc[o] = "working" /\ pc'[o] = "ok") => versions'[Id(o)] = base[o] + 1
<1>1. ASSUME LifeInv, [Next]_vars PROVE [Updates]_vars
  <2> SUFFICES ASSUME Next, NEW o \in Ops, Kind[o] = "command", pc[o] = "working", pc'[o] = "ok"
               PROVE  versions'[Id(o)] = base[o] + 1
    BY <1>1
  <2>1. FinishCommand(o) BY <1>1, OnlyFinishEnds
  <2>2. pc' # [pc EXCEPT ![o] = "failed"] BY <1>1 DEF LifeInv, Types
  <2>3. versions' = [versions EXCEPT ![Id(o)] = NextVersion(o)]
    BY <2>1, <2>2 DEF FinishCommand, Return, Goto
  <2>4. sessions[Id(o)] # NoOp /\ base[o] = versions[Id(o)] BY <1>1 DEF LifeInv, StillTrue
  <2>5. versions[Id(o)] # NoVersion /\ versions \in [Ids -> Nat \cup {NoVersion}]
    BY <1>1, <2>4 DEF LifeInv, VersionsMatch, Types, Id
  <2>6. NextVersion(o) = versions[Id(o)] + 1 BY <2>5 DEF NextVersion
  <2>7. QED BY <2>3, <2>4, <2>5, <2>6 DEF Id
<1>2. QED BY <1>1, LifeInvariant, PTL DEF Spec, NoLostUpdate
-----------------------------------------------------------------------------
(***************************************************************************)
(* The books balance, whatever fails, expires or is disposed of.           *)
(***************************************************************************)

Removing(o) == pc[o] \in {"unstoring", "unstored"}

Publishing(o) == Publishes(o) /\ InFlight(o)

\* An operation is at a label of its kind.
OfItsKind(o) ==
  /\ pc[o] = "opening" \/ o \in Reserving => Publishes(o)
  /\ Removing(o) => Deletes(o)
  /\ pc[o] = "asking" => Publishes(o) \/ Deletes(o)

\* Nobody else touches the session that an operation publishes: the lane keeps other creates
\* and loads away, and a delete, which the lane need not keep away, finds nothing.
PublishesAlone(o) ==
  Publishing(o) =>
    /\ sessions[Id(o)] = NoOp
    /\ disposed \/ lane[Id(o)] = o
    /\ \A p \in Ops \ {o} : Id(p) = Id(o) => ~Removing(p) /\ ~Publishing(p)
    /\ pc[o] = "saved" => stored[Id(o)] = o

\* Until disposal whoever removes a session holds its lock, and the session is still there.
RemovesLocked(o) ==
  Removing(o) =>
    /\ doomed[o] # NoOp /\ sessions[Id(o)] \in {NoOp, doomed[o]}
    /\ disposed \/ (HasTurn(o) /\ sessions[Id(o)] = doomed[o])

Flow == \A o \in Ops : OfItsKind(o) /\ PublishesAlone(o) /\ RemovesLocked(o)

BooksInv == BooksBalance /\ Flow

\* The queue of a lock without one of its members, and with one more.
LEMMA RemoveAtKeepsHead ==
  ASSUME NEW S, NEW q \in Seq(S), NEW n \in 1 .. Len(q)
  PROVE  /\ RemoveAt(q, n) \in Seq(S)
         /\ n # 1 => RemoveAt(q, n) # <<>> /\ Head(RemoveAt(q, n)) = Head(q)
<1> DEFINE a == SubSeq(q, 1, n - 1)
           b == SubSeq(q, n + 1, Len(q))
<1>1. a \in Seq(S) /\ Len(a) = n - 1 /\ \A i \in 1 .. (n - 1) : a[i] = q[i]
  BY SubSeqProperties
<1>2. b \in Seq(S) BY SubSeqProperties
<1>3. /\ a \o b \in Seq(S) /\ Len(a \o b) = Len(a) + Len(b)
      /\ \A i \in 1 .. (Len(a) + Len(b)) :
           (a \o b)[i] = IF i <= Len(a) THEN a[i] ELSE b[i - Len(a)]
  <2> HIDE DEF a, b
  <2>1. a \in Seq(S) /\ b \in Seq(S) BY <1>1, <1>2
  <2>2. QED BY <2>1, ConcatProperties
<1>4. RemoveAt(q, n) = a \o b BY DEF RemoveAt
<1>5. ASSUME n # 1 PROVE a \o b # <<>> /\ Head(a \o b) = Head(q)
  <2> HIDE DEF a, b
  <2>1. Len(b) \in Nat /\ Len(a) >= 1 BY <1>1, <1>2, <1>5
  <2>2. (a \o b)[1] = q[1] /\ Len(a \o b) >= 1 BY <1>1, <1>3, <2>1
  <2>3. q # <<>> /\ a \o b # <<>> BY <2>2
  <2>4. QED BY <1>3, <2>2, <2>3
<1> HIDE DEF a, b
<1>6. QED BY <1>3, <1>4, <1>5

LEMMA LocksAfterReturn ==
  ASSUME TypeOK, NEW o \in Ops, NEW result, Return(o, result)
  PROVE  /\ locks' \in [Ids -> Seq(Ops)]
         /\ \A p \in Ops : (p # o /\ HasTurn(p)) => HasTurn(p)'
<1> DEFINE q == locks[Id(o)]
           n == Position(o)
<1>1. q \in Seq(Ops) /\ Id(o) \in Ids BY DEF TypeOK, Id
<1>2. CASE o \in ToSet(q)
  <2>1. \E k \in DOMAIN q : q[k] = o BY <1>2 DEF ToSet
  <2>2. n \in DOMAIN q /\ q[n] = o BY <2>1 DEF Position
  <2>3. n \in 1 .. Len(q) BY <1>1, <2>2
  <2>4. locks' = [locks EXCEPT ![Id(o)] = RemoveAt(q, n)] BY <1>2 DEF Return, Unlocked
  <2>5. RemoveAt(q, n) \in Seq(Ops)
        /\ (n # 1 => RemoveAt(q, n) # <<>> /\ Head(RemoveAt(q, n)) = Head(q))
    BY <1>1, <2>3, RemoveAtKeepsHead
  <2>6. ASSUME NEW p \in Ops, p # o, HasTurn(p) PROVE HasTurn(p)'
    <3>1. CASE Id(p) = Id(o)
      <4>1. Head(q) = p /\ q # <<>> BY <2>6, <3>1 DEF HasTurn
      <4>2. q[1] = p BY <4>1, <1>1
      <4>3. n # 1 BY <2>2, <2>6, <4>2
      <4>4. QED BY <1>1, <2>4, <2>5, <3>1, <4>1, <4>3 DEF HasTurn, TypeOK, Id
    <3>2. CASE Id(p) # Id(o) BY <1>1, <2>4, <2>6, <3>2 DEF HasTurn, TypeOK, Id
    <3>3. QED BY <3>1, <3>2
  <2>7. locks' \in [Ids -> Seq(Ops)] BY <1>1, <2>4, <2>5 DEF TypeOK
  <2>8. QED BY <2>6, <2>7
<1>3. CASE o \notin ToSet(q)
  BY <1>3 DEF Return, Unlocked, TypeOK, HasTurn, Id
<1>4. QED BY <1>2, <1>3

LEMMA LocksAfterAsk ==
  ASSUME TypeOK, NEW o \in Ops, Ask(o)
  PROVE  /\ locks' \in [Ids -> Seq(Ops)]
         /\ \A p \in Ops : HasTurn(p) => HasTurn(p)'
<1>1. locks[Id(o)] \in Seq(Ops) /\ Id(o) \in Ids BY DEF TypeOK, Id
<1>2. locks' = [locks EXCEPT ![Id(o)] = Append(locks[Id(o)], o)] BY DEF Ask
<1>3. /\ Append(locks[Id(o)], o) \in Seq(Ops) /\ Append(locks[Id(o)], o) # <<>>
      /\ locks[Id(o)] # <<>> => Head(Append(locks[Id(o)], o)) = Head(locks[Id(o)])
  BY <1>1, AppendProperties, HeadTailAppend
<1>4. locks' \in [Ids -> Seq(Ops)] BY <1>1, <1>2, <1>3 DEF TypeOK
<1>5. ASSUME NEW p \in Ops, HasTurn(p) PROVE HasTurn(p)'
  <2>1. CASE Id(p) = Id(o) BY <1>1, <1>2, <1>3, <1>5, <2>1 DEF HasTurn, TypeOK
  <2>2. CASE Id(p) # Id(o) BY <1>1, <1>2, <1>5, <2>2 DEF HasTurn, TypeOK, Id
  <2>3. QED BY <2>1, <2>2
<1>6. QED BY <1>4, <1>5

LEMMA BooksInit == Init => BooksInv
<1> SUFFICES ASSUME Init PROVE BooksInv OBVIOUS
<1> USE DEF Init
<1>1. <<>> \in Seq(Ops) OBVIOUS
<1>2. TypeOK
  <2>1. {sessions, unsubs, stored, lane} \subseteq [Ids -> Ops \cup {NoOp}]
        /\ locks \in [Ids -> Seq(Ops)]
    BY <1>1
  <2>2. /\ versions \in [Ids -> Nat \cup {NoVersion}] /\ base \in [Ops -> Nat \cup {NoVersion}]
        /\ born \in [Ids -> {"none", "fresh", "old"}]
    BY DEF NoVersion
  <2>3. pc \in [Ops -> Labels] /\ doomed \in [Ops -> Ops \cup {NoOp}] BY DEF Labels
  <2>4. live \subseteq Ops /\ slots \in 0 .. MaxSessions /\ doubles \in BOOLEAN
        /\ due \subseteq Ids /\ watching \subseteq Ids /\ disposed \in BOOLEAN
    <3>1. slots \in 0 .. MaxSessions OBVIOUS
    <3>2. live \subseteq Ops /\ doubles \in BOOLEAN /\ disposed \in BOOLEAN OBVIOUS
    <3>3. due \subseteq Ids /\ watching \subseteq Ids OBVIOUS
    <3>4. QED BY <3>1, <3>2, <3>3
  <2> HIDE DEF Init
  <2>5. QED BY <2>1, <2>2, <2>3, <2>4 DEF TypeOK
<1>3. Published = {} /\ Reserving = {} BY DEF Published, Reserving
<1>4. SlotsAccount BY <1>3, FS_EmptySet DEF SlotsAccount
<1>5. NoGhosts /\ PersistedFirst /\ WatchersFollow
  BY <1>3 DEF NoGhosts, PersistedFirst, WatchersFollow
<1>6. Flow
  BY DEF Flow, OfItsKind, PublishesAlone, RemovesLocked, Publishing, Reserving, Removing, InFlight
<1>7. QED BY <1>2, <1>4, <1>5, <1>6 DEF BooksInv, BooksBalance

\* What a step of o leaves of the others.
Others(o) ==
  \A p \in Ops \ {o} :
    /\ pc'[p] = pc[p] /\ doomed'[p] = doomed[p] /\ (HasTurn(p) => HasTurn(p)')
    /\ \A s \in Ids : lane[s] = p => lane'[s] = p

LEMMA Returning ==
  ASSUME TypeOK, NEW o \in Ops, NEW r \in {"ok", "failed"}, Return(o, r), UNCHANGED doomed
  PROVE  pc'[o] = r /\ Others(o)
BY LocksAfterReturn DEF Return, Goto, LeaveLane, Others, TypeOK

LEMMA Asking ==
  ASSUME TypeOK, NEW o \in Ops, Ask(o), UNCHANGED doomed, UNCHANGED lane \/ EnterLane(o)
  PROVE  pc'[o] = "asking" /\ Others(o)
<1>1. \A p \in Ops \ {o} : \A s \in Ids : lane[s] = p => lane'[s] = p
  BY DEF EnterLane, LaneFree, TypeOK, Id
<1>2. pc'[o] = "asking" /\ \A p \in Ops \ {o} : pc'[p] = pc[p] BY DEF Ask, Goto, TypeOK
<1>3. QED BY <1>1, <1>2, LocksAfterAsk DEF Others

LEMMA Moving ==
  ASSUME TypeOK, NEW o \in Ops, NEW l, Goto(o, l), UNCHANGED locks,
         UNCHANGED lane \/ EnterLane(o),
         UNCHANGED doomed \/ doomed' = [doomed EXCEPT ![o] = sessions[Id(o)]]
  PROVE  pc'[o] = l /\ Others(o)
BY DEF Goto, EnterLane, LaneFree, Others, TypeOK, Id, HasTurn

\* The flow of the others is kept when what they rely on is.
Relied(o) ==
  \A p \in Ops \ {o} :
    /\ Publishing(p) => sessions'[Id(p)] = NoOp /\ stored'[Id(p)] = stored[Id(p)]
    /\ Removing(p) => \/ sessions'[Id(p)] = sessions[Id(p)]
                      \/ disposed /\ sessions'[Id(p)] = NoOp

\* A session that o begins to publish or to remove is nobody else's.
Begins(o) ==
  /\ Removing(o)' => Removing(o) \/ \A p \in Ops \ {o} : Id(p) = Id(o) => ~Publishing(p)
  /\ Publishing(o)' => Publishing(o) \/ \A p \in Ops \ {o} : Id(p) = Id(o) => ~Removing(p) /\ ~Publishing(p)

LEMMA OthersFlow ==
  ASSUME TypeOK, Flow, NEW o \in Ops, Others(o), UNCHANGED disposed, Relied(o), Begins(o)
  PROVE  /\ \A p \in Ops \ {o} : (OfItsKind(p) /\ PublishesAlone(p) /\ RemovesLocked(p))'
         /\ Publishing(o)' =>
              \A p \in Ops \ {o} : Id(p) = Id(o) => ~Removing(p)' /\ ~Publishing(p)'
<1>1. \A p \in Ops \ {o} : (Removing(p)' <=> Removing(p)) /\ (Publishing(p)' <=> Publishing(p))
  BY DEF Others, Removing, Publishing, InFlight
<1>2. ASSUME NEW p \in Ops \ {o} PROVE OfItsKind(p)'
  BY DEF Flow, OfItsKind, Others, Removing, Reserving
<1>3. ASSUME NEW p \in Ops \ {o}, Publishing(p)
      PROVE  /\ sessions'[Id(p)] = NoOp /\ (disposed' \/ lane'[Id(p)] = p)
             /\ pc'[p] = "saved" => stored'[Id(p)] = p
             /\ \A q \in Ops \ {p} : Id(q) = Id(p) => ~Removing(q)' /\ ~Publishing(q)'
  <2>1. Id(p) \in Ids BY DEF Id
  <2>2. sessions'[Id(p)] = NoOp /\ stored'[Id(p)] = stored[Id(p)] BY <1>3 DEF Relied
  <2>3. PublishesAlone(p) BY DEF Flow
  <2>4. disposed' \/ lane'[Id(p)] = p BY <1>3, <2>1, <2>3 DEF PublishesAlone, Others
  <2>5. pc'[p] = "saved" => stored'[Id(p)] = p BY <1>3, <2>2, <2>3 DEF PublishesAlone, Others
  <2>6. ASSUME NEW q \in Ops \ {p}, Id(q) = Id(p) PROVE ~Removing(q)' /\ ~Publishing(q)'
    <3>1. ~Removing(q) /\ ~Publishing(q) BY <1>3, <2>3, <2>6 DEF PublishesAlone
    <3>2. CASE q # o BY <1>1, <3>1, <3>2
    <3>3. CASE q = o BY <1>3, <2>6, <3>1, <3>3 DEF Begins
    <3>4. QED BY <3>2, <3>3
  <2>7. QED BY <2>2, <2>4, <2>5, <2>6
<1>4. ASSUME NEW p \in Ops \ {o} PROVE RemovesLocked(p)'
  <2> SUFFICES ASSUME Removing(p)' PROVE RemovesLocked(p)' BY DEF RemovesLocked
  <2>1. Removing(p) BY <1>1
  <2>2. RemovesLocked(p) BY DEF Flow
  <2>3. sessions'[Id(p)] = sessions[Id(p)] \/ (disposed /\ sessions'[Id(p)] = NoOp)
    BY <2>1 DEF Relied
  <2>4. doomed'[p] = doomed[p] /\ (HasTurn(p) => HasTurn(p)') BY DEF Others
  <2>5. QED BY <2>1, <2>2, <2>3, <2>4 DEF RemovesLocked
<1>5. ASSUME NEW p \in Ops \ {o}, Publishing(o)', Id(p) = Id(o)
      PROVE  ~Removing(p)' /\ ~Publishing(p)'
  <2>1. ~Removing(p) /\ ~Publishing(p) BY <1>5 DEF Begins, Flow, PublishesAlone
  <2>2. QED BY <1>1, <2>1
<1>6. QED BY <1>1, <1>2, <1>3, <1>4, <1>5 DEF PublishesAlone

LEMMA ReliedUnchanged ==
  ASSUME Flow, NEW o \in Ops, UNCHANGED <<sessions, stored>> PROVE Relied(o)
BY DEF Relied, Flow, PublishesAlone

\* Who publishes or removes a session may change what is known of it.
Only(o) == \A s \in Ids \ {Id(o)} : sessions'[s] = sessions[s] /\ stored'[s] = stored[s]

LEMMA ReliedPublisher ==
  ASSUME Flow, NEW o \in Ops, Publishing(o), Only(o) PROVE Relied(o)
<1> SUFFICES ASSUME NEW p \in Ops \ {o}, Publishing(p) \/ Removing(p)
             PROVE  sessions'[Id(p)] = sessions[Id(p)] /\ stored'[Id(p)] = stored[Id(p)]
  BY DEF Relied, Flow, PublishesAlone
<1>1. Id(p) # Id(o) BY DEF Flow, PublishesAlone
<1>2. QED BY <1>1 DEF Only, Id

LEMMA ReliedRemover ==
  ASSUME Flow, NEW o \in Ops, Removing(o), Only(o), sessions'[Id(o)] \in {sessions[Id(o)], NoOp}
  PROVE  Relied(o)
<1>1. ASSUME NEW p \in Ops \ {o}, Publishing(p)
      PROVE  sessions'[Id(p)] = NoOp /\ stored'[Id(p)] = stored[Id(p)]
  <2>1. Id(p) # Id(o) /\ sessions[Id(p)] = NoOp BY <1>1 DEF Flow, PublishesAlone
  <2>2. QED BY <2>1 DEF Only, Id
<1>2. ASSUME NEW p \in Ops \ {o}, Removing(p), ~disposed PROVE Id(p) # Id(o)
  BY <1>2 DEF Flow, RemovesLocked, HasTurn
<1>3. ASSUME NEW p \in Ops \ {o}, Removing(p)
      PROVE  sessions'[Id(p)] = sessions[Id(p)] \/ (disposed /\ sessions'[Id(p)] = NoOp)
  <2>1. CASE Id(p) # Id(o) BY <2>1 DEF Only, Id
  <2>2. CASE Id(p) = Id(o) BY <1>2, <1>3, <2>2
  <2>3. QED BY <2>1, <2>2
<1>4. QED BY <1>1, <1>3 DEF Relied

\* An operation that returns, and one that moves on within its flow.
LEMMA FlowReturning ==
  ASSUME TypeOK, Flow, NEW o \in Ops, NEW r \in {"ok", "failed"}, Return(o, r),
         UNCHANGED <<doomed, disposed>>, Relied(o)
  PROVE  Flow'
<1>1. pc'[o] = r /\ Others(o) BY Returning
<1>2. ~Removing(o)' /\ ~Publishing(o)' /\ OfItsKind(o)'
  BY <1>1 DEF Removing, Publishing, InFlight, OfItsKind, Reserving
<1>3. Begins(o) BY <1>2 DEF Begins
<1>4. \A p \in Ops \ {o} : (OfItsKind(p) /\ PublishesAlone(p) /\ RemovesLocked(p))'
  BY <1>1, <1>3, OthersFlow
<1>5. (PublishesAlone(o) /\ RemovesLocked(o))' BY <1>2 DEF PublishesAlone, RemovesLocked
<1>6. QED BY <1>2, <1>4, <1>5 DEF Flow

LEMMA FlowPublishing ==
  ASSUME TypeOK, Flow, NEW o \in Ops, Publishing(o),
         NEW l \in {"asking", "building", "binding", "saving", "saved", "unsaving"},
         pc'[o] = l, Others(o), UNCHANGED <<doomed, disposed, lane>>, Only(o),
         sessions'[Id(o)] = NoOp, l = "saved" => stored'[Id(o)] = o
  PROVE  Flow'
<1>1. Relied(o) BY ReliedPublisher
<1>2. Publishing(o)' /\ ~Removing(o)' /\ OfItsKind(o)'
  BY DEF Removing, Publishing, InFlight, OfItsKind, Reserving
<1>3. Begins(o) BY <1>2 DEF Begins
<1>4. /\ \A p \in Ops \ {o} : (OfItsKind(p) /\ PublishesAlone(p) /\ RemovesLocked(p))'
      /\ \A p \in Ops \ {o} : Id(p) = Id(o) => ~Removing(p)' /\ ~Publishing(p)'
  BY <1>1, <1>2, <1>3, OthersFlow
<1>5. disposed' \/ lane'[Id(o)] = o BY DEF Flow, PublishesAlone
<1>6. (PublishesAlone(o) /\ RemovesLocked(o))'
  BY <1>2, <1>4, <1>5 DEF PublishesAlone, RemovesLocked
<1>7. QED BY <1>2, <1>4, <1>6 DEF Flow

LEMMA FlowRemoving ==
  ASSUME TypeOK, Flow, NEW o \in Ops, Deletes(o), NEW l \in {"unstoring", "unstored"},
         pc'[o] = l, Others(o), UNCHANGED <<sessions, disposed>>, Only(o),
         Removing(o) \/ sessions[Id(o)] # NoOp,
         doomed'[o] # NoOp, sessions[Id(o)] \in {NoOp, doomed'[o]},
         disposed \/ (HasTurn(o)' /\ sessions[Id(o)] = doomed'[o])
  PROVE  Flow'
<1>1. ASSUME NEW p \in Ops \ {o}, Publishing(p) PROVE Id(p) # Id(o)
  BY <1>1 DEF Flow, PublishesAlone
<1>2. Relied(o) BY <1>1 DEF Relied, Only, Id, Flow, PublishesAlone
<1>3. ~Publishing(o)' /\ Removing(o)' /\ OfItsKind(o)'
  BY DEF Removing, Publishing, Publishes, Deletes, OfItsKind, Reserving
<1>4. Begins(o) BY <1>1, <1>3 DEF Begins
<1>5. \A p \in Ops \ {o} : (OfItsKind(p) /\ PublishesAlone(p) /\ RemovesLocked(p))'
  BY <1>2, <1>4, OthersFlow
<1>6. (PublishesAlone(o) /\ RemovesLocked(o))' BY <1>3 DEF PublishesAlone, RemovesLocked
<1>7. QED BY <1>3, <1>5, <1>6 DEF Flow

\* An operation that neither publishes nor removes yet, and one that starts to publish.
LEMMA FlowApart ==
  ASSUME TypeOK, Flow, NEW o \in Ops, Others(o), UNCHANGED <<sessions, stored, disposed>>,
         ~Publishing(o)', ~Removing(o)', OfItsKind(o)'
  PROVE  Flow'
<1>1. Relied(o) /\ Begins(o) BY ReliedUnchanged DEF Begins
<1>2. \A p \in Ops \ {o} : (OfItsKind(p) /\ PublishesAlone(p) /\ RemovesLocked(p))'
  BY <1>1, OthersFlow
<1>3. (PublishesAlone(o) /\ RemovesLocked(o))' BY DEF PublishesAlone, RemovesLocked
<1>4. QED BY <1>2, <1>3 DEF Flow

LEMMA FlowEntering ==
  ASSUME TypeOK, Flow, NEW o \in Ops, Others(o), UNCHANGED <<sessions, stored, disposed>>,
         Publishes(o), pc'[o] \in {"opening", "asking"}, ~disposed,
         sessions[Id(o)] = NoOp, EnterLane(o)
  PROVE  Flow'
<1>1. Publishing(o)' /\ ~Removing(o)' /\ OfItsKind(o)'
  BY DEF Removing, Publishing, InFlight, OfItsKind, Reserving
<1>2. ASSUME NEW p \in Ops \ {o}, Id(p) = Id(o) PROVE ~Removing(p) /\ ~Publishing(p)
  BY <1>2 DEF Flow, PublishesAlone, RemovesLocked, EnterLane, LaneFree
<1>3. Relied(o) /\ Begins(o) BY <1>1, <1>2, ReliedUnchanged DEF Begins
<1>4. /\ \A p \in Ops \ {o} : (OfItsKind(p) /\ PublishesAlone(p) /\ RemovesLocked(p))'
      /\ \A p \in Ops \ {o} : Id(p) = Id(o) => ~Removing(p)' /\ ~Publishing(p)'
  BY <1>1, <1>3, OthersFlow
<1>5. lane'[Id(o)] = o BY DEF EnterLane, TypeOK, Id
<1>6. (PublishesAlone(o) /\ RemovesLocked(o))'
  BY <1>1, <1>4, <1>5 DEF PublishesAlone, RemovesLocked
<1>7. QED BY <1>1, <1>4, <1>6 DEF Flow

LEMMA ReliedIdle ==
  ASSUME Flow, NEW o \in Ops, UNCHANGED <<sessions, stored>> PROVE Relied(o) /\ Only(o)
BY ReliedUnchanged DEF Only

\* Clearing the maps of its session is the business of a publisher and of a remover.
LEMMA ErasedOnly ==
  ASSUME TypeOK, NEW o \in Ops, Erase(o), NEW m \in {NoOp, o},
         UNCHANGED stored \/ stored' = [stored EXCEPT ![Id(o)] = m]
  PROVE  Only(o) /\ sessions'[Id(o)] = NoOp
BY DEF Erase, Only, TypeOK, Id

LEMMA FlowDispose == ASSUME TypeOK, Flow, Dispose PROVE Flow'
<1>0. /\ disposed' /\ UNCHANGED <<stored, doomed>>
      /\ pc' = [o \in Ops |-> IF pc[o] = "asking" THEN "failed" ELSE pc[o]]
      /\ sessions' = [s \in Ids |-> NoOp]
  BY DEF Dispose
<1>1. \A o \in Ops : /\ Removing(o)' <=> Removing(o)
                     /\ Publishing(o)' => Publishing(o)
  BY <1>0 DEF Removing, Publishing, InFlight, TypeOK
<1>2. ASSUME NEW o \in Ops PROVE OfItsKind(o)'
  BY <1>0, <1>1 DEF Flow, OfItsKind, Reserving, Removing
<1>3. ASSUME NEW o \in Ops PROVE PublishesAlone(o)'
  BY <1>0, <1>1 DEF Flow, PublishesAlone, TypeOK, Id
<1>4. ASSUME NEW o \in Ops PROVE RemovesLocked(o)'
  BY <1>0, <1>1 DEF Flow, RemovesLocked, TypeOK, Id
<1>5. QED BY <1>2, <1>3, <1>4 DEF Flow

\* The flow of the operations is kept by every step.
LEMMA FlowNext == ASSUME ~MayDuplicate, TypeOK, Flow, Next PROVE Flow'
<1>1. ASSUME NEW o \in Ops, EnterPublish(o) PROVE Flow'
  <2>1. Others(o) /\ pc'[o] \in {"opening", "asking"}
    BY <1>1, Asking, Moving DEF EnterPublish
  <2>2. QED BY <1>1, <2>1, FlowEntering DEF EnterPublish
<1>2. ASSUME NEW o \in Ops, EnterDelete(o) \/ EnterExpire(o) PROVE Flow'
  <2>1. Others(o) /\ pc'[o] = "asking" /\ Deletes(o) /\ UNCHANGED <<sessions, stored, disposed>>
    BY <1>2, Asking DEF EnterDelete, EnterExpire, Deletes
  <2>2. ~Publishing(o)' /\ ~Removing(o)' /\ OfItsKind(o)'
    BY <2>1 DEF Deletes, Publishes, Publishing, Removing, OfItsKind, Reserving
  <2>3. QED BY <2>1, <2>2, FlowApart
<1>3. ASSUME NEW o \in Ops, EnterCommand(o) \/ RefuseCommand(o) PROVE Flow'
  <2>1. Others(o) /\ pc'[o] \in {"working", "failed"} /\ ~Publishes(o)
        /\ UNCHANGED <<sessions, stored, disposed>>
    BY <1>3, Moving DEF EnterCommand, RefuseCommand, Publishes
  <2>2. ~Publishing(o)' /\ ~Removing(o)' /\ OfItsKind(o)'
    BY <2>1 DEF Publishes, Publishing, Removing, OfItsKind, Reserving
  <2>3. QED BY <2>1, <2>2, FlowApart
<1>4. ASSUME NEW o \in Ops, LockRefused(o) \/ DeleteMissing(o) PROVE Flow'
  <2>1. Return(o, "failed") /\ UNCHANGED <<sessions, stored, doomed, disposed>>
    BY <1>4 DEF LockRefused, DeleteMissing
  <2>2. QED BY <2>1, ReliedUnchanged, FlowReturning
<1>5. ASSUME NEW o \in Ops, FinishCommand(o) PROVE Flow'
  <2>1. /\ Return(o, "failed") \/ Return(o, "ok")
        /\ UNCHANGED <<sessions, stored, doomed, disposed>>
    BY <1>5 DEF FinishCommand
  <2>2. Relied(o) BY <2>1, ReliedUnchanged
  <2>3. QED BY <2>1, <2>2, FlowReturning
<1>6. ASSUME NEW o \in Ops, OpenFile(o) PROVE Flow'
  <2>1. pc[o] = "opening" /\ UNCHANGED <<sessions, stored, doomed, disposed>>
    BY <1>6 DEF OpenFile
  <2>2. Publishing(o) BY <2>1 DEF Flow, OfItsKind, Publishing, InFlight
  <2>3. Only(o) /\ Relied(o) BY <2>1, ReliedIdle
  <2>4. CASE Return(o, "failed") BY <2>1, <2>3, <2>4, FlowReturning
  <2>5. CASE Ask(o) /\ UNCHANGED lane
    <3>1. pc'[o] = "asking" /\ Others(o) BY <2>1, <2>5, Asking
    <3>2. sessions'[Id(o)] = NoOp BY <2>1, <2>2 DEF Flow, PublishesAlone
    <3>3. QED BY <2>1, <2>2, <2>3, <2>5, <3>1, <3>2, FlowPublishing
  <2>6. QED BY <1>6, <2>4, <2>5 DEF OpenFile
<1>7. ASSUME NEW o \in Ops, Reserve(o) \/ Built(o) \/ Bound(o) PROVE Flow'
  <2>1. Publishing(o)
    BY <1>7 DEF Reserve, Built, Bound, Flow, OfItsKind, Reserving, Publishing, InFlight
  <2>2. UNCHANGED <<sessions, stored, doomed, disposed, lane, locks>>
    BY <1>7 DEF Reserve, Built, Bound
  <2>3. PICK l \in {"building", "binding", "saving"} : Goto(o, l)
    BY <1>7 DEF Reserve, Built, Bound
  <2>4. pc'[o] = l /\ Others(o) BY <2>2, <2>3, Moving
  <2>5. Only(o) /\ sessions'[Id(o)] = NoOp
    BY <2>1, <2>2, ReliedIdle DEF Flow, PublishesAlone
  <2>6. l \in {"asking", "building", "binding", "saving", "saved", "unsaving"} /\ l # "saved"
    OBVIOUS
  <2>7. QED BY <2>1, <2>2, <2>4, <2>5, <2>6, FlowPublishing
<1>8. ASSUME NEW o \in Ops, Saved(o) PROVE Flow'
  <2>1. Publishing(o) BY <1>8 DEF Saved, Flow, OfItsKind, Reserving, Publishing, InFlight
  <2>2. /\ UNCHANGED <<sessions, doomed, disposed, lane, locks>> /\ Goto(o, "saved")
        /\ stored' = [stored EXCEPT ![Id(o)] = o]
    BY <1>8 DEF Saved
  <2>3. pc'[o] = "saved" /\ Others(o) BY <2>2, Moving
  <2>4. Only(o) /\ stored'[Id(o)] = o BY <2>2 DEF Only, TypeOK, Id
  <2>5. sessions'[Id(o)] = NoOp BY <2>1, <2>2 DEF Flow, PublishesAlone
  <2>6. QED BY <2>1, <2>2, <2>3, <2>4, <2>5, FlowPublishing
<1>9. ASSUME NEW o \in Ops, SubscribeFails(o) PROVE Flow'
  <2>1. Publishing(o)
    BY <1>9 DEF SubscribeFails, Flow, OfItsKind, Reserving, Publishing, InFlight
  <2>2. UNCHANGED <<stored, doomed, disposed, lane, locks>> /\ Goto(o, "unsaving") /\ Erase(o)
    BY <1>9 DEF SubscribeFails
  <2>3. pc'[o] = "unsaving" /\ Others(o) BY <2>2, Moving
  <2>4. Only(o) /\ sessions'[Id(o)] = NoOp BY <2>2, ErasedOnly
  <2>5. QED BY <2>1, <2>2, <2>3, <2>4, FlowPublishing
<1>10. ASSUME NEW o \in Ops, Refuse(o) \/ PublishFails(o) \/ RollBack(o) PROVE Flow'
  <2>1. Publishing(o)
    BY <1>10
    DEF Refuse, PublishFails, RollBack, Flow, OfItsKind, Reserving, Publishing, InFlight
  <2>2. /\ Return(o, "failed") /\ Erase(o) /\ UNCHANGED <<doomed, disposed>>
        /\ \E m \in {NoOp, o} : UNCHANGED stored \/ stored' = [stored EXCEPT ![Id(o)] = m]
    BY <1>10 DEF Refuse, PublishFails, RollBack, GiveUp
  <2>3. Relied(o) BY <2>1, <2>2, ErasedOnly, ReliedPublisher
  <2>4. QED BY <2>2, <2>3, FlowReturning
<1>11. ASSUME NEW o \in Ops, Publish(o) PROVE Flow'
  <2>1. Publishing(o) BY <1>11 DEF Publish, Flow, OfItsKind, Reserving, Publishing, InFlight
  <2>2. Only(o) BY <1>11 DEF Publish, Only, TypeOK, Id
  <2>3. Answer("ok") \in {"ok", "failed"} BY DEF Answer
  <2>4. Return(o, Answer("ok")) /\ UNCHANGED <<doomed, disposed>> BY <1>11 DEF Publish
  <2>5. QED BY <2>1, <2>2, <2>3, <2>4, ReliedPublisher, FlowReturning
<1>12. ASSUME NEW o \in Ops, BeginDelete(o) PROVE Flow'
  <2>1. /\ UNCHANGED <<sessions, stored, disposed, lane, locks>> /\ Goto(o, "unstoring")
        /\ doomed' = [doomed EXCEPT ![o] = sessions[Id(o)]]
        /\ Deletes(o) /\ HasTurn(o) /\ sessions[Id(o)] # NoOp
    BY <1>12 DEF BeginDelete
  <2>2. pc'[o] = "unstoring" /\ Others(o) BY <2>1, Moving
  <2>3. doomed'[o] = sessions[Id(o)] /\ HasTurn(o)' BY <2>1 DEF TypeOK, HasTurn
  <2>4. Only(o) BY <2>1 DEF Only
  <2>5. QED BY <2>1, <2>2, <2>3, <2>4, FlowRemoving
<1>13. ASSUME NEW o \in Ops, StoreDeleted(o) PROVE Flow'
  <2>1. /\ UNCHANGED <<sessions, doomed, disposed, lane, locks>> /\ Goto(o, "unstored")
        /\ stored' = [stored EXCEPT ![Id(o)] = NoOp] /\ Removing(o)
    BY <1>13 DEF StoreDeleted, Removing
  <2>2. pc'[o] = "unstored" /\ Others(o) BY <2>1, Moving
  <2>3. Only(o) BY <2>1 DEF Only, TypeOK, Id
  <2>4. Deletes(o) /\ RemovesLocked(o) BY <2>1 DEF Flow, OfItsKind
  <2>5. HasTurn(o)' <=> HasTurn(o) BY <2>1 DEF HasTurn
  <2>6. QED BY <2>1, <2>2, <2>3, <2>4, <2>5, FlowRemoving DEF RemovesLocked
<1>14. ASSUME NEW o \in Ops, Teardown(o) PROVE Flow'
  <2>1. /\ Removing(o) /\ Erase(o) /\ UNCHANGED <<stored, doomed, disposed>>
        /\ Return(o, Answer("ok")) \/ Return(o, "failed")
    BY <1>14 DEF Teardown, Removing
  <2>2. Relied(o) BY <2>1, ErasedOnly, ReliedRemover
  <2>3. Answer("ok") \in {"ok", "failed"} BY DEF Answer
  <2>4. QED BY <2>1, <2>2, <2>3, FlowReturning
<1>15. ASSUME NEW s \in Ids, Age(s) \/ Subscribe(s) PROVE Flow'
  BY <1>15
  DEF Age, Subscribe, Flow, OfItsKind, PublishesAlone, RemovesLocked, Publishing, Removing,
      InFlight, Reserving, HasTurn
<1>16. CASE Dispose BY <1>16, FlowDispose
<1>17. ASSUME NEW o \in Ops, StoreDeleteFails(o) PROVE Flow'
  <2>1. /\ Removing(o) /\ Return(o, "failed") /\ UNCHANGED <<sessions, doomed, disposed>>
        /\ UNCHANGED stored \/ stored' = [stored EXCEPT ![Id(o)] = NoOp]
    BY <1>17 DEF StoreDeleteFails, Removing
  <2>2. Only(o) BY <2>1 DEF Only, TypeOK, Id
  <2>3. Relied(o) BY <2>1, <2>2, ReliedRemover
  <2>4. QED BY <2>1, <2>3, FlowReturning
<1>18. QED
  BY <1>1, <1>2, <1>3, <1>4, <1>5, <1>6, <1>7, <1>8, <1>9, <1>10, <1>11, <1>12, <1>13, <1>14,
     <1>15, <1>16, <1>17
  DEF Next, Step
-----------------------------------------------------------------------------
\* The types of what the steps have in common.
LEMMA ReturnTypes ==
  ASSUME TypeOK, NEW o \in Ops, NEW r \in {"ok", "failed"}, Return(o, r)
  PROVE  /\ pc' \in [Ops -> Labels] /\ locks' \in [Ids -> Seq(Ops)]
         /\ lane' \in [Ids -> Ops \cup {NoOp}]
<1>1. locks' \in [Ids -> Seq(Ops)] BY LocksAfterReturn
<1>2. pc' \in [Ops -> Labels] BY DEF Return, Goto, TypeOK, Labels
<1>3. lane' \in [Ids -> Ops \cup {NoOp}] BY DEF Return, LeaveLane, TypeOK
<1>4. QED BY <1>1, <1>2, <1>3

LEMMA AskTypes ==
  ASSUME TypeOK, NEW o \in Ops, Ask(o), UNCHANGED lane \/ EnterLane(o)
  PROVE  /\ pc' \in [Ops -> Labels] /\ locks' \in [Ids -> Seq(Ops)]
         /\ lane' \in [Ids -> Ops \cup {NoOp}]
<1>1. locks' \in [Ids -> Seq(Ops)] BY LocksAfterAsk
<1>2. pc' \in [Ops -> Labels] BY DEF Ask, Goto, TypeOK, Labels
<1>3. lane' \in [Ids -> Ops \cup {NoOp}] BY DEF EnterLane, TypeOK
<1>4. QED BY <1>1, <1>2, <1>3

LEMMA MoveTypes ==
  ASSUME TypeOK, NEW o \in Ops, NEW l \in Labels, Goto(o, l), UNCHANGED lane \/ EnterLane(o)
  PROVE  pc' \in [Ops -> Labels] /\ lane' \in [Ids -> Ops \cup {NoOp}]
<1>1. pc' \in [Ops -> Labels] BY DEF Goto, TypeOK
<1>2. lane' \in [Ids -> Ops \cup {NoOp}] BY DEF EnterLane, TypeOK
<1>3. QED BY <1>1, <1>2

LEMMA EraseTypes ==
  ASSUME TypeOK, NEW o \in Ops, Erase(o)
  PROVE  /\ {sessions', unsubs'} \subseteq [Ids -> Ops \cup {NoOp}]
         /\ versions' \in [Ids -> Nat \cup {NoVersion}]
BY DEF Erase, TypeOK, NoVersion

LEMMA DropTypes ==
  ASSUME TypeOK, NEW n \in Nat, DropSlots(n)
  PROVE  slots' \in 0 .. MaxSessions /\ doubles' \in BOOLEAN
<1>1. slots' \in 0 .. MaxSessions BY DEF DropSlots, TypeOK
<1>2. doubles' \in BOOLEAN BY DEF DropSlots, TypeOK
<1>3. QED BY <1>1, <1>2

LEMMA FreshTypes ==
  ASSUME NEW b \in [Ids -> {"none", "fresh", "old"}]
  PROVE  FreshData(b) \in [Ids -> {"none", "fresh", "old"}]
BY DEF FreshData

LEMMA GiveUpTypes ==
  ASSUME TypeOK, NEW o \in Ops, GiveUp(o), UNCHANGED <<due, doomed, base, watching, disposed>>,
         stored' \in [Ids -> Ops \cup {NoOp}]
  PROVE  TypeOK'
<1>1. Erase(o) /\ DropSlots(1) /\ Return(o, "failed") /\ live' \subseteq live
      /\ born' = FreshData(born)
  BY DEF GiveUp, ReleaseSlot, Discarded
<1>2. pc' \in [Ops -> Labels] /\ locks' \in [Ids -> Seq(Ops)] /\ lane' \in [Ids -> Ops \cup {NoOp}]
  BY <1>1, ReturnTypes
<1>3. slots' \in 0 .. MaxSessions /\ doubles' \in BOOLEAN BY <1>1, DropTypes
<1>4. {sessions', unsubs'} \subseteq [Ids -> Ops \cup {NoOp}]
      /\ versions' \in [Ids -> Nat \cup {NoVersion}]
  BY <1>1, EraseTypes
<1>5. born' \in [Ids -> {"none", "fresh", "old"}] BY <1>1, FreshTypes DEF TypeOK
<1>6. live' \subseteq Ops BY <1>1 DEF TypeOK
<1>7. QED BY <1>2, <1>3, <1>4, <1>5, <1>6 DEF TypeOK

\* An operation that changes where it is, its lock and its lane, and nothing else.
LEMMA QuietTypes ==
  ASSUME TypeOK, pc' \in [Ops -> Labels], locks' \in [Ids -> Seq(Ops)],
         lane' \in [Ids -> Ops \cup {NoOp}], due' \subseteq Ids,
         stored' \in [Ids -> Ops \cup {NoOp}],
         UNCHANGED <<sessions, versions, unsubs, live, slots, doubles, born, doomed,
                     base, watching, disposed>>
  PROVE  TypeOK'
BY DEF TypeOK

LEMMA TypesNext == ASSUME TypeOK, Next PROVE TypeOK'
<1>1. ASSUME NEW o \in Ops, EnterPublish(o) PROVE TypeOK'
  <2>1. CASE Ask(o)
    BY <1>1, <2>1, AskTypes, QuietTypes DEF EnterPublish, TypeOK
  <2>2. CASE Goto(o, "opening") /\ UNCHANGED locks
    <3>1. "opening" \in Labels BY DEF Labels
    <3>2. pc' \in [Ops -> Labels] /\ lane' \in [Ids -> Ops \cup {NoOp}]
      BY <1>1, <2>2, <3>1, MoveTypes DEF EnterPublish
    <3>3. QED BY <1>1, <2>2, <3>2, QuietTypes DEF EnterPublish, TypeOK
  <2>3. QED BY <1>1, <2>1, <2>2 DEF EnterPublish
<1>2. ASSUME NEW o \in Ops, EnterDelete(o) \/ EnterExpire(o) PROVE TypeOK'
  <2>1. due' \subseteq Ids
    BY <1>2 DEF EnterDelete, EnterExpire, Sweep, SweepOn, Expired, TypeOK
  <2>2. Ask(o) /\ (UNCHANGED lane \/ EnterLane(o)) BY <1>2 DEF EnterDelete, EnterExpire
  <2>3. QED BY <1>2, <2>1, <2>2, AskTypes, QuietTypes DEF EnterDelete, EnterExpire, TypeOK
<1>3. ASSUME NEW o \in Ops, EnterCommand(o) PROVE TypeOK'
  <2>1. "working" \in Labels BY DEF Labels
  <2>2. pc' \in [Ops -> Labels] /\ lane' \in [Ids -> Ops \cup {NoOp}]
    BY <1>3, <2>1, MoveTypes DEF EnterCommand
  <2>3. base' \in [Ops -> Nat \cup {NoVersion}] BY <1>3 DEF EnterCommand, TypeOK, Id
  <2>4. born' \in [Ids -> {"none", "fresh", "old"}] BY <1>3 DEF EnterCommand, TypeOK
  <2>5. QED BY <1>3, <2>2, <2>3, <2>4 DEF EnterCommand, TypeOK
<1>4. ASSUME NEW o \in Ops, RefuseCommand(o) PROVE TypeOK'
  <2>1. "failed" \in Labels BY DEF Labels
  <2>2. QED BY <1>4, <2>1, MoveTypes, QuietTypes DEF RefuseCommand, TypeOK
<1>5. ASSUME NEW o \in Ops,
             LockRefused(o) \/ DeleteMissing(o) \/ StoreDeleteFails(o)
      PROVE  TypeOK'
  <2>1. Return(o, "failed") BY <1>5 DEF LockRefused, DeleteMissing, StoreDeleteFails
  <2>2. stored' \in [Ids -> Ops \cup {NoOp}]
    BY <1>5 DEF LockRefused, DeleteMissing, StoreDeleteFails, TypeOK
  <2>3. QED
    BY <1>5, <2>1, <2>2, ReturnTypes, QuietTypes
    DEF LockRefused, DeleteMissing, StoreDeleteFails, TypeOK
<1>6. ASSUME NEW o \in Ops, OpenFile(o) PROVE TypeOK'
  BY <1>6, AskTypes, ReturnTypes, QuietTypes DEF OpenFile, TypeOK
<1>7. ASSUME NEW o \in Ops, Refuse(o) PROVE TypeOK'
  <2>1. Erase(o) /\ Return(o, "failed") BY <1>7 DEF Refuse
  <2>2. QED BY <1>7, <2>1, EraseTypes, ReturnTypes DEF Refuse, TypeOK
<1>8. ASSUME NEW o \in Ops, Reserve(o) PROVE TypeOK'
  <2>1. "building" \in Labels BY DEF Labels
  <2>2. slots' \in 0 .. MaxSessions BY <1>8 DEF Reserve, SlotFree, TypeOK
  <2>3. pc' \in [Ops -> Labels] BY <1>8, <2>1, MoveTypes DEF Reserve
  <2>4. QED BY <1>8, <2>2, <2>3 DEF Reserve, TypeOK
<1>9. ASSUME NEW o \in Ops, Built(o) \/ Bound(o) \/ Saved(o) \/ StoreDeleted(o) PROVE TypeOK'
  <2>1. {"binding", "saving", "saved", "unstored"} \subseteq Labels BY DEF Labels
  <2>2. pc' \in [Ops -> Labels] BY <1>9, <2>1, MoveTypes DEF Built, Bound, Saved, StoreDeleted
  <2>3. live' \subseteq Ops BY <1>9 DEF Built, Bound, Saved, StoreDeleted, TypeOK
  <2>4. stored' \in [Ids -> Ops \cup {NoOp}]
    <3>1. stored \in [Ids -> Ops \cup {NoOp}] BY DEF TypeOK
    <3>2. \/ UNCHANGED stored \/ stored' = [stored EXCEPT ![Id(o)] = o]
          \/ stored' = [stored EXCEPT ![Id(o)] = NoOp]
      BY <1>9 DEF Built, Bound, Saved, StoreDeleted
    <3>3. QED BY <3>1, <3>2
  <2>5. QED BY <1>9, <2>2, <2>3, <2>4 DEF Built, Bound, Saved, StoreDeleted, TypeOK
<1>10. ASSUME NEW o \in Ops, PublishFails(o) PROVE TypeOK'
  <2>1. UNCHANGED stored \/ stored' = [stored EXCEPT ![Id(o)] = o] BY <1>10 DEF PublishFails
  <2>2. stored \in [Ids -> Ops \cup {NoOp}] BY DEF TypeOK
  <2>3. stored' \in [Ids -> Ops \cup {NoOp}] BY <2>1, <2>2
  <2>4. QED BY <1>10, <2>3, GiveUpTypes DEF PublishFails
<1>11. ASSUME NEW o \in Ops, RollBack(o) PROVE TypeOK'
  <2>1. stored' \in [Ids -> Ops \cup {NoOp}] BY <1>11 DEF RollBack, TypeOK
  <2>2. QED BY <1>11, <2>1, GiveUpTypes DEF RollBack
<1>12. ASSUME NEW o \in Ops, SubscribeFails(o) PROVE TypeOK'
  <2>1. "unsaving" \in Labels BY DEF Labels
  <2>2. pc' \in [Ops -> Labels] /\ Erase(o) BY <1>12, <2>1, MoveTypes DEF SubscribeFails
  <2>3. QED BY <1>12, <2>2, EraseTypes DEF SubscribeFails, TypeOK
<1>13. ASSUME NEW o \in Ops, Publish(o) PROVE TypeOK'
  <2>1. Answer("ok") \in {"ok", "failed"} BY DEF Answer
  <2>2. pc' \in [Ops -> Labels] /\ locks' \in [Ids -> Seq(Ops)] /\ lane' \in [Ids -> Ops \cup {NoOp}]
    BY <1>13, <2>1, ReturnTypes DEF Publish
  <2>3. /\ sessions' \in [Ids -> Ops \cup {NoOp}] /\ unsubs' \in [Ids -> Ops \cup {NoOp}]
        /\ versions' \in [Ids -> Nat \cup {NoVersion}]
    <3>1. /\ sessions \in [Ids -> Ops \cup {NoOp}] /\ unsubs \in [Ids -> Ops \cup {NoOp}]
          /\ versions \in [Ids -> Nat \cup {NoVersion}]
      BY DEF TypeOK
    <3>2. QED BY <1>13, <3>1 DEF Publish
  <2>4. born' \in [Ids -> {"none", "fresh", "old"}] BY <1>13 DEF Publish, TypeOK
  <2>5. QED BY <1>13, <2>2, <2>3, <2>4 DEF Publish, TypeOK
<1>14. ASSUME NEW o \in Ops, BeginDelete(o) PROVE TypeOK'
  <2>1. "unstoring" \in Labels BY DEF Labels
  <2>2. pc' \in [Ops -> Labels] BY <1>14, <2>1, MoveTypes DEF BeginDelete
  <2>3. doomed' \in [Ops -> Ops \cup {NoOp}] BY <1>14 DEF BeginDelete, TypeOK, Id
  <2>4. QED BY <1>14, <2>2, <2>3 DEF BeginDelete, TypeOK
<1>15. ASSUME NEW o \in Ops, Teardown(o) PROVE TypeOK'
  <2>1. Answer("ok") \in {"ok", "failed"} BY DEF Answer
  <2>2. pc' \in [Ops -> Labels] /\ locks' \in [Ids -> Seq(Ops)] /\ lane' \in [Ids -> Ops \cup {NoOp}]
    BY <1>15, <2>1, ReturnTypes DEF Teardown
  <2>3. slots' \in 0 .. MaxSessions /\ doubles' \in BOOLEAN BY <1>15, DropTypes DEF Teardown
  <2>4. {sessions', unsubs'} \subseteq [Ids -> Ops \cup {NoOp}]
        /\ versions' \in [Ids -> Nat \cup {NoVersion}]
    BY <1>15, EraseTypes DEF Teardown
  <2>5. [born EXCEPT ![Id(o)] = "none"] \in [Ids -> {"none", "fresh", "old"}] BY DEF TypeOK
  <2>6. born' \in [Ids -> {"none", "fresh", "old"}] BY <1>15, <2>5, FreshTypes DEF Teardown
  <2>7. live' \subseteq Ops /\ watching' \subseteq Ids
    BY <1>15 DEF Teardown, WatchersLeft, TypeOK
  <2>8. QED BY <1>15, <2>2, <2>3, <2>4, <2>6, <2>7 DEF Teardown, TypeOK
<1>16. ASSUME NEW o \in Ops, FinishCommand(o) PROVE TypeOK'
  <2>1. NextVersion(o) \in Nat BY DEF NextVersion, TypeOK, NoVersion, Id
  <2>2. versions' \in [Ids -> Nat \cup {NoVersion}] BY <1>16, <2>1 DEF FinishCommand, TypeOK
  <2>3. Return(o, "ok") \/ Return(o, "failed") BY <1>16 DEF FinishCommand
  <2>4. pc' \in [Ops -> Labels] /\ locks' \in [Ids -> Seq(Ops)] /\ lane' \in [Ids -> Ops \cup {NoOp}]
    BY <2>3, ReturnTypes
  <2>5. QED BY <1>16, <2>2, <2>4 DEF FinishCommand, TypeOK
<1>17. ASSUME NEW s \in Ids, Age(s) \/ Subscribe(s) PROVE TypeOK'
  <2>1. born' \in [Ids -> {"none", "fresh", "old"}] BY <1>17 DEF Age, Subscribe, TypeOK
  <2>2. watching' \subseteq Ids BY <1>17 DEF Age, Subscribe, TypeOK
  <2>3. QED BY <1>17, <2>1, <2>2 DEF Age, Subscribe, TypeOK
<1>18. CASE Dispose
  <2>1. Published \subseteq Ids BY DEF Published
  <2>2. Cardinality(Published) \in Nat BY <2>1, FS_Subset, FS_CardinalityType
  <2>3. slots' \in 0 .. MaxSessions /\ doubles' \in BOOLEAN BY <1>18, <2>2, DropTypes DEF Dispose
  <2>4. {sessions', unsubs', lane'} \subseteq [Ids -> Ops \cup {NoOp}]
        /\ versions' \in [Ids -> Nat \cup {NoVersion}]
        /\ born' \in [Ids -> {"none", "fresh", "old"}]
    BY <1>18 DEF Dispose, TypeOK, NoVersion
  <2>5. <<>> \in Seq(Ops) OBVIOUS
  <2>6. locks' \in [Ids -> Seq(Ops)] BY <1>18, <2>5 DEF Dispose
  <2>7. pc' \in [Ops -> Labels] BY <1>18 DEF Dispose, TypeOK, Labels
  <2>8. live' \subseteq Ops /\ watching' \subseteq Ids /\ disposed' \in BOOLEAN
    BY <1>18 DEF Dispose, TypeOK
  <2>9. QED BY <1>18, <2>3, <2>4, <2>6, <2>7, <2>8 DEF Dispose, TypeOK
<1>19. QED
  BY <1>1, <1>2, <1>3, <1>4, <1>5, <1>6, <1>7, <1>8, <1>9, <1>10, <1>11, <1>12, <1>13, <1>14,
     <1>15, <1>16, <1>17, <1>18
  DEF Next, Step
-----------------------------------------------------------------------------
Account == SlotsAccount /\ NoGhosts /\ PersistedFirst /\ WatchersFollow

Reserves(o) == pc[o] \in {"building", "binding", "saving", "saved", "unsaving"}

\* o is a delete of s that has gone through the store or was refused by it.
Struck(o, s) == Id(o) = s /\ pc[o] \in {"unstored", "failed"}

\* The metadata of s is its own, or missing because of a delete.
Persisted(s) == stored[s] = sessions[s] \/ (stored[s] = NoOp /\ Bereft(s))

LEMMA SetsAfter ==
  ASSUME TypeOK, NEW o \in Ops, Others(o)
  PROVE  /\ Reserving' = IF Reserves(o)' THEN Reserving \cup {o} ELSE Reserving \ {o}
         /\ \A s \in Ids : (~Struck(o, s) /\ sessions'[s] = sessions[s] /\ Bereft(s)) => Bereft(s)'
<1>1. \A q \in Ops \ {o} : pc'[q] = pc[q] /\ doomed'[q] = doomed[q] BY DEF Others
<1>2. Reserving' = IF Reserves(o)' THEN Reserving \cup {o} ELSE Reserving \ {o}
  BY <1>1 DEF Reserving, Reserves
<1>3. QED BY <1>1, <1>2 DEF Bereft, Struck, Id

LEMMA CountsTypes ==
  ASSUME TypeOK
  PROVE  /\ IsFiniteSet(Published) /\ IsFiniteSet(Reserving)
         /\ Cardinality(Published) \in Nat /\ Cardinality(Reserving) \in Nat
<1>1. Published \subseteq Ids /\ Reserving \subseteq Ops BY DEF Published, Reserving
<1>2. QED BY <1>1, FS_Subset, FS_CardinalityType

\* A step that neither publishes nor removes, reserves nor releases.
LEMMA AccountQuiet ==
  ASSUME TypeOK, Account, NEW o \in Ops, Others(o), pc[o] \notin {"unstored", "failed"},
         UNCHANGED <<sessions, unsubs, slots, doubles, watching, disposed>>,
         Reserves(o)' <=> Reserves(o), live' \subseteq live \cup Reserving,
         \A s \in Published : stored'[s] = stored[s] \/ (stored'[s] = NoOp /\ Bereft(s)')
  PROVE  Account'
<1>1. Published' = Published BY DEF Published
<1>2. Reserving' = Reserving BY SetsAfter DEF Reserves, Reserving
<1>3. SlotsAccount' BY <1>1, <1>2 DEF Account, SlotsAccount
<1>4. NoGhosts' BY <1>1, <1>2 DEF Account, NoGhosts
<1>5. PersistedFirst'
  <2> SUFFICES ASSUME NEW s \in Published
               PROVE  Persisted(s)'
    BY <1>1 DEF PersistedFirst, Persisted
  <2>1. s \in Ids BY DEF Published
  <2>2. Persisted(s) BY DEF Account, PersistedFirst, Persisted
  <2>3. Bereft(s) => Bereft(s)' BY <2>1, SetsAfter DEF Struck
  <2>4. QED BY <2>2, <2>3 DEF Persisted
<1>6. WatchersFollow' BY <1>1 DEF Account, WatchersFollow
<1>7. QED BY <1>3, <1>4, <1>5, <1>6 DEF Account

\* Erasing what is not published changes no session and stops no forwarding.
LEMMA EraseUnpublished ==
  ASSUME TypeOK, NoGhosts, NEW o \in Ops, sessions[Id(o)] = NoOp, Erase(o)
  PROVE  UNCHANGED <<sessions, unsubs>>
BY DEF Erase, NoGhosts, TypeOK, Id

LEMMA AccountReserve ==
  ASSUME TypeOK, Account, NEW o \in Ops, Reserve(o) PROVE Account'
<1>1. pc'[o] = "building" /\ Others(o) BY Moving DEF Reserve
<1>2. Published' = Published BY DEF Reserve, Published
<1>3. o \notin Reserving BY DEF Reserve, Reserving
<1>4. Reserving' = Reserving \cup {o} BY <1>1, SetsAfter DEF Reserves
<1>5. Cardinality(Reserving') = Cardinality(Reserving) + 1
  BY <1>3, <1>4, CountsTypes, FS_AddElement
<1>6. SlotsAccount' BY <1>2, <1>5, CountsTypes DEF Reserve, Account, SlotsAccount
<1>7. NoGhosts' BY <1>2, <1>4 DEF Reserve, Account, NoGhosts
<1>8. PersistedFirst'
  <2> SUFFICES ASSUME NEW s \in Published
               PROVE  Persisted(s)'
    BY <1>2 DEF PersistedFirst, Persisted
  <2>1. s \in Ids /\ ~Struck(o, s) /\ UNCHANGED <<stored, sessions>>
    BY DEF Published, Reserve, Struck
  <2>2. Persisted(s) BY DEF Account, PersistedFirst, Persisted
  <2>3. Bereft(s) => Bereft(s)' BY <1>1, <2>1, SetsAfter
  <2>4. QED BY <2>1, <2>2, <2>3 DEF Persisted
<1>9. WatchersFollow' BY <1>2 DEF Reserve, Account, WatchersFollow
<1>10. QED BY <1>6, <1>7, <1>8, <1>9 DEF Account

LEMMA AccountGiveUp ==
  ASSUME TypeOK, Account, Flow, NEW o \in Ops, GiveUp(o), o \in Reserving,
         UNCHANGED <<doomed, watching, disposed>>,
         \A s \in Ids \ {Id(o)} : stored'[s] = stored[s]
  PROVE  Account'
<1>1. pc'[o] = "failed" /\ Others(o) BY Returning DEF GiveUp
<1>2. Publishing(o) BY DEF Flow, OfItsKind, Reserving, Publishing, InFlight
<1>3. sessions[Id(o)] = NoOp BY <1>2 DEF Flow, PublishesAlone
<1>4. UNCHANGED <<sessions, unsubs>> BY <1>3, EraseUnpublished DEF GiveUp, Account
<1>5. Published' = Published BY <1>4 DEF Published
<1>6. Reserving' = Reserving \ {o} BY <1>1, SetsAfter DEF Reserves
<1>7. Cardinality(Reserving') = Cardinality(Reserving) - 1
  BY <1>6, CountsTypes, FS_RemoveElement
<1>8. Cardinality(Reserving') \in Nat BY <1>6, CountsTypes, FS_RemoveElement, FS_CardinalityType
<1>9. SlotsAccount'
  <2> SUFFICES ASSUME ~disposed PROVE SlotsAccount' BY DEF SlotsAccount
  <2>1. slots = Cardinality(Published) + Cardinality(Reserving) /\ ~doubles
    BY DEF Account, SlotsAccount
  <2>2. ~(1 > slots) BY <1>7, <1>8, <2>1, CountsTypes
  <2>3. slots' = slots - 1 /\ ~doubles' BY <2>1, <2>2 DEF GiveUp, ReleaseSlot, DropSlots
  <2>4. QED BY <1>5, <1>7, <2>1, <2>3, CountsTypes DEF SlotsAccount
<1>10. NoGhosts'
  <2>1. live' = live \ {o} BY DEF GiveUp, Discarded
  <2>2. QED BY <1>4, <1>5, <1>6, <2>1 DEF Account, NoGhosts
<1>11. PersistedFirst'
  <2> SUFFICES ASSUME NEW s \in Published
               PROVE  Persisted(s)'
    BY <1>5 DEF PersistedFirst, Persisted
  <2>1. s \in Ids /\ s # Id(o) BY <1>3 DEF Published
  <2>2. stored'[s] = stored[s] /\ ~Struck(o, s) BY <2>1 DEF Struck
  <2>3. Persisted(s) BY DEF Account, PersistedFirst, Persisted
  <2>4. Bereft(s) => Bereft(s)' BY <1>1, <1>4, <2>1, <2>2, SetsAfter
  <2>5. QED BY <1>4, <2>2, <2>3, <2>4 DEF Persisted
<1>12. WatchersFollow' BY <1>5 DEF Account, WatchersFollow
<1>13. QED BY <1>9, <1>10, <1>11, <1>12 DEF Account

LEMMA AccountPublish ==
  ASSUME TypeOK, Account, Flow, NEW o \in Ops, Publish(o) PROVE Account'
<1>0. Id(o) \in Ids BY DEF Id
<1>1. pc'[o] \in {"ok", "failed"} /\ Others(o)
  <2>1. Answer("ok") \in {"ok", "failed"} BY DEF Answer
  <2>2. QED BY <2>1, Returning DEF Publish
<1>2. Publishing(o) /\ o \in Reserving
  BY DEF Publish, Flow, OfItsKind, Reserving, Publishing, InFlight
<1>3. sessions[Id(o)] = NoOp /\ stored[Id(o)] = o
  BY <1>2 DEF Flow, PublishesAlone, Publish
<1>4. sessions' = [sessions EXCEPT ![Id(o)] = o] /\ unsubs' = [unsubs EXCEPT ![Id(o)] = o]
  BY DEF Publish
<1>5. Published' = Published \cup {Id(o)} /\ Id(o) \notin Published
  BY <1>0, <1>3, <1>4 DEF Published, TypeOK
<1>6. Reserving' = Reserving \ {o} BY <1>1, SetsAfter DEF Reserves
<1>7. Cardinality(Reserving') = Cardinality(Reserving) - 1
  BY <1>2, <1>6, CountsTypes, FS_RemoveElement
<1>8. Cardinality(Published') = Cardinality(Published) + 1
  BY <1>5, CountsTypes, FS_AddElement
<1>9. SlotsAccount' BY <1>7, <1>8, CountsTypes DEF Publish, Account, SlotsAccount
<1>10. NoGhosts'
  <2>1. live \subseteq {sessions[s] : s \in Published} \cup Reserving /\ unsubs = sessions
    BY DEF Account, NoGhosts
  <2>2. \A s \in Published : s \in Published' /\ sessions'[s] = sessions[s]
    BY <1>4, <1>5 DEF Published, TypeOK
  <2>3. Id(o) \in Published' /\ sessions'[Id(o)] = o BY <1>0, <1>4, <1>5 DEF TypeOK
  <2>4. live' \subseteq {sessions'[s] : s \in Published'} \cup Reserving'
    BY <1>6, <2>1, <2>2, <2>3 DEF Publish
  <2>5. unsubs' = sessions' BY <1>4, <2>1
  <2>6. QED BY <2>4, <2>5 DEF NoGhosts
<1>11. PersistedFirst'
  <2> SUFFICES ASSUME NEW s \in Published'
               PROVE  Persisted(s)'
    BY DEF PersistedFirst, Persisted
  <2>1. UNCHANGED stored /\ ~Struck(o, s) BY DEF Publish, Struck
  <2>2. CASE s = Id(o) BY <1>0, <1>3, <1>4, <2>1, <2>2 DEF TypeOK, Persisted
  <2>3. CASE s # Id(o)
    <3>1. s \in Published /\ s \in Ids BY <1>5, <2>3 DEF Published
    <3>2. Persisted(s) BY <3>1 DEF Account, PersistedFirst, Persisted
    <3>3. sessions'[s] = sessions[s] BY <1>4, <2>3, <3>1 DEF TypeOK
    <3>4. Bereft(s) => Bereft(s)' BY <1>1, <2>1, <3>1, <3>3, SetsAfter
    <3>5. QED BY <2>1, <3>2, <3>3, <3>4 DEF Persisted
  <2>4. QED BY <2>2, <2>3
<1>12. WatchersFollow' BY <1>5 DEF Publish, Account, WatchersFollow
<1>13. QED BY <1>9, <1>10, <1>11, <1>12 DEF Account

LEMMA AccountTeardown ==
  ASSUME TypeOK, Account, Flow, NEW o \in Ops, Teardown(o) PROVE Account'
<1>0. Id(o) \in Ids BY DEF Id
<1>1. pc'[o] \in {"ok", "failed"} /\ Others(o)
  <2>1. Answer("ok") \in {"ok", "failed"} BY DEF Answer
  <2>2. QED BY <2>1, Returning DEF Teardown
<1>2. /\ sessions[Id(o)] \in {NoOp, doomed[o]}
      /\ disposed \/ (sessions[Id(o)] = doomed[o] /\ doomed[o] # NoOp)
  BY DEF Teardown, Flow, RemovesLocked, Removing
<1>3. sessions' = [sessions EXCEPT ![Id(o)] = NoOp] /\ unsubs' = [unsubs EXCEPT ![Id(o)] = NoOp]
  BY DEF Teardown, Erase
<1>4. Published' = Published \ {Id(o)} BY <1>0, <1>3 DEF Published, TypeOK
<1>5. Reserving' = Reserving
  <2>1. o \notin Reserving BY DEF Teardown, Reserving
  <2>2. QED BY <1>1, <2>1, SetsAfter DEF Reserves
<1>6. SlotsAccount'
  <2> SUFFICES ASSUME ~disposed PROVE SlotsAccount' BY DEF SlotsAccount, Teardown
  <2>1. Id(o) \in Published BY <1>0, <1>2 DEF Published
  <2>2. Cardinality(Published') = Cardinality(Published) - 1
    BY <1>4, <2>1, CountsTypes, FS_RemoveElement
  <2>3. Cardinality(Published') \in Nat
    BY <1>4, CountsTypes, FS_RemoveElement, FS_CardinalityType
  <2>4. slots = Cardinality(Published) + Cardinality(Reserving) /\ ~doubles
    BY DEF Account, SlotsAccount
  <2>5. ~(1 > slots) BY <2>2, <2>3, <2>4, CountsTypes
  <2>6. slots' = slots - 1 /\ ~doubles' BY <2>4, <2>5 DEF Teardown, DropSlots
  <2>7. QED BY <1>5, <2>2, <2>4, <2>6, CountsTypes DEF SlotsAccount
<1>7. NoGhosts'
  <2>1. live \subseteq {sessions[s] : s \in Published} \cup Reserving /\ unsubs = sessions
    BY DEF Account, NoGhosts
  <2>2. \A s \in Published : s # Id(o) => s \in Published' /\ sessions'[s] = sessions[s]
    BY <1>3, <1>4 DEF Published, TypeOK
  <2>3. live' = live \ {doomed[o]} BY DEF Teardown
  <2>4. Id(o) \in Published => sessions[Id(o)] = doomed[o] BY <1>2 DEF Published
  <2>5. live' \subseteq {sessions'[s] : s \in Published'} \cup Reserving'
    BY <1>5, <2>1, <2>2, <2>3, <2>4
  <2>6. unsubs' = sessions' BY <1>3, <2>1
  <2>7. QED BY <2>5, <2>6 DEF NoGhosts
<1>8. PersistedFirst'
  <2> SUFFICES ASSUME NEW s \in Published'
               PROVE  Persisted(s)'
    BY DEF PersistedFirst, Persisted
  <2>1. s \in Published /\ s \in Ids /\ ~Struck(o, s) BY <1>4 DEF Published, Struck
  <2>2. Persisted(s) BY <2>1 DEF Account, PersistedFirst, Persisted
  <2>3. stored' = stored /\ sessions'[s] = sessions[s]
    BY <1>3, <1>4 DEF Teardown, TypeOK, Published
  <2>4. Bereft(s) => Bereft(s)' BY <1>1, <2>1, <2>3, SetsAfter
  <2>5. QED BY <2>2, <2>3, <2>4 DEF Persisted
<1>9. WatchersFollow' BY <1>4 DEF Teardown, WatchersLeft, Account, WatchersFollow
<1>10. QED BY <1>6, <1>7, <1>8, <1>9 DEF Account

LEMMA AccountDispose == ASSUME TypeOK, Account, Dispose PROVE Account'
<1>1. Published' = {} BY DEF Dispose, Published
<1>2. SlotsAccount' BY DEF Dispose, SlotsAccount
<1>3. NoGhosts'
  <2>1. Reserving' = Reserving BY DEF Dispose, Reserving, TypeOK
  <2>2. live \subseteq {sessions[s] : s \in Published} \cup Reserving /\ unsubs = sessions
    BY DEF Account, NoGhosts
  <2>3. live' = live \ {sessions[s] : s \in Published} BY DEF Dispose
  <2>4. unsubs' = sessions' BY <2>2 DEF Dispose, Published
  <2>5. QED BY <2>1, <2>2, <2>3, <2>4 DEF NoGhosts
<1>4. PersistedFirst' BY <1>1 DEF PersistedFirst
<1>5. WatchersFollow' BY DEF Dispose, WatchersFollow
<1>6. QED BY <1>2, <1>3, <1>4, <1>5 DEF Account

LEMMA AccountNext == ASSUME TypeOK, Account, Flow, Next PROVE Account'
<1>1. ASSUME NEW o \in Ops, EnterPublish(o) PROVE Account'
  <2>1. Others(o) /\ pc'[o] \in {"opening", "asking"}
    BY <1>1, Asking, Moving DEF EnterPublish
  <2>2. QED BY <1>1, <2>1, AccountQuiet DEF EnterPublish, Reserves
<1>2. ASSUME NEW o \in Ops, EnterDelete(o) \/ EnterExpire(o) PROVE Account'
  <2>1. Others(o) /\ pc'[o] = "asking" BY <1>2, Asking DEF EnterDelete, EnterExpire
  <2>2. QED BY <1>2, <2>1, AccountQuiet DEF EnterDelete, EnterExpire, Reserves
<1>3. ASSUME NEW o \in Ops, EnterCommand(o) \/ RefuseCommand(o) PROVE Account'
  <2>1. Others(o) /\ pc'[o] \in {"working", "failed"}
    BY <1>3, Moving DEF EnterCommand, RefuseCommand
  <2>2. QED BY <1>3, <2>1, AccountQuiet DEF EnterCommand, RefuseCommand, Reserves
<1>4. ASSUME NEW o \in Ops,
             LockRefused(o) \/ DeleteMissing(o) \/ FinishCommand(o)
      PROVE  Account'
  <2>1. /\ Return(o, "ok") \/ Return(o, "failed")
        /\ pc[o] \in {"asking", "working"}
        /\ UNCHANGED <<sessions, unsubs, live, stored, slots, doubles, doomed, watching, disposed>>
    BY <1>4 DEF LockRefused, DeleteMissing, FinishCommand
  <2>2. pc'[o] \in {"ok", "failed"} /\ Others(o) BY <2>1, Returning
  <2>3. QED BY <2>1, <2>2, AccountQuiet DEF Reserves
<1>5. ASSUME NEW o \in Ops, OpenFile(o) PROVE Account'
  <2>1. pc'[o] \in {"asking", "failed"} /\ Others(o)
    BY <1>5, Asking, Returning DEF OpenFile
  <2>2. QED BY <1>5, <2>1, AccountQuiet DEF OpenFile, Reserves
<1>6. ASSUME NEW o \in Ops, Refuse(o) PROVE Account'
  <2>1. pc'[o] = "failed" /\ Others(o) /\ Publishing(o)
    BY <1>6, Returning DEF Refuse, Publishing, InFlight
  <2>2. sessions[Id(o)] = NoOp BY <2>1 DEF Flow, PublishesAlone
  <2>3. UNCHANGED <<sessions, unsubs>> BY <1>6, <2>2, EraseUnpublished DEF Refuse, Account
  <2>4. QED BY <1>6, <2>1, <2>3, AccountQuiet DEF Refuse, Reserves
<1>7. ASSUME NEW o \in Ops, Reserve(o) PROVE Account' BY <1>7, AccountReserve
<1>8. ASSUME NEW o \in Ops, Built(o) \/ Bound(o) PROVE Account'
  <2>1. pc'[o] \in {"binding", "saving"} /\ Others(o) BY <1>8, Moving DEF Built, Bound
  <2>2. o \in Reserving /\ live' \subseteq live \cup {o} BY <1>8 DEF Built, Bound, Reserving
  <2>3. QED BY <1>8, <2>1, <2>2, AccountQuiet DEF Built, Bound, Reserves
<1>9. ASSUME NEW o \in Ops, Saved(o) PROVE Account'
  <2>1. pc'[o] = "saved" /\ Others(o) BY <1>9, Moving DEF Saved
  <2>2. sessions[Id(o)] = NoOp
    BY <1>9 DEF Saved, Flow, OfItsKind, Reserving, PublishesAlone, Publishing, InFlight
  <2>3. \A s \in Published : stored'[s] = stored[s]
    BY <1>9, <2>2 DEF Saved, Published, TypeOK
  <2>4. QED BY <1>9, <2>1, <2>3, AccountQuiet DEF Saved, Reserves
<1>10. ASSUME NEW o \in Ops, PublishFails(o) PROVE Account'
  <2>1. \A s \in Ids \ {Id(o)} : stored'[s] = stored[s] BY <1>10 DEF PublishFails, TypeOK
  <2>2. QED BY <1>10, <2>1, AccountGiveUp DEF PublishFails, Reserving
<1>11. ASSUME NEW o \in Ops, SubscribeFails(o) PROVE Account'
  <2>1. pc'[o] = "unsaving" /\ Others(o) BY <1>11, Moving DEF SubscribeFails
  <2>2. sessions[Id(o)] = NoOp
    BY <1>11 DEF SubscribeFails, Flow, OfItsKind, Reserving, PublishesAlone, Publishing, InFlight
  <2>3. UNCHANGED <<sessions, unsubs>>
    BY <1>11, <2>2, EraseUnpublished DEF SubscribeFails, Account
  <2>4. QED BY <1>11, <2>1, <2>3, AccountQuiet DEF SubscribeFails, Reserves
<1>12. ASSUME NEW o \in Ops, RollBack(o) PROVE Account'
  <2>1. \A s \in Ids \ {Id(o)} : stored'[s] = stored[s] BY <1>12 DEF RollBack, TypeOK
  <2>2. QED BY <1>12, <2>1, AccountGiveUp DEF RollBack, Reserving
<1>13. ASSUME NEW o \in Ops, Publish(o) PROVE Account' BY <1>13, AccountPublish
<1>14. ASSUME NEW o \in Ops, BeginDelete(o) PROVE Account'
  <2>1. pc'[o] = "unstoring" /\ Others(o) BY <1>14, Moving DEF BeginDelete
  <2>2. QED BY <1>14, <2>1, AccountQuiet DEF BeginDelete, Reserves
<1>15. ASSUME NEW o \in Ops, StoreDeleted(o) \/ StoreDeleteFails(o) PROVE Account'
  <2>1. pc'[o] \in {"unstored", "failed"} /\ Others(o)
    BY <1>15, Moving, Returning DEF StoreDeleted, StoreDeleteFails
  <2>2. /\ UNCHANGED <<sessions, doomed>> /\ Removing(o)
        /\ UNCHANGED stored \/ stored' = [stored EXCEPT ![Id(o)] = NoOp]
    BY <1>15 DEF StoreDeleted, StoreDeleteFails, Removing
  <2>3. Id(o) \in Published => Bereft(Id(o))'
    BY <2>1, <2>2 DEF Flow, RemovesLocked, Published, Bereft, Id
  <2>4. \A s \in Published : stored'[s] = stored[s] \/ (stored'[s] = NoOp /\ Bereft(s)')
    BY <2>2, <2>3 DEF Published, TypeOK
  <2>5. QED
    BY <1>15, <2>1, <2>4, AccountQuiet DEF StoreDeleted, StoreDeleteFails, Reserves
<1>16. ASSUME NEW o \in Ops, Teardown(o) PROVE Account' BY <1>16, AccountTeardown
<1>17. ASSUME NEW s \in Ids, Age(s) \/ Subscribe(s) PROVE Account'
  <2>1. UNCHANGED <<sessions, unsubs, live, stored, slots, doubles, pc, disposed>>
        /\ watching' \subseteq watching \cup Published
    BY <1>17 DEF Age, Subscribe
  <2>2. Published' = Published /\ Reserving' = Reserving BY <2>1 DEF Published, Reserving
  <2>3. SlotsAccount' BY <2>1, <2>2 DEF Account, SlotsAccount
  <2>4. NoGhosts' BY <2>1, <2>2 DEF Account, NoGhosts
  <2>5. PersistedFirst' BY <1>17, <2>1, <2>2 DEF Age, Subscribe, Account, PersistedFirst, Bereft
  <2>6. WatchersFollow' BY <2>1, <2>2 DEF Account, WatchersFollow
  <2>7. QED BY <2>3, <2>4, <2>5, <2>6 DEF Account
<1>18. CASE Dispose BY <1>18, AccountDispose
<1>19. QED
  BY <1>1, <1>2, <1>3, <1>4, <1>5, <1>6, <1>7, <1>8, <1>9, <1>10, <1>11, <1>12, <1>13, <1>14,
     <1>15, <1>16, <1>17, <1>18
  DEF Next, Step

LEMMA BooksNext == ASSUME ~MayDuplicate, BooksInv, [Next]_vars PROVE BooksInv'
<1>1. CASE Next
  BY <1>1, TypesNext, FlowNext, AccountNext DEF BooksInv, BooksBalance, Account
<1>2. CASE UNCHANGED vars
  BY <1>2
  DEF vars, BooksInv, BooksBalance, TypeOK, SlotsAccount, NoGhosts, PersistedFirst, Bereft,
      WatchersFollow, Published, Reserving, Flow, OfItsKind, PublishesAlone, RemovesLocked,
      Publishing, Removing, InFlight, HasTurn
<1>3. QED BY <1>1, <1>2

\* Whatever fails, is swept or is disposed of: the governor's count, the live sessions, the
\* metadata on disk and the subscriptions keep telling of the same sessions, but for the
\* metadata of a session whose delete the store refused, as long as clients create no
\* duplicates (the run of the duplicates shows why that is needed).
THEOREM BooksBalanceHolds == ASSUME ~MayDuplicate PROVE Spec => []BooksBalance
<1>1. BooksInv => BooksBalance BY DEF BooksInv
<1>2. QED BY <1>1, BooksInit, BooksNext, PTL DEF Spec
=============================================================================
