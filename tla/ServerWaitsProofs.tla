-------------------------- MODULE ServerWaitsProofs --------------------------
(***************************************************************************)
(* The guarantees of the components the server waits with, for every value *)
(* of the constants: dialogs, the durable start and the creation queue.    *)
(***************************************************************************)
EXTENDS ServerWaits, FiniteSetTheorems, TLAPS

-----------------------------------------------------------------------------
(***************************************************************************)
(* Dialogs: the table holds the waiting dialogs and nothing else, and a    *)
(* dialog returns what one client of its own session was told it said.     *)
(***************************************************************************)

\* Seen through the instance, finiteness and cardinality are what they are.
LEMMA FiniteUI ==
  /\ \A S : UI!IsFiniteSet(S) <=> IsFiniteSet(S)
  /\ \A S : UI!Cardinality(S) = Cardinality(S)
<1>1. ASSUME NEW S PROVE UI!IsFiniteSet(S) <=> IsFiniteSet(S) BY DEF UI!IsFiniteSet, IsFiniteSet
<1>2. ASSUME NEW S PROVE UI!Cardinality(S) = Cardinality(S) BY DEF UI!Cardinality, Cardinality
<1>3. QED BY <1>1, <1>2

Entries == pending = {d \in Dialogs : at[d] = "waiting"} /\ timer = pending

\* The table fits the limit.
Limited == Cardinality(pending) <= MaxDialogs

\* What has been reported a success, by where the dialog is.
Answered(d) == {<<Session[d], reply[d]>>}
Reported ==
  \A d \in Dialogs :
    /\ at[d] \in {"idle", "waiting", "rejected"} => told[d] = {}
    /\ at[d] = "resolved" => told[d] = Answered(d) /\ reply[d] \in UI!Responses
    /\ at[d] = "returned" => told[d] = {} \/ told[d] = Answered(d)
    /\ at[d] # "returned" => returned[d] = Default
    /\ returned[d] # Default =>
         told[d] = {<<Session[d], [method |-> Method[d], value |-> returned[d]]>>}

DialogsInv == UI!TypeOK /\ Entries /\ Limited /\ Reported
LEMMA DialogsInit == UI!DialogAssumption /\ UI!Init => DialogsInv
<1> SUFFICES ASSUME UI!DialogAssumption, UI!Init PROVE DialogsInv  OBVIOUS
<1>1. Cardinality({}) = 0  BY FS_EmptySet
<1>2. UI!TypeOK  BY DEF UI!Init, UI!TypeOK
<1>3. Entries  BY DEF UI!Init, Entries
<1>4. Limited  BY <1>1 DEF UI!Init, Limited, UI!DialogAssumption
<1>5. Reported  BY DEF UI!Init, Reported
<1> QED  BY <1>2, <1>3, <1>4, <1>5 DEF DialogsInv

\* A table that loses entries keeps to the limit.
LEMMA Smaller ==
  ASSUME UI!DialogAssumption, UI!TypeOK, Limited, pending' \subseteq pending
  PROVE  Limited'
<1>1. IsFiniteSet(pending)  BY FS_Subset, FiniteUI DEF UI!DialogAssumption, UI!TypeOK
<1>2. Cardinality(pending') <= Cardinality(pending)  BY <1>1, FS_Subset
<1>3. Cardinality(pending') \in Nat /\ Cardinality(pending) \in Nat
  BY <1>1, FS_Subset, FS_CardinalityType
<1> QED  BY <1>2, <1>3 DEF Limited, UI!DialogAssumption

\* One more entry fits, because the dialog is opened only when the table is not full.
LEMMA OneMore ==
  ASSUME UI!DialogAssumption, DialogsInv, NEW d \in Dialogs, UI!OpenDialog(d)
  PROVE  Limited'
<1>1. IsFiniteSet(pending)
  BY FS_Subset, FiniteUI DEF UI!DialogAssumption, UI!TypeOK, DialogsInv
<1>2. Cardinality(pending) \in Nat  BY <1>1, FS_CardinalityType
<1>3. d \notin pending  BY DEF UI!OpenDialog, DialogsInv, Entries
<1>4. Cardinality(pending') = Cardinality(pending) + 1
  BY <1>1, <1>3, FS_AddElement DEF UI!OpenDialog
<1>5. ~(Cardinality(pending) >= MaxDialogs)  BY FiniteUI DEF UI!OpenDialog, UI!Full
<1> QED  BY <1>2, <1>4, <1>5 DEF Limited, UI!DialogAssumption

LEMMA Opens ==
  ASSUME UI!DialogAssumption, DialogsInv, NEW d \in Dialogs, UI!OpenDialog(d)
  PROVE  DialogsInv'
<1> USE DEF DialogsInv, UI!OpenDialog
<1>1. UI!TypeOK'  BY DEF UI!TypeOK
<1>2. Entries'  BY DEF UI!TypeOK, Entries
<1>3. Limited'  BY OneMore
<1>4. Reported'  BY DEF UI!TypeOK, Reported, Answered
<1> QED  BY <1>1, <1>2, <1>3, <1>4

LEMMA Refuses ==
  ASSUME UI!DialogAssumption, DialogsInv, NEW d \in Dialogs, UI!DialogRefused(d)
  PROVE  DialogsInv'
<1> USE DEF DialogsInv, UI!DialogRefused
<1>1. UI!TypeOK'  BY DEF UI!TypeOK
<1>2. Entries'  BY DEF UI!TypeOK, Entries
<1>3. Limited'  BY DEF Limited
<1>4. Reported'  BY DEF UI!TypeOK, Reported, Answered
<1> QED  BY <1>1, <1>2, <1>3, <1>4

\* A response is reported once: only a waiting dialog takes it, and waiting ones have none yet.
LEMMA Responds ==
  ASSUME UI!DialogAssumption, DialogsInv, NEW d \in Dialogs, NEW s \in Sessions,
       NEW r \in UI!Responses,
         UI!HandleUIResponse(d, s, r)
  PROVE  DialogsInv'
<1> USE DEF DialogsInv, UI!HandleUIResponse, UI!Settle, UI!IsPending, UI!Matches
<1>1. UI!TypeOK'  BY DEF UI!TypeOK
<1>2. Entries'  BY DEF UI!TypeOK, Entries
<1>3. Limited'  BY Smaller
<1>4. at[d] = "waiting"  BY DEF Entries
<1>5. told[d] = {} /\ returned[d] = Default  BY <1>4 DEF Reported
<1>6. Reported'  BY <1>4, <1>5 DEF UI!TypeOK, Reported, Answered
<1> QED  BY <1>1, <1>2, <1>3, <1>6

\* A timeout and the deletion of a session reject waiting dialogs, whatever number of them.
LEMMA Rejects ==
  ASSUME UI!DialogAssumption, DialogsInv, NEW ds, ds \subseteq pending, UI!Settle(ds),
       UI!Reject(ds),
         UNCHANGED <<reply, returned, told>>
  PROVE  DialogsInv'
<1> USE DEF DialogsInv, UI!Settle, UI!Reject
<1>1. UI!TypeOK'  BY DEF UI!TypeOK
<1>2. Entries'  BY DEF UI!TypeOK, Entries
<1>3. Limited'  BY Smaller
<1>4. \A d \in ds : told[d] = {} /\ returned[d] = Default  BY DEF Entries, Reported
<1>5. Reported'  BY <1>4 DEF UI!TypeOK, Reported, Answered
<1> QED  BY <1>1, <1>2, <1>3, <1>5

LEMMA Aborts ==
  ASSUME UI!DialogAssumption, DialogsInv, NEW d \in Dialogs, UI!Abort(d)
  PROVE  DialogsInv'
<1> USE DEF DialogsInv, UI!Abort, UI!Settle
<1>1. UI!TypeOK'  BY DEF UI!TypeOK
<1>2. Entries'  BY DEF UI!TypeOK, Entries
<1>3. Limited'  BY Smaller
<1>4. Reported'  BY DEF UI!TypeOK, Reported, Answered
<1> QED  BY <1>1, <1>2, <1>3, <1>4

\* What the dialog returns is the value of the one response that was reported.
LEMMA Wakes ==
  ASSUME UI!DialogAssumption, DialogsInv, NEW d \in Dialogs, UI!Wake(d)
  PROVE  DialogsInv'
<1> USE DEF DialogsInv, UI!Wake
<1>1. CASE at[d] = "resolved" /\ UI!OfItsMethod(d)
  <2>1. reply[d] \in UI!Responses /\ reply[d].method = Method[d] /\ told[d] = Answered(d)
    BY <1>1 DEF Reported, UI!OfItsMethod
  <2>2. reply[d] = [method |-> Method[d], value |-> reply[d].value] /\ reply[d].value \in Values
    BY <2>1 DEF UI!Responses
  <2>3. UI!TypeOK'  BY <1>1, <2>2 DEF UI!TypeOK
  <2>4. Entries'  BY <1>1 DEF UI!TypeOK, Entries
  <2>5. Limited'  BY DEF Limited
  <2>6. returned'[d] = reply[d].value  BY <1>1 DEF UI!TypeOK
  <2>7. told[d] = {<<Session[d], [method |-> Method[d], value |-> returned'[d]]>>}
    BY <2>1, <2>2, <2>6 DEF Answered
  <2>8. Reported'  BY <1>1, <2>1, <2>7 DEF UI!TypeOK, Reported, Answered
  <2> QED  BY <2>3, <2>4, <2>5, <2>8
<1>2. CASE ~(at[d] = "resolved" /\ UI!OfItsMethod(d))
  <2>1. returned' = [returned EXCEPT ![d] = Default]  BY <1>2
  <2>2. UI!TypeOK'  BY <2>1 DEF UI!TypeOK
  <2>3. Entries'  BY DEF UI!TypeOK, Entries
  <2>4. Limited'  BY DEF Limited
  <2>5. Reported'  BY <2>1 DEF UI!TypeOK, Reported, Answered
  <2> QED  BY <2>2, <2>3, <2>4, <2>5
<1> QED  BY <1>1, <1>2

LEMMA DialogsNext == UI!DialogAssumption /\ DialogsInv /\ [UI!Next]_(UI!vars) => DialogsInv'
<1> SUFFICES ASSUME UI!DialogAssumption, DialogsInv, [UI!Next]_(UI!vars)
  PROVE DialogsInv'  OBVIOUS
<1>1. ASSUME NEW d \in Dialogs, UI!TimeOut(d) PROVE DialogsInv'
  BY <1>1, Rejects DEF UI!TimeOut
<1>2. ASSUME NEW s \in Sessions, UI!CancelSession(s) PROVE DialogsInv'
  BY <1>2, Rejects DEF UI!CancelSession
<1>3. CASE UNCHANGED UI!vars
  BY <1>3 DEF UI!vars, DialogsInv, UI!TypeOK, Entries, Limited, Reported, Answered
<1> QED  BY <1>1, <1>2, <1>3, Opens, Refuses, Responds, Aborts, Wakes DEF UI!Next

LEMMA DialogsInvariant == UI!Spec => []DialogsInv
<1> USE WaitsAssumption DEF WaitsAssumption
<1>1. UI!Init => DialogsInv  BY DialogsInit
<1>2. DialogsInv /\ [UI!Next]_(UI!vars) => DialogsInv'  BY DialogsNext
<1> QED  BY <1>1, <1>2, PTL DEF UI!Spec

\* However timeouts, responses, aborts and deletions race for it, a request ends once and takes
\* its entry and its timer with it; one response at most is reported a success to a client, and
\* a dialog returns nothing else.
THEOREM DialogsAccountedHolds == UI!Spec => []DialogsAccounted
<1>1. DialogsInv => UI!PendingAreWaiting BY FiniteUI DEF DialogsInv, Entries, Limited,
     UI!PendingAreWaiting
<1>2. DialogsInv => UI!AnsweredOnce
  <2> SUFFICES ASSUME DialogsInv, NEW d \in Dialogs PROVE Cardinality(told[d]) <= 1
    BY FiniteUI DEF DialogsInv, Reported, UI!AnsweredOnce
  <2>1. told[d] = {} \/ told[d] = Answered(d)  BY DEF DialogsInv, UI!TypeOK, Reported
  <2>2. Cardinality({}) = 0 /\ Cardinality(Answered(d)) = 1
    BY FS_EmptySet, FS_Singleton DEF Answered
  <2> QED  BY <2>1, <2>2
<1>3. DialogsInv => DialogsAccounted
  BY <1>1, <1>2 DEF DialogsInv, DialogsAccounted, UI!DialogsAccounted
<1>4. QED BY <1>3, DialogsInvariant, PTL
-----------------------------------------------------------------------------
(***************************************************************************)
(* The durable start: what makes its promises inductive is what state can  *)
(* be while the initialization is at each of its stages, and that a        *)
(* failure is never forgotten.                                             *)
(***************************************************************************)

\* What durableInitState says of the initialization.
StateAgrees ==
  /\ state = "disabled" => init = "none"
  /\ state = "ready" => init = "succeeded" /\ ~error
  /\ init = "succeeded" => recovered
  /\ init = "failed" => state \in {"failed", "timed_out"} /\ error
  /\ runtime => init = "succeeded" /\ Startup!Broken

\* Who came late is refused, or still waits for an initialization that has failed.
LateRefused ==
  \A c \in Callers \ Observers :
    /\ c \in late => caller[c] \in {"waiting", "refused"}
    /\ c \in late /\ caller[c] = "waiting" => init = "failed"

StartupInv ==
  /\ Startup!TypeOK /\ StateAgrees /\ LateRefused
  /\ Startup!NoCommandUnrecovered /\ Startup!LateSuccessOpens

USE DEF Startup!Broken, Startup!Hangs, Startup!StateAfter

LEMMA StartupInit == Startup!Init => StartupInv
BY DEF Startup!Init, StartupInv, Startup!TypeOK, StateAgrees, LateRefused,
     Startup!NoCommandUnrecovered, Startup!LateSuccessOpens

LEMMA CallOpenKeeps == ASSUME StartupInv, NEW c \in Callers, Startup!CallOpen(c)
  PROVE StartupInv'
BY DEF StartupInv, Startup!TypeOK, StateAgrees, LateRefused, Startup!NoCommandUnrecovered,
     Startup!LateSuccessOpens,
       Startup!CallOpen, Startup!Ended

LEMMA CallBrokenKeeps == ASSUME StartupInv, NEW c \in Callers, Startup!CallBroken(c)
  PROVE StartupInv'
BY DEF StartupInv, Startup!TypeOK, StateAgrees, LateRefused, Startup!NoCommandUnrecovered,
     Startup!LateSuccessOpens,
       Startup!CallBroken, Startup!Ended

LEMMA CallWaitsKeeps == ASSUME StartupInv, NEW c \in Callers, Startup!CallWaits(c)
  PROVE StartupInv'
<1>1. Startup!TypeOK' /\ StateAgrees' /\ Startup!LateSuccessOpens'
  BY DEF StartupInv, Startup!TypeOK, StateAgrees, Startup!LateSuccessOpens, Startup!CallWaits
<1>2. \A d \in Callers : caller'[d] = IF d = c THEN "waiting" ELSE caller[d]
  BY DEF StartupInv, Startup!TypeOK, Startup!CallWaits
<1>3. late' = late \/ (late' = late \cup {c} /\ init = "failed" /\ init' = "failed")
  BY DEF StartupInv, StateAgrees, Startup!CallWaits
<1>5. c \notin Observers => c \notin late
  BY DEF StartupInv, LateRefused, Startup!CallWaits
<1>6. init = "failed" => init' = "failed"
  BY DEF Startup!CallWaits
<1>7. LateRefused'
  <2> SUFFICES ASSUME NEW d \in Callers \ Observers, d \in late'
               PROVE caller'[d] \in {"waiting",
                    "refused"} /\ (caller'[d] = "waiting" => init' = "failed")
    BY DEF LateRefused
  <2>1. CASE d = c  BY <2>1, <1>2, <1>3, <1>5
  <2>2. CASE d # c
    <3>1. d \in late /\ caller'[d] = caller[d]  BY <2>2, <1>2, <1>3
    <3> QED  BY <3>1, <1>6 DEF StartupInv, LateRefused
  <2> QED  BY <2>1, <2>2
<1>8. Startup!NoCommandUnrecovered'
  <2> SUFFICES ASSUME NEW d \in Callers \ Observers, caller'[d] = "passed"
               PROVE (recovered' \/ state' = "disabled") /\ d \notin late'
    BY DEF Startup!NoCommandUnrecovered
  <2>1. d # c /\ caller[d] = "passed"  BY <1>2
  <2>2. d \notin late' /\ recovered
    BY <2>1, <1>3 DEF StartupInv, Startup!NoCommandUnrecovered, Startup!CallWaits
  <2> QED  BY <2>2 DEF Startup!CallWaits
<1> QED  BY <1>1, <1>7, <1>8 DEF StartupInv

LEMMA InitializationKeeps ==
  ASSUME StartupInv,
       Startup!Succeeds \/ Startup!Fails \/ Startup!AppendFailsClosed PROVE StartupInv'
<1>1. CASE Startup!Succeeds
  BY <1>1 DEF StartupInv, Startup!TypeOK, StateAgrees, LateRefused,
       Startup!NoCommandUnrecovered,
              Startup!LateSuccessOpens, Startup!Succeeds
<1>2. CASE Startup!Fails
  BY <1>2 DEF StartupInv, Startup!TypeOK, StateAgrees, LateRefused,
       Startup!NoCommandUnrecovered,
              Startup!LateSuccessOpens, Startup!Fails
<1>3. CASE Startup!AppendFailsClosed
  BY <1>3 DEF StartupInv, Startup!TypeOK, StateAgrees, LateRefused,
       Startup!NoCommandUnrecovered,
              Startup!LateSuccessOpens, Startup!AppendFailsClosed
<1> QED  BY <1>1, <1>2, <1>3

LEMMA WaitKeeps == ASSUME StartupInv, NEW c \in Callers, Startup!Wait(c) PROVE StartupInv'
<1>1. CASE Startup!WaitPasses(c)
  BY <1>1 DEF StartupInv, Startup!TypeOK, StateAgrees, LateRefused,
       Startup!NoCommandUnrecovered, Startup!LateSuccessOpens,
              Startup!WaitPasses, Startup!Ended
<1>2. CASE Startup!WaitRejected(c)
  BY <1>2 DEF StartupInv, Startup!TypeOK, StateAgrees, LateRefused,
       Startup!NoCommandUnrecovered, Startup!LateSuccessOpens,
              Startup!WaitRejected, Startup!Ended
<1>3. CASE Startup!WaitTimesOut(c)
  BY <1>3 DEF StartupInv, Startup!TypeOK, StateAgrees, LateRefused,
       Startup!NoCommandUnrecovered, Startup!LateSuccessOpens,
              Startup!WaitTimesOut, Startup!Ended
<1> QED  BY <1>1, <1>2, <1>3 DEF Startup!Wait

LEMMA StartupNext == ASSUME StartupInv, [Startup!Next]_(Startup!vars) PROVE StartupInv'
<1>1. CASE UNCHANGED Startup!vars
  BY <1>1 DEF StartupInv, Startup!TypeOK, StateAgrees, LateRefused,
       Startup!NoCommandUnrecovered, Startup!LateSuccessOpens, Startup!vars
<1>2. CASE Startup!Next
  BY <1>2, CallOpenKeeps, CallBrokenKeeps, CallWaitsKeeps, WaitKeeps, InitializationKeeps
     DEF Startup!Next
<1> QED  BY <1>1, <1>2

LEMMA StartupInvariant == Startup!Spec => []StartupInv
BY StartupInit, StartupNext, PTL DEF Startup!Spec

\* No command executes before the outcomes of the last run are known, or comes after a failure
\* of the journal and executes, however many callers wait and give up beside it; and an
\* initialization that succeeds after its callers gave up opens the server.
THEOREM StartupSafeHolds == Startup!Spec => []StartupSafe
<1>1. StartupInv => StartupSafe BY DEF StartupInv, StartupSafe, Startup!StartupSafe
<1>2. QED BY <1>1, StartupInvariant, PTL
-----------------------------------------------------------------------------
(***************************************************************************)
(* Session creations: that two never run at once is not visible in their   *)
(* promises alone; they are a queue q, of which the first k are done.      *)
(***************************************************************************)

Queued(q) ==
  /\ q \in Seq(Creations)
  /\ \A i, j \in 1 .. Len(q) : q[i] = q[j] => i = j
  /\ \A c \in Creations : step[c] # "idle" <=> \E i \in 1 .. Len(q) : q[i] = c
  /\ \A i \in 1 .. Len(q) : previous[q[i]] = IF i = 1 THEN NoCreation ELSE q[i - 1]
  /\ tail = IF Len(q) = 0 THEN NoCreation ELSE q[Len(q)]

Done(q, k) ==
  /\ k \in 0 .. Len(q)
  /\ \A i \in 1 .. k : step[q[i]] = "done"
  /\ \A i \in 1 .. Len(q) : i > k + 1 => step[q[i]] = "waiting"
  /\ k < Len(q) => step[q[k + 1]] \in {"waiting", "creating"}

Kept(q, k) ==
  IF k < Len(q) /\ step[q[k + 1]] = "creating"
  THEN env = {} /\ snapshot[q[k + 1]] = original ELSE env = original

Turns == \E q \in Seq(Creations), k \in Nat : Queued(q) /\ Done(q, k) /\ Kept(q, k)
NpmInv == Npm!TypeOK /\ Turns
LEMMA NpmInit == ASSUME Npm!CreationAssumption, Npm!Init PROVE NpmInv
<1>1. Npm!TypeOK  BY DEF Npm!Init, Npm!TypeOK
<1>2. Queued(<<>>) /\ Done(<<>>, 0) /\ Kept(<<>>, 0)
  BY DEF Npm!Init, Queued, Done, Kept
<1>3. <<>> \in Seq(Creations)  OBVIOUS
<1> QED  BY <1>1, <1>2, <1>3 DEF NpmInv, Turns

LEMMA NpmTypes == ASSUME Npm!TypeOK, [Npm!Next]_(Npm!vars) PROVE Npm!TypeOK'
  BY DEF Npm!TypeOK, Npm!Next, Npm!vars, Npm!Ask, Npm!Sanitize, Npm!Restore

\* A newcomer stands behind the last one.
LEMMA AskTurns ==
  ASSUME Npm!CreationAssumption, NpmInv, NEW c \in Creations, Npm!Ask(c) PROVE Turns'
<1> USE DEF NpmInv, Npm!TypeOK
<1>1. PICK q \in Seq(Creations), k \in Nat : Queued(q) /\ Done(q, k) /\ Kept(q, k)
  BY DEF Turns
<1> DEFINE r == Append(q, c)
<1>2. /\ r \in Seq(Creations) /\ Len(r) = Len(q) + 1 /\ Len(q) \in Nat
      /\ r[Len(q) + 1] = c /\ \A i \in 1 .. Len(q) : r[i] = q[i] /\ q[i] \in Creations
  OBVIOUS
<1>3. \A i \in 1 .. Len(q) : q[i] # c /\ step'[q[i]] = step[q[i]]
                             /\ previous'[q[i]] = previous[q[i]]
  BY <1>1, <1>2 DEF Queued, Npm!Ask
<1>4. step'[c] = "waiting" /\ previous'[c] = tail /\ tail' = c
  BY DEF Npm!Ask
<1> HIDE DEF r
<1>5. Queued(r)'
  <2>1. \A i, j \in 1 .. Len(r) : r[i] = r[j] => i = j
    BY <1>1, <1>2, <1>3 DEF Queued
  <2>2. \A d \in Creations : step'[d] # "idle" <=> \E i \in 1 .. Len(r) : r[i] = d
    <3> SUFFICES ASSUME NEW d \in Creations
                 PROVE step'[d] # "idle" <=> \E i \in 1 .. Len(r) : r[i] = d
      OBVIOUS
    <3>1. CASE d = c  BY <3>1, <1>2, <1>4
    <3>2. CASE d # c
      <4>1. step'[d] = step[d]  BY <3>2 DEF Npm!Ask
      <4>2. (\E i \in 1 .. Len(r) : r[i] = d) <=> \E i \in 1 .. Len(q) : q[i] = d
        BY <3>2, <1>2
      <4> QED  BY <4>1, <4>2, <1>1 DEF Queued
    <3> QED  BY <3>1, <3>2
  <2>3. \A i \in 1 .. Len(r) : previous'[r[i]] = IF i = 1 THEN NoCreation ELSE r[i - 1]
    <3> SUFFICES ASSUME NEW i \in 1 .. Len(r)
                 PROVE previous'[r[i]] = IF i = 1 THEN NoCreation ELSE r[i - 1]
      OBVIOUS
    <3>1. CASE i = Len(q) + 1  BY <3>1, <1>1, <1>2, <1>4 DEF Queued
    <3>2. CASE i # Len(q) + 1
      <4>1. i \in 1 .. Len(q)  BY <3>2, <1>2
      <4>2. r[i] = q[i] /\ previous'[q[i]] = previous[q[i]]  BY <4>1, <1>2, <1>3
      <4>3. previous[q[i]] = IF i = 1 THEN NoCreation ELSE q[i - 1]
        BY <4>1, <1>1 DEF Queued
      <4>4. i # 1 => r[i - 1] = q[i - 1]  BY <4>1, <1>2
      <4> QED  BY <4>2, <4>3, <4>4
    <3> QED  BY <3>1, <3>2
  <2> QED  BY <2>1, <2>2, <2>3, <1>2, <1>4 DEF Queued
<1>6. Done(r, k)'
  <2>1. k \in 0 .. Len(r)  BY <1>1, <1>2 DEF Done
  <2>2. \A i \in 1 .. k : i \in 1 .. Len(q)  BY <1>1, <1>2 DEF Done
  <2>3. \A i \in 1 .. k : step'[r[i]] = "done"  BY <2>2, <1>1, <1>2, <1>3 DEF Done
  <2>4. \A i \in 1 .. Len(r) : i > k + 1 => step'[r[i]] = "waiting"
    <3> SUFFICES ASSUME NEW i \in 1 .. Len(r), i > k + 1 PROVE step'[r[i]] = "waiting"
      OBVIOUS
    <3>1. CASE i = Len(q) + 1  BY <3>1, <1>2, <1>4
    <3>2. CASE i # Len(q) + 1
      <4>1. i \in 1 .. Len(q)  BY <3>2, <1>2
      <4> QED  BY <4>1, <1>1, <1>2, <1>3 DEF Done
    <3> QED  BY <3>1, <3>2
  <2>5. k < Len(r) => step'[r[k + 1]] \in {"waiting", "creating"}
    <3>1. CASE k = Len(q)  BY <3>1, <1>2, <1>4
    <3>2. CASE k < Len(q)
      <4>1. k + 1 \in 1 .. Len(q)  BY <3>2, <1>2
      <4> QED  BY <4>1, <3>2, <1>1, <1>2, <1>3 DEF Done
    <3> QED  BY <3>1, <3>2, <1>1, <1>2 DEF Done
  <2> QED  BY <2>1, <2>3, <2>4, <2>5 DEF Done
<1>7. Kept(r, k)'
  <2>1. CASE k < Len(q)
    <3>1. k + 1 \in 1 .. Len(q) /\ k < Len(r)  BY <2>1, <1>2
    <3> QED  BY <2>1, <3>1, <1>1, <1>2, <1>3 DEF Kept, Npm!Ask
  <2>2. CASE k = Len(q)  BY <2>2, <1>1, <1>2, <1>4 DEF Kept, Npm!Ask
  <2> QED  BY <2>1, <2>2, <1>1, <1>2 DEF Done
<1> QED  BY <1>2, <1>5, <1>6, <1>7 DEF Turns

\* Who has its turn is the first that is not done.
LEMMA SanitizeTurns ==
  ASSUME Npm!CreationAssumption, NpmInv, NEW c \in Creations, Npm!Sanitize(c) PROVE Turns'
<1> USE DEF NpmInv, Npm!TypeOK
<1>1. PICK q \in Seq(Creations), k \in Nat : Queued(q) /\ Done(q, k) /\ Kept(q, k)
  BY DEF Turns
<1>2. Len(q) \in Nat /\ \A i \in 1 .. Len(q) : q[i] \in Creations
  OBVIOUS
<1>3. PICK n \in 1 .. Len(q) : q[n] = c
  BY <1>1 DEF Queued, Npm!Sanitize
<1>4. n = k + 1
  <2>1. n > k  BY <1>1, <1>2, <1>3 DEF Done, Npm!Sanitize
  <2>2. CASE n > k + 1
    <3>1. n # 1 /\ n - 1 \in 1 .. Len(q) /\ n - 1 > k
      BY <2>2, <1>1, <1>2
    <3>2. previous[c] = q[n - 1] /\ previous[c] # NoCreation
      BY <3>1, <1>1, <1>2, <1>3 DEF Queued, Npm!CreationAssumption
    <3>3. step[q[n - 1]] # "done"
      BY <3>1, <1>1, <1>2 DEF Done
    <3> QED  BY <3>2, <3>3 DEF Npm!Sanitize, Npm!HasTurn
  <2> QED  BY <2>1, <2>2, <1>1
<1>5. \A i \in 1 .. Len(q) : step'[q[i]] = IF i = n THEN "creating" ELSE step[q[i]]
  BY <1>1, <1>2, <1>3 DEF Queued, Npm!Sanitize
<1>6. Queued(q)'
  BY <1>1, <1>2, <1>3 DEF Queued, Npm!Sanitize
<1>7. Done(q, k)'
  BY <1>1, <1>2, <1>4, <1>5 DEF Done
<1>8. Kept(q, k)'
  <2>1. env = original
    BY <1>1, <1>3, <1>4 DEF Kept, Npm!Sanitize
  <2> QED  BY <2>1, <1>2, <1>3, <1>4, <1>5 DEF Kept, Npm!Sanitize
<1> QED  BY <1>6, <1>7, <1>8 DEF Turns

\* Who creates is the first that is not done.
LEMMA RestoreTurns ==
  ASSUME Npm!CreationAssumption, NpmInv, NEW c \in Creations, Npm!Restore(c) PROVE Turns'
<1> USE DEF NpmInv, Npm!TypeOK
<1>1. PICK q \in Seq(Creations), k \in Nat : Queued(q) /\ Done(q, k) /\ Kept(q, k)
  BY DEF Turns
<1>2. Len(q) \in Nat /\ \A i \in 1 .. Len(q) : q[i] \in Creations
  OBVIOUS
<1>3. PICK n \in 1 .. Len(q) : q[n] = c
  BY <1>1 DEF Queued, Npm!Restore
<1>4. n = k + 1
  BY <1>1, <1>2, <1>3 DEF Done, Npm!Restore
<1>5. \A i \in 1 .. Len(q) : step'[q[i]] = IF i = n THEN "done" ELSE step[q[i]]
  BY <1>1, <1>2, <1>3 DEF Queued, Npm!Restore
<1>6. Queued(q)'
  BY <1>1, <1>2, <1>3 DEF Queued, Npm!Restore
<1>7. Done(q, k + 1)'
  BY <1>1, <1>2, <1>3, <1>4, <1>5 DEF Done
<1>8. Kept(q, k + 1)'
  <2>1. env' = original
    BY <1>1, <1>3, <1>4 DEF Kept, Npm!Restore
  <2>2. k + 1 < Len(q) => step'[q[k + 2]] # "creating"
    BY <1>1, <1>2, <1>4, <1>5 DEF Done
  <2> QED  BY <2>1, <2>2 DEF Kept, Npm!Restore
<1>9. k + 1 \in Nat  OBVIOUS
<1> QED  BY <1>6, <1>7, <1>8, <1>9 DEF Turns

LEMMA NpmNext == ASSUME Npm!CreationAssumption, NpmInv, [Npm!Next]_(Npm!vars) PROVE NpmInv'
<1>1. CASE UNCHANGED Npm!vars
  BY <1>1 DEF NpmInv, Npm!TypeOK, Turns, Queued, Done, Kept, Npm!vars
<1>2. CASE Npm!Next
  BY <1>2, AskTurns, SanitizeTurns, RestoreTurns, NpmTypes DEF Npm!Next, NpmInv
<1> QED  BY <1>1, <1>2

LEMMA TurnsSafe == ASSUME NpmInv PROVE Npm!EnvironmentSafe
<1>1. PICK q \in Seq(Creations), k \in Nat : Queued(q) /\ Done(q, k) /\ Kept(q, k)
  BY DEF NpmInv, Turns
<1>2. Len(q) \in Nat /\ \A i \in 1 .. Len(q) : q[i] \in Creations
  OBVIOUS
<1>3. ASSUME NEW c \in Creations, step[c] = "creating"
      PROVE k < Len(q) /\ step[q[k + 1]] = "creating"
  <2>1. PICK n \in 1 .. Len(q) : q[n] = c  BY <1>1, <1>3 DEF Queued
  <2> QED  BY <2>1, <1>1, <1>2, <1>3 DEF Done
<1>4. k < Len(q) => q[k + 1] \in Creations
  BY <1>1, <1>2 DEF Done
<1> QED  BY <1>1, <1>3, <1>4 DEF Kept, Npm!EnvironmentSafe

\* Sessions are created without the variables of npm, one at a time, and the process has its own
\* environment back whenever none is being created.
THEOREM EnvironmentSafeHolds == Npm!Spec => []EnvironmentSafe
<1> USE WaitsAssumption DEF WaitsAssumption
<1>1. Npm!Init => NpmInv  BY NpmInit
<1>2. NpmInv /\ [Npm!Next]_(Npm!vars) => NpmInv'  BY NpmNext
<1>3. NpmInv => EnvironmentSafe  BY TurnsSafe DEF EnvironmentSafe
<1>4. QED  BY <1>1, <1>2, <1>3, PTL DEF Npm!Spec
-----------------------------------------------------------------------------
(***************************************************************************)
(* Connections: where each of them is decides whether it holds a slot, and *)
(* cleanupConnection is the only way out.                                  *)
(***************************************************************************)

Connection ==
  [stage : {"none", "rejected", "authenticating", "served", "over"},
   cleanedUp : BOOLEAN, activated : BOOLEAN, pending : Nat, begun : Nat,
   ws : {"none", "open", "closing", "closed"}, buffer : {"low", "over"}, threw : BOOLEAN,
   timer : BOOLEAN, waitingForPong : BOOLEAN, deadline : BOOLEAN]

Quiet(k) == ~k.timer /\ ~k.deadline

\* What the stage of a connection says of the rest of it.
Shaped(k) ==
  /\ k.stage \in {"none", "rejected"} =>
       ~k.cleanedUp /\ ~k.activated /\ k.pending = 0 /\ Quiet(k) /\ k.ws # "open"
  /\ k.stage = "none" => k.ws = "none"
  /\ k.stage = "authenticating" => ~k.activated /\ k.pending = 0 /\ Quiet(k)
  /\ k.stage = "served" => k.activated
  /\ k.stage = "over" => k.cleanedUp
  /\ k.cleanedUp => Quiet(k) /\ (k.ws = "open" => k.threw)

Inside(k) == ~k.cleanedUp /\ k.stage \in {"authenticating", "served"}
Handshakes == {c \in Conns : Inside(conn[c]) /\ ~conn[c].activated}
Actives == {c \in Conns : Inside(conn[c]) /\ conn[c].activated}

Counted ==
  /\ reserved = Cardinality(Handshakes) /\ connections = Cardinality(Actives)
  /\ connections + reserved <= MaxConnections

ConnInv ==
  /\ conn \in [Conns -> Connection]
  /\ \A c \in Conns : Shaped(conn[c])
  /\ subscribers \subseteq {c \in Conns : conn[c].stage = "served" /\ ~conn[c].cleanedUp}
  /\ Counted

LEMMA ConnInvAccounts == ASSUME ConnInv PROVE ConnectionsAccounted
<1> USE TransportAssumption DEF ConnInv
<1>1. IsFiniteSet(Handshakes) /\ IsFiniteSet(Actives)
  <2>1. Handshakes \subseteq Conns /\ Actives \subseteq Conns BY DEF Handshakes, Actives
  <2>2. QED BY <2>1, FS_Subset DEF TransportAssumption
<1>2. TypeOK
  <2>1. connections \in Nat /\ reserved \in Nat BY <1>1, FS_CardinalityType DEF Counted
  <2>2. QED BY <2>1 DEF TypeOK, Connection
<1>3. SlotsAccounted
  <2>1. /\ Handshakes = {c \in Conns : Holding(c) /\ ~conn[c].activated}
        /\ Actives = {c \in Conns : Holding(c) /\ conn[c].activated}
    BY DEF Handshakes, Actives, Holding, Inside
  <2>2. QED BY <2>1 DEF SlotsAccounted, Counted
<1>4. CleanedForGood BY DEF CleanedForGood, Shaped, Quiet
<1>5. QED BY <1>2, <1>3, <1>4 DEF ConnectionsAccounted

LEMMA ConnInit == Init => ConnInv
<1> SUFFICES ASSUME Init PROVE ConnInv OBVIOUS
<1> USE DEF Init, NoConn
<1>1. conn \in [Conns -> Connection] BY DEF Connection
<1>2. \A c \in Conns : Shaped(conn[c]) BY DEF Shaped, Quiet
<1>3. Handshakes = {} /\ Actives = {} BY DEF Handshakes, Actives, Inside
<1>4. Counted BY <1>3, FS_EmptySet, TransportAssumption DEF Counted, TransportAssumption
<1>5. QED BY <1>1, <1>2, <1>4 DEF ConnInv

\* The counts, and how they follow a connection.
LEMMA CountTypes ==
  ASSUME ConnInv
  PROVE  /\ IsFiniteSet(Handshakes) /\ IsFiniteSet(Actives)
         /\ reserved \in Nat /\ connections \in Nat
<1>1. Handshakes \subseteq Conns /\ Actives \subseteq Conns BY DEF Handshakes, Actives
<1>2. IsFiniteSet(Handshakes) /\ IsFiniteSet(Actives)
  BY <1>1, FS_Subset, TransportAssumption DEF TransportAssumption
<1>3. QED BY <1>2, FS_CardinalityType DEF ConnInv, Counted

LEMMA Follows ==
  ASSUME ConnInv, NEW c \in Conns, NEW k \in Connection, conn' = [conn EXCEPT ![c] = k]
  PROVE  /\ Handshakes' = IF Inside(k) /\ ~k.activated THEN Handshakes \cup {c} ELSE Handshakes \ {c}
         /\ Actives' = IF Inside(k) /\ k.activated THEN Actives \cup {c} ELSE Actives \ {c}
BY DEF Handshakes, Actives, ConnInv

\* A connection that stays inside, or outside, of the count.
LEMMA StaysCounted ==
  ASSUME ConnInv, NEW c \in Conns, NEW k \in Connection, Shaped(k),
         conn' = [conn EXCEPT ![c] = k], UNCHANGED <<slots, subscribers>>,
         k.activated = conn[c].activated, Inside(k) <=> Inside(conn[c]),
         c \in subscribers => k.stage = "served"
  PROVE  ConnInv'
<1>1. Handshakes' = Handshakes /\ Actives' = Actives BY Follows DEF Handshakes, Actives
<1>2. Counted' BY <1>1 DEF Counted, slots, ConnInv
<1>3. conn' \in [Conns -> Connection] /\ \A d \in Conns : Shaped(conn'[d]) BY DEF ConnInv
<1>4. c \in subscribers => ~k.cleanedUp BY DEF ConnInv, Inside
<1>5. subscribers' \subseteq {d \in Conns : conn'[d].stage = "served" /\ ~conn'[d].cleanedUp}
  BY <1>4 DEF ConnInv
<1>6. QED BY <1>2, <1>3, <1>5 DEF ConnInv

\* cleanupConnection: k is the connection as the handler leaves it, its socket not open unless
\* a send threw.
LEMMA CleanUpKeeps ==
  ASSUME ConnInv, NEW c \in Conns, NEW k \in Connection, CleanUp(c, k),
         conn[c].stage \notin {"none", "rejected"}, k.ws = "open" => k.threw,
         k.stage \in {conn[c].stage, "over"}, k.cleanedUp = conn[c].cleanedUp,
         k.activated = conn[c].activated, k.timer = conn[c].timer,
         k.deadline = conn[c].deadline,
         k.stage = "authenticating" => k.pending = 0
  PROVE  ConnInv'
<1>0. conn[c] \in Connection /\ Shaped(conn[c]) BY DEF ConnInv
<1>1. CASE k.cleanedUp
  <2>1. conn' = [conn EXCEPT ![c] = k] /\ UNCHANGED <<slots, subscribers>>
    BY <1>1 DEF CleanUp, AlreadyCleaned
  <2>2. Shaped(k) BY <1>0, <1>1 DEF Shaped, Quiet, Connection
  <2>3. c \notin subscribers BY <1>1 DEF ConnInv
  <2>4. Inside(k) <=> Inside(conn[c]) BY <1>1 DEF Inside
  <2>5. QED BY <2>1, <2>2, <2>3, <2>4, StaysCounted
<1>2. CASE ~k.cleanedUp
  <2> DEFINE q == [QuietHeart(k) EXCEPT !.cleanedUp = TRUE]
  <2>1. conn' = [conn EXCEPT ![c] = q] /\ subscribers' = subscribers \ {c}
    BY <1>2 DEF CleanUp, AlreadyCleaned
  <2>2. q \in Connection /\ q.cleanedUp /\ Quiet(q) /\ q.ws = k.ws /\ q.stage = k.stage
        /\ q.activated = k.activated /\ q.pending = k.pending /\ q.threw = k.threw
    BY DEF QuietHeart, Connection, Quiet
  <2> HIDE DEF q
  <2>3. q.stage \notin {"none", "rejected"} BY <2>2
  <2>4. Shaped(q) BY <1>0, <2>2, <2>3 DEF Shaped, Quiet, Connection
  <2>5. Handshakes' = Handshakes \ {c} /\ Actives' = Actives \ {c}
    BY <2>1, <2>2, Follows DEF Inside
  <2>6. Inside(conn[c]) BY <1>0, <1>2 DEF Inside, Connection, Shaped
  <2>7. Counted'
    <3>1. CASE k.activated
      <4>1. c \in Actives /\ c \notin Handshakes BY <2>6, <3>1 DEF Actives, Handshakes
      <4>2. connections' = Dec(connections) /\ UNCHANGED reserved
        BY <1>2, <3>1 DEF CleanUp, AlreadyCleaned
      <4>3. Cardinality(Actives') = Cardinality(Actives) - 1 /\ Cardinality(Actives') \in Nat
        BY <2>5, <4>1, CountTypes, FS_RemoveElement, FS_CardinalityType
      <4>4. Handshakes' = Handshakes BY <2>5, <4>1
      <4>5. QED
        BY <4>2, <4>3, <4>4, CountTypes, TransportAssumption
        DEF Counted, ConnInv, Dec, TransportAssumption
    <3>2. CASE ~k.activated
      <4>1. c \notin Actives /\ c \in Handshakes BY <2>6, <3>2 DEF Actives, Handshakes
      <4>2. reserved' = Dec(reserved) /\ UNCHANGED connections
        BY <1>2, <3>2 DEF CleanUp, AlreadyCleaned
      <4>3. /\ Cardinality(Handshakes') = Cardinality(Handshakes) - 1
            /\ Cardinality(Handshakes') \in Nat
        BY <2>5, <4>1, CountTypes, FS_RemoveElement, FS_CardinalityType
      <4>4. Actives' = Actives BY <2>5, <4>1
      <4>5. QED
        BY <4>2, <4>3, <4>4, CountTypes, TransportAssumption
        DEF Counted, ConnInv, Dec, TransportAssumption
    <3>3. QED BY <3>1, <3>2
  <2>8. conn' \in [Conns -> Connection] /\ \A d \in Conns : Shaped(conn'[d])
    BY <2>1, <2>2, <2>4 DEF ConnInv
  <2>9. subscribers' \subseteq {d \in Conns : conn'[d].stage = "served" /\ ~conn'[d].cleanedUp}
    BY <2>1 DEF ConnInv
  <2>10. QED BY <2>7, <2>8, <2>9 DEF ConnInv
<1>3. QED BY <1>1, <1>2
\* What a handler does to the socket and the timers keeps a connection a connection.
LEMMA Sockets ==
  ASSUME NEW k \in Connection
  PROVE  /\ Closing(k) \in Connection /\ Closing(k).ws # "open"
         /\ Closing(k) = [k EXCEPT !.ws = IF k.ws = "open" THEN "closing" ELSE k.ws]
         /\ QuietHeart(k) \in Connection /\ Quiet(QuietHeart(k))
         /\ AfterSend(k) \in Connection
         /\ AfterSend(k) = k \/ (k.ws = "open" /\ AfterSend(k) = Closing(k))
         /\ ~Sends(k) => AfterSend(k).ws # "open"
         /\ Thrown(k) \in Connection /\ Thrown(k) = [k EXCEPT !.threw = TRUE]
<1>1. Closing(k) = [k EXCEPT !.ws = IF k.ws = "open" THEN "closing" ELSE k.ws] BY DEF Closing
<1>2. Closing(k) \in Connection /\ Closing(k).ws # "open" BY <1>1 DEF Connection
<1>3. QuietHeart(k) \in Connection /\ Quiet(QuietHeart(k)) BY DEF QuietHeart, Quiet, Connection
<1>4. AfterSend(k) = k \/ (k.ws = "open" /\ AfterSend(k) = Closing(k)) BY DEF AfterSend
<1>5. ~Sends(k) => AfterSend(k).ws # "open" BY <1>2 DEF AfterSend, Sends, Connection
<1>6. Thrown(k) \in Connection /\ Thrown(k) = [k EXCEPT !.threw = TRUE] BY DEF Thrown, Connection
<1>7. QED BY <1>1, <1>2, <1>3, <1>4, <1>5, <1>6

\* Closing a socket moves nobody in or out.
LEMMA ClosingShape ==
  ASSUME NEW k \in Connection, Shaped(k)
  PROVE  /\ Shaped(Closing(k)) /\ Closing(k).stage = k.stage /\ Closing(k).cleanedUp = k.cleanedUp
         /\ Closing(k).activated = k.activated /\ Closing(k).pending = k.pending
         /\ Closing(k).timer = k.timer /\ Closing(k).deadline = k.deadline
<1>1. Closing(k) = [k EXCEPT !.ws = IF k.ws = "open" THEN "closing" ELSE k.ws] BY Sockets
<1>2. QED BY <1>1 DEF Shaped, Quiet, Connection

\* Connections that differ in their counts of messages at most.
SameButCounts(k, q) ==
  /\ q.stage = k.stage /\ q.cleanedUp = k.cleanedUp /\ q.activated = k.activated
  /\ q.timer = k.timer /\ q.deadline = k.deadline /\ q.ws = k.ws /\ q.threw = k.threw

\* sendCriticalWebSocket, with one message less or as many as before.
LEMMA RespondKeeps ==
  ASSUME ConnInv, NEW c \in Conns, NEW k \in Connection, SameButCounts(conn[c], k),
         conn[c].stage \in {"served", "over"}, Respond(c, k)
  PROVE  ConnInv'
<1>0. conn[c] \in Connection /\ Shaped(conn[c]) BY DEF ConnInv
<1>1. /\ k.stage = conn[c].stage /\ k.cleanedUp = conn[c].cleanedUp
      /\ k.activated = conn[c].activated /\ k.timer = conn[c].timer
      /\ k.deadline = conn[c].deadline /\ k.ws = conn[c].ws /\ k.threw = conn[c].threw
  BY DEF SameButCounts
<1>2. Shaped(k) BY <1>0, <1>1 DEF Shaped, Quiet
<1>3. Respond(c, k) OBVIOUS
<1>4. CASE conn' = [conn EXCEPT ![c] = k] /\ UNCHANGED <<slots, subscribers>>
  <2>1. c \in subscribers => k.stage = "served" BY <1>1 DEF ConnInv
  <2>2. Inside(k) <=> Inside(conn[c]) BY <1>1 DEF Inside
  <2>3. QED BY <1>1, <1>2, <1>4, <2>1, <2>2, StaysCounted
<1>5. ASSUME NEW q \in Connection, CleanUp(c, q), q.ws = "open" => q.threw,
             q.stage = k.stage /\ q.cleanedUp = k.cleanedUp /\ q.activated = k.activated,
             q.timer = k.timer /\ q.deadline = k.deadline
      PROVE  ConnInv'
  BY <1>1, <1>5, CleanUpKeeps
<1>6. CASE CleanUp(c, Thrown(k))
  <2>1. Thrown(k) \in Connection /\ Thrown(k) = [k EXCEPT !.threw = TRUE] BY <1>1, Sockets
  <2>2. /\ Thrown(k).threw /\ Thrown(k).stage = k.stage /\ Thrown(k).cleanedUp = k.cleanedUp
        /\ Thrown(k).activated = k.activated /\ Thrown(k).timer = k.timer
        /\ Thrown(k).deadline = k.deadline
    BY <1>1, <2>1 DEF Connection
  <2>3. QED BY <1>5, <1>6, <2>1, <2>2
<1>7. CASE ~Sends(k) /\ CleanUp(c, AfterSend(k))
  <2> DEFINE q == AfterSend(k)
  <2>1. q \in Connection /\ q.ws # "open" BY <1>1, <1>7, Sockets
  <2>2. q = k \/ q = Closing(k) BY <1>1, Sockets
  <2>3. /\ q.stage = k.stage /\ q.cleanedUp = k.cleanedUp /\ q.activated = k.activated
        /\ q.timer = k.timer /\ q.deadline = k.deadline
    BY <1>1, <1>2, <2>2, ClosingShape
  <2>4. CleanUp(c, q) BY <1>7
  <2> HIDE DEF q
  <2>5. QED BY <1>5, <2>1, <2>3, <2>4
<1>8. QED BY <1>3, <1>4, <1>6, <1>7 DEF Respond

\* An answer touches the counts only, and leaves as many messages as are not answered.
LEMMA AnsweredTypes ==
  ASSUME NEW k \in Connection, NEW q \in AfterAnswer(k)
  PROVE  q \in Connection /\ SameButCounts(k, q) /\ k.pending > 0
<1>1. k.pending \in Nat /\ k.begun \in Nat BY DEF Connection
<1>2. PICK b \in {k.begun, k.begun - 1} \cap 0 .. k.pending - 1 :
        q = [k EXCEPT !.pending = k.pending - 1, !.begun = b]
  BY Zenon DEF AfterAnswer
<1>3. b \in Nat /\ k.pending - 1 \in Nat /\ k.pending > 0 BY <1>1, <1>2
<1>4. QED BY <1>2, <1>3 DEF SameButCounts, Connection

\* Sockets that are told to close, by a broadcast or by stop().
LEMMA HushKeeps ==
  ASSUME ConnInv, UNCHANGED <<slots, subscribers>>, conn' = [c \in Conns |-> conn'[c]],
         \A c \in Conns : conn'[c] \in {conn[c], Closing(conn[c])}
  PROVE  ConnInv'
<1>1. \A c \in Conns :
        /\ conn'[c] \in Connection /\ Shaped(conn'[c])
        /\ conn'[c].stage = conn[c].stage /\ conn'[c].cleanedUp = conn[c].cleanedUp
        /\ conn'[c].activated = conn[c].activated
  <2> TAKE c \in Conns
  <2>1. conn[c] \in Connection /\ Shaped(conn[c]) BY DEF ConnInv
  <2>2. Closing(conn[c]) \in Connection BY <2>1, Sockets
  <2>3. QED BY <2>1, <2>2, ClosingShape
<1>2. conn' \in [Conns -> Connection] BY <1>1
<1>3. Handshakes' = Handshakes /\ Actives' = Actives BY <1>1 DEF Handshakes, Actives, Inside
<1>4. Counted' BY <1>3 DEF Counted, slots, ConnInv
<1>5. QED BY <1>1, <1>2, <1>4 DEF ConnInv

LEMMA ConnectKeeps == ASSUME ConnInv, NEW c \in Conns, Connect(c) PROVE ConnInv'
<1>0. conn[c] \in Connection /\ conn[c].stage = "none" /\ c \notin subscribers
  BY DEF ConnInv, Connect
<1>1. CASE AtCapacity
  <2> DEFINE k == [NoConn EXCEPT !.stage = "rejected", !.ws = "closing"]
  <2>1. conn' = [conn EXCEPT ![c] = k] /\ UNCHANGED <<slots, subscribers>>
    BY <1>1 DEF Connect, slots
  <2>2. k \in Connection /\ Shaped(k) /\ ~Inside(k) /\ ~k.activated
    BY DEF NoConn, Connection, Shaped, Quiet, Inside
  <2>3. ~Inside(conn[c]) /\ ~conn[c].activated BY <1>0 DEF Inside, ConnInv, Shaped
  <2>4. k.activated = conn[c].activated BY <1>0, <2>2, <2>3 DEF Connection
  <2> HIDE DEF k
  <2>5. QED BY <1>0, <2>1, <2>2, <2>3, <2>4, StaysCounted
<1>2. CASE ~AtCapacity
  <2> DEFINE k == [NoConn EXCEPT !.stage = "authenticating", !.ws = "open"]
  <2>1. /\ conn' = [conn EXCEPT ![c] = k] /\ UNCHANGED <<connections, subscribers>>
        /\ reserved' = reserved + 1
    BY <1>2 DEF Connect
  <2>2. k \in Connection /\ Shaped(k) /\ Inside(k) /\ ~k.activated
    BY DEF NoConn, Connection, Shaped, Quiet, Inside
  <2> HIDE DEF k
  <2>3. c \notin Handshakes /\ c \notin Actives BY <1>0 DEF Handshakes, Actives, Inside
  <2>4. Handshakes' = Handshakes \cup {c} /\ Actives' = Actives
    <3>1. conn' = [conn EXCEPT ![c] = k] /\ k \in Connection BY <2>1, <2>2
    <3>2. Handshakes' = Handshakes \cup {c} BY <2>2, <3>1, Follows
    <3>3. Actives' = Actives \ {c} BY <2>2, <3>1, Follows
    <3>4. QED BY <2>3, <3>2, <3>3
  <2>5. Cardinality(Handshakes') = Cardinality(Handshakes) + 1
    BY <2>3, <2>4, CountTypes, FS_AddElement
  <2>6. Counted'
    BY <1>2, <2>1, <2>4, <2>5, CountTypes, TransportAssumption
    DEF Counted, ConnInv, AtCapacity, TransportAssumption
  <2>7. QED BY <1>0, <2>1, <2>2, <2>6 DEF ConnInv
<1>3. QED BY <1>1, <1>2

LEMMA AuthenticatedKeeps == ASSUME ConnInv, NEW c \in Conns, Authenticated(c) PROVE ConnInv'
<1> DEFINE k == [conn[c] EXCEPT !.activated = TRUE]
<1>0. /\ conn[c] \in Connection /\ Shaped(conn[c]) /\ conn[c].stage = "authenticating"
      /\ ~conn[c].cleanedUp
  BY DEF ConnInv, Authenticated, LeftMeanwhile
<1>1. k \in Connection /\ k.activated /\ k.stage = "authenticating" /\ ~k.cleanedUp /\ Quiet(k)
      /\ k.pending = 0
  BY <1>0 DEF Connection, Shaped, Quiet
<1>2. c \in Handshakes /\ c \notin Actives /\ c \notin subscribers
  BY <1>0 DEF Handshakes, Actives, Inside, Shaped, ConnInv
<1>3. /\ Cardinality(Handshakes \ {c}) = Cardinality(Handshakes) - 1
      /\ Cardinality(Handshakes \ {c}) \in Nat
  <2>1. IsFiniteSet(Handshakes \ {c}) BY CountTypes, FS_RemoveElement
  <2>2. QED BY <1>2, <2>1, CountTypes, FS_RemoveElement, FS_CardinalityType
<1> DEFINE Gone == /\ \E q \in {IF Sends(k) THEN Thrown(k) ELSE AfterSend(k)} :
                        conn' = [conn EXCEPT ![c] = [q EXCEPT !.stage = "over", !.cleanedUp = TRUE]]
                   /\ reserved' = Dec(reserved) /\ UNCHANGED <<connections, subscribers>>
<1>4. CASE ~Gone
  <2> DEFINE q == Beating([k EXCEPT !.stage = "served"])
  <2>1. /\ conn' = [conn EXCEPT ![c] = q] /\ subscribers' = subscribers \cup {c}
        /\ reserved' = Dec(reserved) /\ connections' = connections + 1
    BY <1>4 DEF Authenticated, ActivateReserved
  <2>2. /\ q \in Connection /\ q.activated /\ q.stage = "served" /\ ~q.cleanedUp
    BY <1>1 DEF Beating, Connection
  <2> HIDE DEF q
  <2>3. Shaped(q) /\ Inside(q) BY <2>2 DEF Shaped, Inside
  <2>4. Handshakes' = Handshakes \ {c} /\ Actives' = Actives \cup {c}
    BY <2>1, <2>2, <2>3, Follows
  <2>5. Cardinality(Actives') = Cardinality(Actives) + 1
    BY <1>2, <2>4, CountTypes, FS_AddElement
  <2>6. Counted'
    BY <1>3, <2>1, <2>4, <2>5, CountTypes, TransportAssumption
    DEF Counted, ConnInv, Dec, TransportAssumption
  <2>7. conn' \in [Conns -> Connection] /\ \A d \in Conns : Shaped(conn'[d])
    BY <2>1, <2>2, <2>3 DEF ConnInv
  <2>8. subscribers' \subseteq {d \in Conns : conn'[d].stage = "served" /\ ~conn'[d].cleanedUp}
    BY <2>1, <2>2 DEF ConnInv
  <2>9. QED BY <2>6, <2>7, <2>8 DEF ConnInv
<1>5. CASE Gone
  <2> DEFINE r == IF Sends(k) THEN Thrown(k) ELSE AfterSend(k)
             q == [r EXCEPT !.stage = "over", !.cleanedUp = TRUE]
  <2>1. /\ conn' = [conn EXCEPT ![c] = q] /\ UNCHANGED <<connections, subscribers>>
        /\ reserved' = Dec(reserved)
    BY <1>5
  <2>2. r \in Connection /\ (r.ws = "open" => r.threw) /\ Quiet(r)
    <3>1. CASE Sends(k)
      <4>1. r \in Connection /\ r = [k EXCEPT !.threw = TRUE] BY <1>1, <3>1, Sockets
      <4>2. QED BY <1>1, <4>1 DEF Quiet, Connection
    <3>2. CASE ~Sends(k)
      <4>1. r \in Connection /\ r.ws # "open" /\ (r = k \/ r = Closing(k))
        BY <1>1, <3>2, Sockets
      <4>2. Quiet(Closing(k)) BY <1>1 DEF Closing, Quiet, Connection
      <4>3. QED BY <1>1, <4>1, <4>2
    <3>3. QED BY <3>1, <3>2
  <2> HIDE DEF r
  <2>3. /\ q \in Connection /\ q.stage = "over" /\ q.cleanedUp /\ (q.ws = "open" => q.threw)
        /\ Quiet(q)
    BY <2>2 DEF Connection, Quiet
  <2> HIDE DEF q
  <2>4. Shaped(q) /\ ~Inside(q) BY <2>3 DEF Shaped, Inside
  <2>5. Handshakes' = Handshakes \ {c} /\ Actives' = Actives
    BY <1>2, <2>1, <2>3, <2>4, Follows
  <2>6. Counted'
    BY <1>3, <2>1, <2>5, CountTypes, TransportAssumption
    DEF Counted, ConnInv, Dec, TransportAssumption
  <2>7. QED BY <1>2, <2>1, <2>3, <2>4, <2>6 DEF ConnInv
<1>6. QED BY <1>4, <1>5

\* A step that changes one connection and leaves it where it is.
LEMMA Tinkers ==
  ASSUME ConnInv, NEW c \in Conns, NEW k \in Connection,
         conn' = [conn EXCEPT ![c] = k], UNCHANGED <<slots, subscribers>>,
         Shaped(k), k.stage = conn[c].stage, k.cleanedUp = conn[c].cleanedUp,
         k.activated = conn[c].activated
  PROVE  ConnInv'
<1>1. Inside(k) <=> Inside(conn[c]) BY DEF Inside
<1>2. c \in subscribers => k.stage = "served" BY DEF ConnInv
<1>3. QED BY <1>1, <1>2, StaysCounted

LEMMA HeartKeeps ==
  ASSUME ConnInv, NEW c \in Conns, HeartbeatTick(c) \/ PongTimeout(c) \/ Pong(c) PROVE ConnInv'
<1>0. conn[c] \in Connection /\ Shaped(conn[c]) BY DEF ConnInv
<1>1. conn[c].stage = "served" /\ (~Quiet(conn[c]) \/ Pong(c))
  BY <1>0 DEF HeartbeatTick, PongTimeout, Pong, Hears, Shaped, Quiet, Connection
<1>2. PICK k : conn' = [conn EXCEPT ![c] = k] /\
        \/ k = QuietHeart(conn[c]) \/ k = Closing(QuietHeart(conn[c]))
        \/ k = [conn[c] EXCEPT !.waitingForPong = TRUE, !.deadline = TRUE] /\ conn[c].timer
        \/ k = [Thrown(QuietHeart(conn[c])) EXCEPT !.deadline = TRUE] /\ conn[c].timer
        \/ k = [conn[c] EXCEPT !.deadline = FALSE]
        \/ k = [conn[c] EXCEPT !.waitingForPong = FALSE, !.deadline = FALSE]
  BY DEF HeartbeatTick, PongTimeout, Pong
<1>3. UNCHANGED <<slots, subscribers>> BY DEF HeartbeatTick, PongTimeout, Pong
<1>4. k \in Connection
  <2>1. QuietHeart(conn[c]) \in Connection /\ Closing(QuietHeart(conn[c])) \in Connection
    BY <1>0, Sockets
  <2>2. /\ [conn[c] EXCEPT !.waitingForPong = TRUE, !.deadline = TRUE] \in Connection
        /\ [conn[c] EXCEPT !.deadline = FALSE] \in Connection
        /\ [conn[c] EXCEPT !.waitingForPong = FALSE, !.deadline = FALSE] \in Connection
    BY <1>0 DEF Connection
  <2>3. [Thrown(QuietHeart(conn[c])) EXCEPT !.deadline = TRUE] \in Connection
    <3>1. Thrown(QuietHeart(conn[c])) \in Connection BY <2>1, Sockets
    <3>2. \A q \in Connection : [q EXCEPT !.deadline = TRUE] \in Connection BY DEF Connection
    <3>3. QED BY <3>1, <3>2
  <2>4. QED BY <1>2, <2>1, <2>2, <2>3
<1>5. /\ k.stage = conn[c].stage /\ k.cleanedUp = conn[c].cleanedUp
      /\ k.activated = conn[c].activated
  BY <1>0, <1>2 DEF QuietHeart, Closing, Thrown, Connection
<1>6. Shaped(k)
  BY <1>0, <1>1, <1>2, <1>5 DEF Shaped, Quiet, QuietHeart, Closing, Thrown, Connection
<1>7. QED BY <1>2, <1>3, <1>4, <1>5, <1>6, Tinkers

LEMMA ConnNext == ASSUME ConnInv, [Next]_vars PROVE ConnInv'
<1>0. \A c \in Conns : conn[c] \in Connection /\ Shaped(conn[c]) BY DEF ConnInv
<1>1. ASSUME NEW c \in Conns, AuthenticationFails(c) PROVE ConnInv'
  <2> DEFINE k == Closing([conn[c] EXCEPT !.stage = "over"])
  <2>1. CleanUp(c, k) /\ conn[c].stage = "authenticating" BY <1>1 DEF AuthenticationFails
  <2>2. [conn[c] EXCEPT !.stage = "over"] \in Connection BY <1>0 DEF Connection
  <2>3. k \in Connection /\ k.ws # "open" BY <2>2, Sockets
  <2>4. /\ k.stage = "over" /\ k.cleanedUp = conn[c].cleanedUp
        /\ k.activated = conn[c].activated /\ k.timer = conn[c].timer
        /\ k.deadline = conn[c].deadline
    BY <1>0 DEF Closing, Connection
  <2> HIDE DEF k
  <2>5. QED BY <2>1, <2>3, <2>4, CleanUpKeeps
<1>2. ASSUME NEW c \in Conns, AuthenticatedTooLate(c) PROVE ConnInv'
  <2> DEFINE k == [conn[c] EXCEPT !.stage = "over"]
  <2>1. conn' = [conn EXCEPT ![c] = k] /\ UNCHANGED <<slots, subscribers>>
        /\ conn[c].stage = "authenticating" /\ conn[c].cleanedUp
    BY <1>2 DEF AuthenticatedTooLate, LeftMeanwhile
  <2>2. /\ k \in Connection /\ k.stage = "over" /\ k.cleanedUp /\ k.ws = conn[c].ws
        /\ k.timer = conn[c].timer /\ k.deadline = conn[c].deadline
        /\ k.activated = conn[c].activated /\ k.threw = conn[c].threw
    BY <1>0, <2>1 DEF Connection
  <2> HIDE DEF k
  <2>3. Shaped(k) BY <1>0, <2>1, <2>2 DEF Shaped, Quiet
  <2>4. c \notin subscribers BY <2>1 DEF ConnInv
  <2>5. Inside(k) <=> Inside(conn[c]) BY <2>1, <2>2 DEF Inside
  <2>6. QED BY <2>1, <2>2, <2>3, <2>4, <2>5, StaysCounted
<1>3. ASSUME NEW c \in Conns, SocketClosed(c) PROVE ConnInv'
  <2>1. CASE conn[c].stage = "rejected"
    <3> DEFINE k == [conn[c] EXCEPT !.ws = "closed"]
    <3>1. conn' = [conn EXCEPT ![c] = k] /\ UNCHANGED <<slots, subscribers>>
      BY <1>3, <2>1 DEF SocketClosed
    <3>2. /\ k \in Connection /\ k.ws = "closed" /\ k.stage = "rejected" /\ k.timer = conn[c].timer
          /\ k.deadline = conn[c].deadline /\ k.cleanedUp = conn[c].cleanedUp
          /\ k.activated = conn[c].activated /\ k.pending = conn[c].pending
      BY <1>0, <2>1 DEF Connection
    <3> HIDE DEF k
    <3>3. Shaped(k) BY <1>0, <2>1, <3>2 DEF Shaped, Quiet
    <3>4. QED BY <2>1, <3>1, <3>2, <3>3, Tinkers
  <2>2. CASE conn[c].stage # "rejected"
    <3> DEFINE k == [conn[c] EXCEPT !.ws = "closed", !.buffer = "low"]
    <3>1. CleanUp(c, k) /\ conn[c].ws # "none" BY <1>3, <2>2 DEF SocketClosed
    <3>2. conn[c].stage # "none" BY <1>0, <3>1 DEF Shaped
    <3>3. /\ k \in Connection /\ k.ws = "closed" /\ k.stage = conn[c].stage
          /\ k.timer = conn[c].timer /\ k.deadline = conn[c].deadline
          /\ k.cleanedUp = conn[c].cleanedUp /\ k.activated = conn[c].activated
          /\ k.pending = conn[c].pending
      BY <1>0 DEF Connection
    <3> HIDE DEF k
    <3>4. k.stage = "authenticating" => k.pending = 0 BY <1>0, <3>3 DEF Shaped
    <3>5. QED BY <2>2, <3>1, <3>2, <3>3, <3>4, CleanUpKeeps
  <2>3. QED BY <2>1, <2>2
<1>4. ASSUME NEW c \in Conns, SocketError(c) PROVE ConnInv'
  <2>1. CleanUp(c, Closing(conn[c])) /\ conn[c].ws = "open" BY <1>4 DEF SocketError
  <2>2. conn[c].stage \notin {"none", "rejected"} BY <1>0, <2>1 DEF Shaped
  <2>3. Closing(conn[c]).stage = "authenticating" => Closing(conn[c]).pending = 0
    BY <1>0, ClosingShape DEF Shaped
  <2>4. QED BY <1>0, <2>1, <2>2, <2>3, Sockets, ClosingShape, CleanUpKeeps
<1>5. ASSUME NEW c \in Conns, BufferChanges(c) PROVE ConnInv'
  <2>1. PICK b \in {"low", "over"} : conn' = [conn EXCEPT ![c].buffer = b]
    BY <1>5 DEF BufferChanges
  <2> DEFINE k == [conn[c] EXCEPT !.buffer = b]
  <2>2. conn' = [conn EXCEPT ![c] = k] /\ UNCHANGED <<slots, subscribers>>
    BY <1>5, <2>1 DEF BufferChanges
  <2>3. /\ k \in Connection /\ k.ws = conn[c].ws /\ k.stage = conn[c].stage
        /\ k.timer = conn[c].timer /\ k.deadline = conn[c].deadline
        /\ k.cleanedUp = conn[c].cleanedUp /\ k.activated = conn[c].activated
        /\ k.pending = conn[c].pending /\ k.threw = conn[c].threw
    BY <1>0 DEF Connection
  <2> HIDE DEF k
  <2>4. Shaped(k) BY <1>0, <2>3 DEF Shaped, Quiet
  <2>5. QED BY <2>2, <2>3, <2>4, Tinkers
<1>6. ASSUME NEW c \in Conns, MessageRefused(c) PROVE ConnInv'
  <2>1. conn[c].stage = "served" /\ Respond(c, conn[c]) BY <1>6 DEF MessageRefused, Hears
  <2>2. SameButCounts(conn[c], conn[c]) BY DEF SameButCounts
  <2>3. QED BY <1>0, <2>1, <2>2, RespondKeeps
<1>7. ASSUME NEW c \in Conns, NEW k \in Connection, SameButCounts(conn[c], k),
             conn[c].stage \in {"served", "over"},
             conn' = [conn EXCEPT ![c] = k], UNCHANGED <<slots, subscribers>>
      PROVE  ConnInv'
  <2>1. Shaped(k) BY <1>0, <1>7 DEF Shaped, Quiet, SameButCounts
  <2>2. QED BY <1>7, <2>1, Tinkers DEF SameButCounts
<1>8. ASSUME NEW c \in Conns, MessageAccepted(c) PROVE ConnInv'
  <2> DEFINE k == [conn[c] EXCEPT !.pending = conn[c].pending + 1]
  <2>1. conn' = [conn EXCEPT ![c] = k] /\ UNCHANGED <<slots, subscribers>>
        /\ conn[c].stage = "served"
    BY <1>8 DEF MessageAccepted, Hears
  <2>2. k \in Connection /\ SameButCounts(conn[c], k) BY <1>0 DEF Connection, SameButCounts
  <2> HIDE DEF k
  <2>3. QED BY <1>7, <2>1, <2>2
<1>9. ASSUME NEW c \in Conns, NEW e \in Executions, CommandBegins(c, e) PROVE ConnInv'
  <2> DEFINE k == [conn[c] EXCEPT !.begun = conn[c].begun + 1]
  <2>1. conn' = [conn EXCEPT ![c] = k] /\ UNCHANGED <<slots, subscribers>>
        /\ conn[c].begun < conn[c].pending
    BY <1>9 DEF CommandBegins
  <2>2. k \in Connection /\ SameButCounts(conn[c], k) BY <1>0 DEF Connection, SameButCounts
  <2>3. conn[c].stage \in {"served", "over"} BY <1>0, <2>1 DEF Shaped, Connection
  <2> HIDE DEF k
  <2>4. QED BY <1>7, <2>1, <2>2, <2>3
<1>10. ASSUME NEW c \in Conns, CommandDone(c) PROVE ConnInv'
  <2>1. PICK k \in AfterAnswer(conn[c]) : Respond(c, k) BY <1>10, Zenon DEF CommandDone
  <2>2. k \in Connection /\ SameButCounts(conn[c], k) /\ conn[c].pending > 0
    BY <1>0, AnsweredTypes
  <2>3. conn[c].stage \in {"served", "over"} BY <1>0, <2>2 DEF Shaped, Connection
  <2>4. QED BY <2>1, <2>2, <2>3, RespondKeeps
<1>11. ASSUME NEW c \in Conns, SwitchDone(c) PROVE ConnInv'
  <2>1. PICK k \in AfterAnswer(conn[c]) : conn' = [conn EXCEPT ![c] = k]
    BY <1>11, Zenon DEF SwitchDone
  <2>2. k \in Connection /\ SameButCounts(conn[c], k) /\ conn[c].pending > 0
    BY <1>0, AnsweredTypes
  <2>3. conn[c].stage \in {"served", "over"} BY <1>0, <2>2 DEF Shaped, Connection
  <2>4. UNCHANGED <<slots, subscribers>> BY <1>11 DEF SwitchDone
  <2>5. QED BY <1>7, <2>1, <2>2, <2>3, <2>4
<1>12. ASSUME Broadcast, UNCHANGED <<slots, subscribers>> PROVE ConnInv'
  <2>1. \A c \in Conns : conn'[c] \in {conn[c], Closing(conn[c])}
    BY <1>0, <1>12, Sockets DEF Broadcast
  <2>2. conn' = [c \in Conns |-> conn'[c]] BY <1>12 DEF Broadcast
  <2>3. QED BY <1>12, <2>1, <2>2, HushKeeps
<1>13. ASSUME NEW s \in Stops, StopCloses(s) PROVE ConnInv'
  <2>1. \A c \in Conns : conn'[c] \in {conn[c], Closing(conn[c])} BY <1>13 DEF StopCloses
  <2>2. conn' = [c \in Conns |-> conn'[c]] /\ UNCHANGED <<slots, subscribers>>
    BY <1>13 DEF StopCloses
  <2>3. QED BY <2>1, <2>2, HushKeeps
<1>14. CASE UNCHANGED <<conn, slots, subscribers>>
  BY <1>14 DEF ConnInv, Counted, Handshakes, Actives, slots
<1>15. ASSUME NEW s \in Stops,
              StopBegins(s) \/ StopListening(s) \/ StopDrained(s) \/ StopTimesOut(s)
       PROVE  ConnInv'
  BY <1>12, <1>14, <1>15 DEF StopBegins, StopListening, StopDrained, StopTimesOut
<1>16. ASSUME SessionDeleted PROVE ConnInv' BY <1>12, <1>16 DEF SessionDeleted
<1>17. ASSUME \/ StdioRefused \/ StdioAccepted \/ StdioDone \/ StdinEnds \/ StdoutGoes
              \/ StdoutError
       PROVE  ConnInv'
  <2>1. StdioOnly
    BY <1>17 DEF StdioRefused, StdioAccepted, StdioDone, StdinEnds, StdoutGoes, StdoutError
  <2>2. QED BY <1>14, <2>1 DEF StdioOnly
<1>18. ASSUME NEW e \in Executions, ExecutionEnds(e) \/ StdioBegins(e) PROVE ConnInv'
  BY <1>14, <1>18 DEF ExecutionEnds, StdioBegins
<1>19. ASSUME NEW c \in Conns, GoSilent(c) PROVE ConnInv' BY <1>14, <1>19 DEF GoSilent
<1>20. CASE UNCHANGED vars BY <1>14, <1>20 DEF vars
<1>21. QED
  BY <1>1, <1>2, <1>3, <1>4, <1>5, <1>6, <1>8, <1>9, <1>10, <1>11, <1>13, <1>15, <1>16,
     <1>17, <1>18, <1>19, <1>20, ConnectKeeps, AuthenticatedKeeps, HeartKeeps
  DEF Next, ConnStep

\* Whatever closes, fails or answers late: the governor's counts are the connections that hold
\* a slot, within the limit, and who was cleaned up stays out, for any number of connections.
THEOREM ConnectionsAccountedHolds == Spec => []ConnectionsAccounted
BY ConnInit, ConnNext, ConnInvAccounts, PTL DEF Spec
-----------------------------------------------------------------------------
(***************************************************************************)
(* The drain: the one call of stop() takes its snapshot in the run that    *)
(* sets the flag, and a command that finds the flag set does not execute.  *)
(* So the snapshot stays all there is in flight, and when it is settled    *)
(* nothing is, then or later.                                              *)
(***************************************************************************)

Draining ==
  /\ isShuttingDown => \A s \in Stops : stopping[s] \notin {"idle", "disposingAuth"}
  /\ \A s \in Stops :
       /\ stopping[s] \notin {"idle", "disposingAuth", "returned"} => isShuttingDown
       /\ stopping[s] = "draining" => inFlight = awaited

DrainInv == DOMAIN stopping = Stops /\ Draining /\ DrainedFirst

LEMMA DrainInit == ASSUME Init PROVE DrainInv
<1>1. stopping = [s \in Stops |-> "idle"] /\ ~isShuttingDown BY DEF Init
<1>2. QED BY <1>1 DEF DrainInv, Draining, DrainedFirst

\* Who does not touch the flag or the calls of stop(), and lets executions end at most.
LEMMA DrainStays ==
  ASSUME DrainInv, UNCHANGED <<stopping, isShuttingDown>>,
         \/ UNCHANGED executions
         \/ ~isShuttingDown
         \/ \E e \in Executions : inFlight' = inFlight \ {e} /\ awaited' = awaited \ {e}
  PROVE  DrainInv'
<1>1. CASE UNCHANGED executions BY <1>1 DEF DrainInv, Draining, DrainedFirst, executions
<1>2. CASE ~isShuttingDown
  <2>1. \A s \in Stops : stopping[s] \in {"idle", "disposingAuth", "returned"}
    BY <1>2 DEF DrainInv, Draining
  <2>2. QED BY <1>2, <2>1 DEF DrainInv, Draining, DrainedFirst
<1>3. ASSUME NEW e \in Executions, inFlight' = inFlight \ {e}, awaited' = awaited \ {e}
      PROVE  DrainInv'
  BY <1>3 DEF DrainInv, Draining, DrainedFirst
<1>4. QED BY <1>1, <1>2, <1>3

LEMMA DrainNext ==
  ASSUME \A s, t \in Stops : s = t, DrainInv, [Next]_vars PROVE DrainInv'
<1>1. ASSUME NEW s \in Stops, StopBegins(s) PROVE DrainInv'
  <2>1. stopping[s] = "idle" /\ ~isShuttingDown BY <1>1 DEF StopBegins, DrainInv, Draining
  <2>2. stopping' = [stopping EXCEPT ![s] = "disposingAuth"] /\ UNCHANGED isShuttingDown
    BY <1>1, <2>1 DEF StopBegins
  <2>3. QED BY <2>1, <2>2 DEF DrainInv, Draining, DrainedFirst
<1>2. ASSUME NEW s \in Stops, StopListening(s) PROVE DrainInv'
  <2>1. stopping[s] = "disposingAuth" /\ ~isShuttingDown
    BY <1>2 DEF StopListening, DrainInv, Draining
  <2>2. /\ stopping' = [stopping EXCEPT ![s] = "draining"] /\ isShuttingDown'
        /\ awaited' = inFlight /\ UNCHANGED inFlight
    BY <1>2, <2>1 DEF StopListening
  <2>3. \A t \in Stops : stopping'[t] = "draining" BY <2>2 DEF DrainInv
  <2>4. QED BY <2>2, <2>3 DEF DrainInv, Draining, DrainedFirst
<1>3. ASSUME NEW s \in Stops, StopDrained(s) PROVE DrainInv'
  <2>1. /\ stopping[s] = "draining" /\ awaited = {} /\ UNCHANGED <<isShuttingDown, executions>>
        /\ stopping' = [stopping EXCEPT ![s] = "closing"]
    BY <1>3 DEF StopDrained, Drained
  <2>2. inFlight = {} /\ isShuttingDown BY <2>1 DEF DrainInv, Draining
  <2>3. QED BY <2>1, <2>2 DEF DrainInv, Draining, DrainedFirst, executions
<1>4. ASSUME NEW s \in Stops, StopTimesOut(s) PROVE DrainInv'
  <2>1. /\ stopping[s] = "draining" /\ UNCHANGED <<isShuttingDown, executions>>
        /\ stopping' = [stopping EXCEPT ![s] = "closingLate"]
    BY <1>4 DEF StopTimesOut
  <2>2. QED BY <2>1 DEF DrainInv, Draining, DrainedFirst, executions
<1>5. ASSUME NEW s \in Stops, StopCloses(s) PROVE DrainInv'
  <2>1. /\ UNCHANGED <<isShuttingDown, executions>>
        /\ \/ stopping[s] = "closing" /\ stopping' = [stopping EXCEPT ![s] = "closed"]
           \/ stopping[s] = "closingLate" /\ stopping' = [stopping EXCEPT ![s] = "closedLate"]
    BY <1>5 DEF StopCloses
  <2>2. QED BY <2>1 DEF DrainInv, Draining, DrainedFirst, executions
<1>6. ASSUME NEW e \in Executions, ExecutionEnds(e) PROVE DrainInv'
  BY <1>6, DrainStays DEF ExecutionEnds, shutdown
<1>7. ASSUME NEW e \in Executions,
             StdioBegins(e) \/ \E c \in Conns : CommandBegins(c, e)
      PROVE  DrainInv'
  BY <1>7, DrainStays DEF StdioBegins, CommandBegins, Registers, Admitting, shutdown
<1>8. ASSUME NEW c \in Conns,
             \/ Connect(c) \/ ConnStep(c) \/ SocketClosed(c) \/ SocketError(c)
             \/ BufferChanges(c) \/ GoSilent(c) \/ MessageRefused(c) \/ MessageAccepted(c)
             \/ HeartbeatTick(c) \/ PongTimeout(c) \/ Pong(c)
      PROVE  UNCHANGED <<executions, shutdown>>
  BY <1>8
  DEF Connect, ConnStep, SocketClosed, SocketError, BufferChanges, GoSilent, MessageRefused,
      MessageAccepted, HeartbeatTick, PongTimeout, Pong, NotServer, AuthenticationFails,
      AuthenticatedTooLate, Authenticated, CommandDone, SwitchDone
<1>9. ASSUME \/ SessionDeleted \/ StdioRefused \/ StdioAccepted \/ StdioDone \/ StdinEnds
             \/ StdoutGoes \/ StdoutError \/ UNCHANGED vars
      PROVE  UNCHANGED <<executions, shutdown>>
  BY <1>9
  DEF SessionDeleted, StdioRefused, StdioAccepted, StdioDone, StdinEnds, StdoutGoes,
      StdoutError, StdioOnly, vars
<1>10. CASE UNCHANGED <<executions, shutdown>> BY <1>10, DrainStays DEF shutdown
<1>11. QED BY <1>1, <1>2, <1>3, <1>4, <1>5, <1>6, <1>7, <1>8, <1>9, <1>10 DEF Next

\* A stop() whose drain did not time out closes the sockets and disposes of the sessions with no
\* execution in flight, and none begins later, whatever arrives, waits for the journal, is
\* answered by its timeout or breaks meanwhile; a second call of stop() does not wait, which is
\* why there is one.
THEOREM DrainedFirstHolds == ASSUME \A s, t \in Stops : s = t PROVE Spec => []DrainedFirst
<1>1. DrainInv => DrainedFirst BY DEF DrainInv
<1>2. QED BY <1>1, DrainInit, DrainNext, PTL DEF Spec
=============================================================================
