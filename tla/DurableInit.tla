------------------------------ MODULE DurableInit ------------------------------
(***************************************************************************)
(* ensureDurableJournalInitialized of the session manager: every command   *)
(* waits for one initialization of the journal, but only so long.  The     *)
(* initialization goes on when a caller has given up, and may succeed,     *)
(* fail or hang.  A query about the journal ignores the outcome.           *)
(***************************************************************************)
EXTENDS Naturals

CONSTANTS Callers,    \* start() and the commands
          Observers   \* get_startup_recovery and get_command_history among them

InitAssumption == Observers \subseteq Callers

VARIABLES state,      \* durableInitState
          error,      \* durableInitError is set
          init,       \* durableInitPromise: none, running, succeeded, failed
          wording,    \* the initialization failed with an error that says "timed out"
          recovered,  \* the outcomes of the last run are in the replay store
          at,         \* idle, waiting, passed, refused
          runtime,    \* history: an append has failed closed
          late        \* history: callers that came after a failure

vars == <<state, error, init, wording, recovered, at, runtime, late>>
-----------------------------------------------------------------------------
Init ==
  /\ state \in {"disabled", "pending"} /\ error = FALSE
  /\ init = "none" /\ wording = FALSE /\ recovered = FALSE
  /\ at = [c \in Callers |-> "idle"]
  /\ runtime = FALSE /\ late = {}

\* A refusal is an error response, except to an observer.
Ended(c, outcome) == at' = [at EXCEPT ![c] = IF c \in Observers THEN "passed" ELSE outcome]

CallOpen(c) ==
  /\ at[c] = "idle" /\ state \in {"disabled", "ready"} /\ Ended(c, "passed")
  /\ UNCHANGED <<state, error, init, wording, recovered, runtime, late>>

Forgives == FALSE                                \* fault: the failure is tried again, and again
Broken == state = "failed" /\ error

CallBroken(c) ==
  /\ at[c] = "idle" /\ Broken /\ Ended(c, "refused") /\ late' = late \cup {c}
  /\ UNCHANGED <<state, error, init, wording, recovered, runtime>>

CallWaits(c) ==
  /\ at[c] = "idle" /\ ~Broken /\ state \notin {"disabled", "ready"}
  /\ at' = [at EXCEPT ![c] = "waiting"]
  /\ IF init = "none"
     THEN init' = "running" /\ state' = "pending" /\ error' = FALSE
     ELSE UNCHANGED <<init, state, error>>
  /\ late' = IF init = "failed" \/ runtime THEN late \cup {c} ELSE late
  /\ UNCHANGED <<wording, recovered, runtime>>

\* The initialization ends, whoever still waits.
Succeeds ==
  /\ init = "running" /\ init' = "succeeded"
  /\ state' = "ready" /\ error' = FALSE /\ recovered' = TRUE
  /\ UNCHANGED <<wording, at, runtime, late>>
Fails ==
  /\ init = "running" /\ init' = "failed" /\ wording' \in BOOLEAN
  /\ state' = "failed" /\ error' = TRUE
  /\ UNCHANGED <<recovered, at, runtime, late>>

\* What the race of waitForDurableInitWithTimeout comes to.  The timer is cleared when the
\* promise settles first.
WaitPasses(c) ==
  /\ at[c] = "waiting" /\ init = "succeeded" /\ Ended(c, "passed")
  /\ UNCHANGED <<state, error, init, wording, recovered, runtime, late>>

StateAfter(saysTimedOut) == IF saysTimedOut THEN "timed_out" ELSE "failed"
WaitRejected(c) ==
  /\ at[c] = "waiting" /\ init = "failed" /\ Ended(c, "refused")
  /\ state' = StateAfter(wording) /\ error' = TRUE
  /\ UNCHANGED <<init, wording, recovered, runtime, late>>

Hangs == init = "running"
WaitTimesOut(c) ==
  /\ at[c] = "waiting" /\ Hangs /\ Ended(c, "refused")
  /\ state' = "timed_out" /\ error' = TRUE
  /\ UNCHANGED <<init, wording, recovered, runtime, late>>

\* markDurableJournalRuntimeFailure, from an append under the fail_closed policy.
AppendFailsClosed ==
  /\ init = "succeeded" /\ ~runtime /\ runtime' = TRUE
  /\ state' = "failed" /\ error' = TRUE
  /\ UNCHANGED <<init, wording, recovered, at, late>>

Wait(c) == WaitPasses(c) \/ WaitRejected(c) \/ WaitTimesOut(c)
Next ==
  \/ \E c \in Callers : CallOpen(c) \/ CallBroken(c) \/ CallWaits(c) \/ Wait(c)
  \/ Succeeds \/ Fails \/ AppendFailsClosed

\* Timers fire and settled promises run their continuations; the initialization may hang.
Fairness == \A c \in Callers : WF_vars(Wait(c))

Spec == Init /\ [][Next]_vars
FairSpec == Spec /\ Fairness
-----------------------------------------------------------------------------
TypeOK ==
  /\ state \in {"disabled", "pending", "ready", "failed", "timed_out"}
  /\ init \in {"none", "running", "succeeded", "failed"}
  /\ {error, wording, recovered, runtime} \subseteq BOOLEAN
  /\ at \in [Callers -> {"idle", "waiting", "passed", "refused"}]
  /\ late \subseteq Callers

\* No command executes before the outcomes of the last run are known, and none that comes after
\* the journal has failed, at startup or later.
NoCommandUnrecovered ==
  \A c \in Callers \ Observers :
    at[c] = "passed" => /\ recovered \/ state = "disabled"
                        /\ c \notin late

\* An initialization that outlasts the patience of its callers still opens the server when it
\* is done: nobody who gave up leaves "timed_out" behind.
LateSuccessOpens == init = "succeeded" /\ ~runtime => state = "ready" /\ ~error

\* The start is safe: nothing runs before the recovery, and a late recovery is not wasted.
StartupSafe == TypeOK /\ NoCommandUnrecovered /\ LateSuccessOpens

\* Every caller is answered, although the initialization may never end.
CallersAnswered == \A c \in Callers : at[c] = "waiting" ~> at[c] \in {"passed", "refused"}
=============================================================================
