--------------------------- MODULE SessionCreations ---------------------------
(***************************************************************************)
(* createAgentSessionWithSanitizedNpmEnv: while the SDK creates a session  *)
(* the environment of the process must be without the variables npm        *)
(* scripts set, and afterwards it must have them again.  The environment   *)
(* is shared, so creations take turns: each waits for the promise of the   *)
(* one that asked before it.                                               *)
(***************************************************************************)
EXTENDS Naturals

CONSTANTS Creations, NoCreation,
          Keys           \* SANITIZED_NPM_ENV_KEYS

CreationAssumption == NoCreation \notin Creations

VARIABLES env,        \* the keys that are set
          original,   \* the keys npm has set
          tail,       \* sanitizedAgentSessionCreationTail: whose promise it is
          previous,   \* whose promise each creation waits for
          snapshot,   \* the keys each creation has taken out
          step        \* idle, waiting, creating, done

vars == <<env, original, tail, previous, snapshot, step>>
-----------------------------------------------------------------------------
Init ==
  /\ original \in SUBSET Keys /\ env = original
  /\ tail = NoCreation
  /\ previous = [c \in Creations |-> NoCreation]
  /\ snapshot = [c \in Creations |-> {}]
  /\ step = [c \in Creations |-> "idle"]

Ask(c) ==
  /\ step[c] = "idle" /\ step' = [step EXCEPT ![c] = "waiting"]
  /\ previous' = [previous EXCEPT ![c] = tail] /\ tail' = c
  /\ UNCHANGED <<env, original, snapshot>>

\* releaseCreation is called whether the creation worked or not.
AnyTurn(c) == TRUE                               \* fault: the turn is not awaited
HasTurn(c) == previous[c] # NoCreation => step[previous[c]] = "done"

Sanitize(c) ==
  /\ step[c] = "waiting" /\ HasTurn(c)
  /\ snapshot' = [snapshot EXCEPT ![c] = env] /\ env' = {}
  /\ step' = [step EXCEPT ![c] = "creating"]
  /\ UNCHANGED <<original, tail, previous>>

\* createAgentSession has returned or thrown.
Restore(c) ==
  /\ step[c] = "creating" /\ env' = env \cup snapshot[c]
  /\ step' = [step EXCEPT ![c] = "done"]
  /\ UNCHANGED <<original, tail, previous, snapshot>>

Next == \E c \in Creations : Ask(c) \/ Sanitize(c) \/ Restore(c)

\* The SDK returns sooner or later.
Fairness == \A c \in Creations : WF_vars(Sanitize(c)) /\ WF_vars(Restore(c))

Spec == Init /\ [][Next]_vars
FairSpec == Spec /\ Fairness
-----------------------------------------------------------------------------
TypeOK ==
  /\ env \subseteq Keys /\ original \subseteq Keys
  /\ tail \in Creations \cup {NoCreation}
  /\ previous \in [Creations -> Creations \cup {NoCreation}]
  /\ snapshot \in [Creations -> SUBSET Keys]
  /\ step \in [Creations -> {"idle", "waiting", "creating", "done"}]

\* Every session is created without the variables of npm, and when none is being created the
\* process has exactly those it was started with: no creation takes the emptied environment of
\* another for the real one, or restores it while another still runs.
EnvironmentSafe ==
  IF \E c \in Creations : step[c] = "creating" THEN env = {} ELSE env = original

\* A creation that waits gets its turn although the ones before it may have failed.
CreationsTakeTurns == \A c \in Creations : step[c] = "waiting" ~> step[c] = "done"
=============================================================================
