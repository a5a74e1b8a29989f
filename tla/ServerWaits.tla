----------------------------- MODULE ServerWaits -----------------------------
(***************************************************************************)
(* What the server waits for outside of its commands, together: its peers, *)
(* the dialogs of its extensions, the journal at the start, and the SDK    *)
(* when it creates a session.  They share no state: each keeps its own     *)
(* guarantee, and together every wait ends.                                *)
(***************************************************************************)
EXTENDS ServerTransports, Sequences

CONSTANTS Dialogs, Sessions, Session, Method, HasSignal, Values, Default, MaxDialogs,
          Callers, Observers,
          Creations, NoCreation, Keys

VARIABLES at, pending, timer, reply, returned, told,                     \* of the dialogs
          state, error, init, wording, recovered, caller, runtime, late, \* of the start
          env, original, tail, previous, snapshot, step                  \* of the creations

dialogVars == <<at, pending, timer, reply, returned, told>>
startupVars == <<state, error, init, wording, recovered, caller, runtime, late>>
creationVars == <<env, original, tail, previous, snapshot, step>>

UI == INSTANCE ExtensionUI WITH MaxPending <- MaxDialogs
Startup == INSTANCE DurableInit WITH at <- caller
Npm == INSTANCE SessionCreations

ASSUME WaitsAssumption ==
  UI!DialogAssumption /\ Startup!InitAssumption /\ Npm!CreationAssumption
-----------------------------------------------------------------------------
\* The dialog table knows the dialogs that wait, and each is answered once (ExtensionUI).
DialogsAccounted == UI!DialogsAccounted

\* No command executes before the recovery, and a late recovery opens the server (DurableInit).
StartupSafe == Startup!StartupSafe

\* Sessions are created without npm's variables, which are all there otherwise (SessionCreations).
EnvironmentSafe == Npm!EnvironmentSafe

\* Every wait ends: silent peers lose their slots, stop() frees all of them, dialogs return,
\* callers of the journal are answered, and creations get their turn.
EveryWaitEnds ==
  /\ SilentPeersLeave /\ StopFreesSlots
  /\ UI!DialogsReturn /\ Startup!CallersAnswered /\ Npm!CreationsTakeTurns
=============================================================================
