------------------------------- MODULE Mutex -------------------------------
(***************************************************************************)
(* What a per-session lock promises the callers of acquire(): at most one  *)
(* caller is inside the critical section of a session, not counting those  *)
(* whose lock was taken away by clear(), and every call ends in a handle   *)
(* or in an error.                                                         *)
(***************************************************************************)
CONSTANTS Callers,   \* calls of acquire(): each acquires at most once
          Target     \* the session id each call is for

VARIABLES phase,     \* idle, waiting, inside, left or failed
          orphans    \* callers inside whose lock clear() dropped

vars == <<phase, orphans>>

Phases == {"idle", "waiting", "inside", "left", "failed"}

Init == phase = [c \in Callers |-> "idle"] /\ orphans = {}

Move(c, from, to) == phase[c] \in from /\ phase' = [phase EXCEPT ![c] = to]

Alone(c) ==
  \A d \in Callers : (d # c /\ Target[d] = Target[c] /\ phase[d] = "inside") => d \in orphans

Wait(c)  == Move(c, {"idle"}, "waiting") /\ UNCHANGED orphans
Fail(c)  == Move(c, {"idle", "waiting"}, "failed") /\ UNCHANGED orphans
Enter(c) == Alone(c) /\ Move(c, {"idle", "waiting"}, "inside") /\ UNCHANGED orphans

\* A caller leaves; the lock may be handed to a waiter of the same session at once.
Leave(c) ==
  /\ phase[c] = "inside"
  /\ orphans' = orphans \ {c}
  /\ \/ phase' = [phase EXCEPT ![c] = "left"]
     \/ \E d \in Callers :
          /\ c \notin orphans /\ phase[d] = "waiting" /\ Target[d] = Target[c]
          /\ phase' = [phase EXCEPT ![c] = "left", ![d] = "inside"]

Clear ==
  /\ orphans' = {c \in Callers : phase[c] = "inside"}
  /\ phase' = [c \in Callers |-> IF phase[c] = "waiting" THEN "failed" ELSE phase[c]]

Next == (\E c \in Callers : Wait(c) \/ Fail(c) \/ Enter(c) \/ Leave(c)) \/ Clear

Spec == Init /\ [][Next]_vars
=============================================================================
