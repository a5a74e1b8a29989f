-------------------------- MODULE SessionRegistry --------------------------
(***************************************************************************)
(* What the session operations promise their callers: every operation that *)
(* is answered with success took effect at one moment, and one that is     *)
(* answered with a failure had no effect (ADR-0020, failure atomicity).    *)
(***************************************************************************)
EXTENDS Integers

CONSTANTS Ops,      \* operations, each performed at most once
          Ids,      \* session ids
          Kind,     \* create, load, delete, expire, command or query
          Target    \* the session id of each operation

VARIABLES version,  \* version of each session, NoVersion if it does not exist
          answer    \* none, ok or failed

vars == <<version, answer>>

NoVersion == -1
Exists(s) == version[s] # NoVersion

Init ==
  /\ version = [s \in Ids |-> NoVersion]
  /\ answer = [o \in Ops |-> "none"]

Answered(o, a) == answer[o] = "none" /\ answer' = [answer EXCEPT ![o] = a]
Becomes(s, v)  == version' = [version EXCEPT ![s] = v]

Publish(o) ==
  /\ Kind[o] \in {"create", "load"} /\ ~Exists(Target[o])
  /\ Becomes(Target[o], 0) /\ Answered(o, "ok")

Remove(o) ==
  /\ Kind[o] \in {"delete", "expire"} /\ Exists(Target[o])
  /\ Becomes(Target[o], NoVersion) /\ Answered(o, "ok")

Mutate(o) ==
  /\ Kind[o] = "command" /\ Exists(Target[o])
  /\ Becomes(Target[o], version[Target[o]] + 1) /\ Answered(o, "ok")

Read(o) == Kind[o] = "query" /\ Exists(Target[o]) /\ Answered(o, "ok") /\ UNCHANGED version

Fail(o) == Answered(o, "failed") /\ UNCHANGED version

Next == \E o \in Ops : Publish(o) \/ Remove(o) \/ Mutate(o) \/ Read(o) \/ Fail(o)

Spec == Init /\ [][Next]_vars
=============================================================================
