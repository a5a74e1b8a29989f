------------------------- MODULE SessionLockManager -------------------------
(***************************************************************************)
(* SessionLockManager: a lock table and FIFO wait queues per session id,   *)
(* with a timer on every wait.  A caller is one call of acquire() or       *)
(* tryAcquire(), so it also stands for the LockState its handle carries.   *)
(***************************************************************************)
EXTENDS Integers, SequencesExt

CONSTANTS Callers,
          SessionIds,
          Target,      \* the session id each caller asks for
          Polite,      \* callers that use tryAcquire
          NoCaller,
          MaxQueueSize,
          MayTimeOut,  \* waits may reach lockTimeoutMs
          MayClear     \* clear() is in play

ASSUME ConstantsAssumption ==
  /\ Target \in [Callers -> SessionIds]
  /\ NoCaller \notin Callers /\ Polite \subseteq Callers
  /\ MaxQueueSize \in Nat \ {0}
  /\ MayTimeOut \in BOOLEAN /\ MayClear \in BOOLEAN

VARIABLES locks,    \* locks: whose LockState is current
          queues,   \* waitingQueues: an absent queue is empty
          phase,    \* what each caller has got so far
          orphans   \* history: callers inside when clear() ran

vars == <<locks, queues, phase, orphans>>

Waiting(s) == {c \in Callers : phase[c] = "waiting" /\ Target[c] = s}
-----------------------------------------------------------------------------
Init ==
  /\ locks = [s \in SessionIds |-> NoCaller]
  /\ queues = [s \in SessionIds |-> <<>>]
  /\ phase = [c \in Callers |-> "idle"]
  /\ orphans = {}

IsLocked(s) == locks[s] # NoCaller

\* acquireImmediate, acquireImmediateSync
AcquireImmediate(c) ==
  /\ phase[c] = "idle" /\ ~IsLocked(Target[c])
  /\ locks' = [locks EXCEPT ![Target[c]] = c]
  /\ phase' = [phase EXCEPT ![c] = "inside"]
  /\ UNCHANGED <<queues, orphans>>

\* acquireQueued: the wait begins, its timer is armed.
AcquireQueued(c) ==
  /\ phase[c] = "idle" /\ IsLocked(Target[c]) /\ c \notin Polite
  /\ Len(queues[Target[c]]) < MaxQueueSize
  /\ queues' = [queues EXCEPT ![Target[c]] = Append(@, c)]
  /\ phase' = [phase EXCEPT ![c] = "waiting"]
  /\ UNCHANGED <<locks, orphans>>

\* acquireQueued on a full queue, or tryAcquire on a held lock.
AcquireRefused(c) ==
  /\ phase[c] = "idle" /\ IsLocked(Target[c])
  /\ c \in Polite \/ Len(queues[Target[c]]) >= MaxQueueSize
  /\ phase' = [phase EXCEPT ![c] = "failed"]
  /\ UNCHANGED <<locks, queues, orphans>>

TimeOutInQueue(c) ==                     \* fault: the entry stays in the queue
  /\ MayTimeOut /\ phase[c] = "waiting"
  /\ phase' = [phase EXCEPT ![c] = "failed"]
  /\ UNCHANGED <<locks, queues, orphans>>
\* lockTimeoutMs elapses: the entry leaves the queue, the acquire rejects.
TimeOut(c) ==
  /\ MayTimeOut /\ phase[c] = "waiting"
  /\ \E n \in 1 .. Len(queues[Target[c]]) :
       /\ queues[Target[c]][n] = c
       /\ queues' = [queues EXCEPT ![Target[c]] = RemoveAt(@, n)]
  /\ phase' = [phase EXCEPT ![c] = "failed"]
  /\ UNCHANGED <<locks, orphans>>

AnyHandleReleases(c) == phase[c] \in {"inside", "left"} /\ IsLocked(Target[c])   \* fault
\* Only the current LockState releases; a stale or repeated release is ignored.
HoldsLock(c) == locks[Target[c]] = c

NewestFirst(q) == Len(q)                           \* fault: a stack instead of a queue
\* The position of the waiter a release wakes, 0 for none.
Woken(q) == IF q = <<>> THEN 0 ELSE 1

\* release(): the lock goes straight to the next waiter, so no newcomer can barge in.
\* A handle may be released again later, or after clear() dropped its state.
Release(c) ==
  LET s == Target[c]
      n == Woken(queues[s])
  IN
  /\ phase[c] \in {"inside", "left"}
  /\ orphans' = orphans \ {c}
  /\ \/ /\ ~HoldsLock(c)
        /\ phase' = [phase EXCEPT ![c] = "left"]
        /\ UNCHANGED <<locks, queues>>
     \/ /\ HoldsLock(c) /\ n = 0
        /\ locks' = [locks EXCEPT ![s] = NoCaller]
        /\ phase' = [phase EXCEPT ![c] = "left"]
        /\ UNCHANGED queues
     \/ /\ HoldsLock(c) /\ n > 0
        /\ locks' = [locks EXCEPT ![s] = queues[s][n]]
        /\ queues' = [queues EXCEPT ![s] = RemoveAt(@, n)]
        /\ phase' = [phase EXCEPT ![c] = "left", ![queues[s][n]] = "inside"]

\* clear(), from disposeAllSessions: waits are rejected, held locks simply forgotten.
Clear ==
  /\ MayClear
  /\ locks' = [s \in SessionIds |-> NoCaller]
  /\ queues' = [s \in SessionIds |-> <<>>]
  /\ phase' = [c \in Callers |-> IF phase[c] = "waiting" THEN "failed" ELSE phase[c]]
  /\ orphans' = {c \in Callers : phase[c] = "inside"}

Next ==
  \/ \E c \in Callers : \/ AcquireImmediate(c) \/ AcquireQueued(c) \/ AcquireRefused(c)
                        \/ TimeOut(c) \/ Release(c)
  \/ Clear

Spec == Init /\ [][Next]_vars

\* Critical sections end (finally { lock.release() }); nothing else is assumed.
FairSpec == Spec /\ \A c \in Callers : WF_vars(phase[c] = "inside" /\ Release(c))
-----------------------------------------------------------------------------
TypeOK ==
  /\ locks \in [SessionIds -> Callers \cup {NoCaller}]
  /\ queues \in [SessionIds -> Seq(Callers)]
  /\ phase \in [Callers -> {"idle", "waiting", "inside", "left", "failed"}]
  /\ orphans \subseteq Callers

\* The queue of a session is exactly its waiting callers, once each, and is empty when
\* the lock is free: no wakeup is lost, no ghost of a timed-out wait can be woken.
QueueAgrees ==
  \A s \in SessionIds :
    /\ \A n \in 1 .. Len(queues[s]) : queues[s][n] \in Waiting(s)
    /\ \A c \in Waiting(s) : \E n \in 1 .. Len(queues[s]) : queues[s][n] = c
    /\ \A m, n \in 1 .. Len(queues[s]) : queues[s][m] = queues[s][n] => m = n
    /\ ~IsLocked(s) => queues[s] = <<>>

\* Mutual exclusion per session; a holder whose lock clear() dropped does not count,
\* and it can neither free nor pass on the lock of its successor.
MutualExclusion ==
  \A c, d \in Callers :
    (/\ c # d /\ Target[c] = Target[d]
     /\ phase[c] = "inside" /\ phase[d] = "inside") => (c \in orphans \/ d \in orphans)

\* The lock table is sound: one caller inside per session, and queues that say who waits.
LockTableSound == MutualExclusion /\ QueueAgrees

EntersInTurn(c) ==
  LET q == queues[Target[c]] IN
  (phase[c] # "inside" /\ phase'[c] = "inside") =>
    /\ phase[c] = "idle" => q = <<>>
    /\ \A n \in 1 .. Len(q) : q[n] = c => \A m \in 1 .. (n - 1) : phase'[q[m]] # "waiting"

\* First come, first served: a caller enters only if nobody queued before it is still
\* waiting for the same session, and a newcomer only if nobody waits at all.
FirstComeFirstServed == [][\A c \in Callers : EntersInTurn(c)]_vars

\* Every wait ends because the holders before it leave, without any help of its timer:
\* no timeout, refusal or clear() on the way makes a waiter lose its turn.
WaitersServed == \A c \in Callers : phase[c] = "waiting" ~> phase[c] # "waiting"

Abstract == INSTANCE Mutex

\* The table and the queues implement the mutex the session operations rely on.
ImplementsMutex == Abstract!Spec
=============================================================================
