---------------------- MODULE SessionLockManagerProofs ----------------------
(***************************************************************************)
(* Mutual exclusion of SessionLockManager, its order and its refinement of *)
(* Mutex, for any number of callers, sessions and any queue limit; and the *)
(* metadata file of SessionStore, for any calls of any processes, whatever *)
(* crashes, ages and fails meanwhile.                                      *)
(***************************************************************************)
EXTENDS Locks, SequenceTheorems, TLAPS

\* What removing one position does to a sequence.
LEMMA RemoveAtProperties ==
  ASSUME NEW S, NEW q \in Seq(S), NEW n \in 1 .. Len(q)
  PROVE  /\ RemoveAt(q, n) \in Seq(S)
         /\ Len(RemoveAt(q, n)) = Len(q) - 1
         /\ \A i \in 1 .. (Len(q) - 1) : RemoveAt(q, n)[i] = IF i < n THEN q[i] ELSE q[i + 1]
<1> DEFINE a == SubSeq(q, 1, n - 1)
           b == SubSeq(q, n + 1, Len(q))
<1>1. a \in Seq(S) /\ Len(a) = n - 1 /\ \A i \in 1 .. (n - 1) : a[i] = q[i]
  BY SubSeqProperties
<1>2. b \in Seq(S) /\ Len(b) = Len(q) - n /\ \A i \in 1 .. (Len(q) - n) : b[i] = q[n + i]
  BY SubSeqProperties
<1>3. /\ a \o b \in Seq(S) /\ Len(a \o b) = Len(a) + Len(b)
      /\ \A i \in 1 .. (Len(a) + Len(b)) :
           (a \o b)[i] = IF i <= Len(a) THEN a[i] ELSE b[i - Len(a)]
  <2> HIDE DEF a, b
  <2>1. QED BY <1>1, <1>2, ConcatProperties
<1>4. RemoveAt(q, n) = a \o b BY DEF RemoveAt
<1> HIDE DEF a, b
<1>5. Len(q) \in Nat /\ n \in Nat OBVIOUS
<1>6. ASSUME NEW i \in 1 .. (Len(q) - 1)
      PROVE  (a \o b)[i] = IF i < n THEN q[i] ELSE q[i + 1]
  <2>1. CASE i < n BY <1>1, <1>2, <1>3, <1>5, <2>1
  <2>2. CASE ~(i < n)
    <3>1. (a \o b)[i] = b[i - (n - 1)] BY <1>1, <1>2, <1>3, <1>5, <2>2
    <3>2. i - (n - 1) \in 1 .. (Len(q) - n) BY <1>5, <2>2
    <3>3. b[i - (n - 1)] = q[n + (i - (n - 1))] BY <1>2, <3>2
    <3>4. n + (i - (n - 1)) = i + 1 BY <1>5
    <3>5. QED BY <2>2, <3>1, <3>3, <3>4
  <2>3. QED BY <2>1, <2>2
<1>7. Len(a \o b) = Len(q) - 1 BY <1>1, <1>2, <1>3, <1>5
<1>8. QED BY <1>3, <1>4, <1>6, <1>7

-----------------------------------------------------------------------------
(***************************************************************************)
(* The inductive invariant.  Mutual exclusion follows from HolderInside:   *)
(* whoever is inside and was not cleared away is the caller the table      *)
(* names.  QueueAgrees makes sure that a release hands over to a waiter.   *)
(***************************************************************************)

HolderInside ==
  \A c \in Callers : (phase[c] = "inside" /\ c \notin orphans) <=> locks[Target[c]] = c

LockInv ==
  /\ TypeOK /\ QueueAgrees /\ HolderInside
  /\ \A c \in orphans : phase[c] = "inside"
  /\ \A s \in SessionIds : IsLocked(s) => Target[locks[s]] = s

LEMMA InitLockInv == Init => LockInv
<1>1. <<>> \in Seq(Callers) /\ Len(<<>>) = 0 OBVIOUS
<1>2. QED
  BY <1>1, ConstantsAssumption
  DEF Init, LockInv, TypeOK, QueueAgrees, HolderInside, IsLocked, Waiting

\* A waiter that stops waiting leaves its queue, and its session is locked afterwards.
LEMMA QueueShrinks ==
  ASSUME TypeOK, QueueAgrees, TypeOK',
         NEW s \in SessionIds, NEW n \in 1 .. Len(queues[s]),
         queues' = [queues EXCEPT ![s] = RemoveAt(@, n)],
         phase'[queues[s][n]] # "waiting",
         \A c \in Callers : c # queues[s][n] => (phase'[c] = "waiting" <=> phase[c] = "waiting"),
         \A t \in SessionIds : IsLocked(t) => IsLocked(t)'
  PROVE  QueueAgrees'
<1> DEFINE q == queues[s]
           d == q[n]
           r == RemoveAt(q, n)
<1>1. q \in Seq(Callers) /\ Len(q) \in Nat /\ d \in Callers BY DEF TypeOK
<1>2. /\ r \in Seq(Callers) /\ Len(r) = Len(q) - 1
      /\ \A i \in 1 .. (Len(q) - 1) : r[i] = IF i < n THEN q[i] ELSE q[i + 1]
  BY <1>1, RemoveAtProperties
<1>3. queues'[s] = r /\ \A t \in SessionIds : t # s => queues'[t] = queues[t]
  BY DEF TypeOK
<1>4. d \in Waiting(s) BY DEF QueueAgrees
<1>5. \A t \in SessionIds : \A c \in Callers :
         c \in Waiting(t)' <=> (c \in Waiting(t) /\ c # d)
  BY <1>4 DEF Waiting
<1> DEFINE From(i) == IF i < n THEN i ELSE i + 1
<1>6. \A i \in 1 .. Len(r) : r[i] = q[From(i)] /\ From(i) \in 1 .. Len(q) /\ From(i) # n
  <2> SUFFICES ASSUME NEW i \in 1 .. Len(r)
               PROVE  r[i] = q[From(i)] /\ From(i) \in 1 .. Len(q) /\ From(i) # n
    OBVIOUS
  <2>1. i \in 1 .. (Len(q) - 1) BY <1>2
  <2>2. From(i) \in 1 .. Len(q) /\ From(i) # n BY <1>1, <2>1
  <2>3. QED BY <1>2, <2>1, <2>2
<1>7. ASSUME NEW t \in SessionIds
      PROVE  /\ \A i \in 1 .. Len(queues'[t]) : queues'[t][i] \in Waiting(t)'
             /\ \A c \in Waiting(t)' : \E i \in 1 .. Len(queues'[t]) : queues'[t][i] = c
             /\ \A i, j \in 1 .. Len(queues'[t]) : queues'[t][i] = queues'[t][j] => i = j
             /\ ~IsLocked(t)' => queues'[t] = <<>>
  <2>1. CASE t # s
    <3>1. queues'[t] = queues[t] /\ d \notin Waiting(t) BY <1>3, <1>4, <2>1 DEF Waiting
    <3>2. \A c \in Callers : c \in Waiting(t)' <=> c \in Waiting(t) BY <1>5, <3>1
    <3>3. Waiting(t) \subseteq Callers /\ Waiting(t)' \subseteq Callers BY DEF Waiting
    <3>4. QED BY <3>1, <3>2, <3>3 DEF QueueAgrees
  <2>2. CASE t = s
    <3>1. queues'[t] = r BY <1>3, <2>2
    <3>2. ASSUME NEW i \in 1 .. Len(r)
          PROVE  r[i] \in Waiting(s)'
      <4>1. r[i] = q[From(i)] /\ From(i) \in 1 .. Len(q) /\ From(i) # n BY <1>6, <3>2
      <4>2. PICK k \in 1 .. Len(q) : r[i] = q[k] /\ k # n BY <4>1
      <4>3. q[k] # d /\ q[k] \in Waiting(s) BY <4>2 DEF QueueAgrees
      <4>4. q[k] \in Callers BY <4>3 DEF Waiting
      <4>5. QED BY <1>5, <4>2, <4>3, <4>4
    <3>3. ASSUME NEW c \in Waiting(s)'
          PROVE  \E i \in 1 .. Len(r) : r[i] = c
      <4>1. c \in Callers /\ c \in Waiting(s) /\ c # d BY <1>5, <3>3 DEF Waiting
      <4>2. PICK k \in 1 .. Len(q) : q[k] = c BY <4>1 DEF QueueAgrees
      <4>3. k # n BY <4>1, <4>2
      <4>4. CASE k < n
        <5>1. k \in 1 .. Len(r) /\ r[k] = q[k] BY <1>1, <1>2, <4>4
        <5>2. QED BY <4>2, <5>1
      <4>5. CASE k > n
        <5>1. k - 1 \in 1 .. Len(r) /\ ~(k - 1 < n) /\ (k - 1) + 1 = k BY <1>1, <1>2, <4>5
        <5>2. r[k - 1] = q[k] BY <1>2, <5>1
        <5>3. QED BY <4>2, <5>1, <5>2
      <4>6. QED BY <1>1, <4>3, <4>4, <4>5
    <3>4. ASSUME NEW i \in 1 .. Len(r), NEW j \in 1 .. Len(r), r[i] = r[j]
          PROVE  i = j
      <4>1. \A k, m \in 1 .. Len(q) : q[k] = q[m] => k = m BY DEF QueueAgrees
      <4>2. From(i) = From(j) BY <1>6, <3>4, <4>1
      <4>3. QED BY <1>1, <1>2, <4>2
    <3>5. IsLocked(s)'
      <4>1. queues[s] # <<>> BY <1>1
      <4>2. QED BY <4>1 DEF QueueAgrees
    <3>6. QED BY <2>2, <3>1, <3>2, <3>3, <3>4, <3>5
  <2>3. QED BY <2>1, <2>2
<1>8. QED BY <1>7 DEF QueueAgrees

LEMMA ImmediateLockInv == ASSUME LockInv, NEW c \in Callers, AcquireImmediate(c) PROVE LockInv'
<1> USE DEF LockInv
<1>1. Target[c] \in SessionIds /\ c # NoCaller BY ConstantsAssumption
<1>2. TypeOK' BY <1>1 DEF AcquireImmediate, TypeOK
<1>3. /\ locks'[Target[c]] = c /\ \A s \in SessionIds : s # Target[c] => locks'[s] = locks[s]
      /\ phase'[c] = "inside" /\ \A d \in Callers : d # c => phase'[d] = phase[d]
  BY <1>1 DEF AcquireImmediate, TypeOK
<1>4. \A s \in SessionIds : Waiting(s)' = Waiting(s) BY <1>3 DEF AcquireImmediate, Waiting
<1>5. QueueAgrees'
  BY <1>1, <1>3, <1>4 DEF AcquireImmediate, QueueAgrees, IsLocked
<1>6. HolderInside'
  <2> SUFFICES ASSUME NEW d \in Callers
               PROVE  (phase'[d] = "inside" /\ d \notin orphans) <=> locks'[Target[d]] = d
    BY DEF HolderInside, AcquireImmediate
  <2>1. c \notin orphans BY DEF AcquireImmediate
  <2>2. Target[d] \in SessionIds BY ConstantsAssumption
  <2>3. CASE d = c BY <1>3, <2>1, <2>3
  <2>4. CASE d # c /\ Target[d] = Target[c]
    BY <1>3, <2>4, ConstantsAssumption DEF AcquireImmediate, HolderInside, IsLocked
  <2>5. CASE d # c /\ Target[d] # Target[c]
    BY <1>3, <2>2, <2>5 DEF HolderInside
  <2>6. QED BY <2>3, <2>4, <2>5
<1>7. QED BY <1>1, <1>2, <1>3, <1>5, <1>6 DEF AcquireImmediate, IsLocked, TypeOK

LEMMA QueuedLockInv == ASSUME LockInv, NEW c \in Callers, AcquireQueued(c) PROVE LockInv'
<1> USE DEF LockInv
<1> DEFINE s == Target[c]
           q == queues[s]
<1>1. s \in SessionIds BY ConstantsAssumption
<1>2. q \in Seq(Callers) /\ Len(q) \in Nat BY <1>1 DEF TypeOK
<1>3. /\ Append(q, c) \in Seq(Callers) /\ Len(Append(q, c)) = Len(q) + 1
      /\ \A i \in 1 .. Len(q) : Append(q, c)[i] = q[i]
      /\ Append(q, c)[Len(q) + 1] = c
  BY <1>2, AppendProperties
<1>4. /\ queues'[s] = Append(q, c) /\ \A t \in SessionIds : t # s => queues'[t] = queues[t]
      /\ phase'[c] = "waiting" /\ \A d \in Callers : d # c => phase'[d] = phase[d]
      /\ phase[c] = "idle" /\ IsLocked(s) /\ locks' = locks /\ orphans' = orphans
  BY <1>1 DEF AcquireQueued, TypeOK
<1>5. TypeOK' BY <1>3 DEF AcquireQueued, TypeOK
<1>6. \A t \in SessionIds : \A d \in Callers :
         d \in Waiting(t)' <=> (d \in Waiting(t) \/ (d = c /\ t = s))
  BY <1>4 DEF Waiting
<1>7. c \notin Waiting(s) /\ \A t \in SessionIds : IsLocked(t)' <=> IsLocked(t)
  BY <1>4 DEF Waiting, IsLocked
<1>8. ASSUME NEW t \in SessionIds
      PROVE  /\ \A i \in 1 .. Len(queues'[t]) : queues'[t][i] \in Waiting(t)'
             /\ \A d \in Waiting(t)' : \E i \in 1 .. Len(queues'[t]) : queues'[t][i] = d
             /\ \A i, j \in 1 .. Len(queues'[t]) : queues'[t][i] = queues'[t][j] => i = j
             /\ ~IsLocked(t)' => queues'[t] = <<>>
  <2>1. CASE t # s
    <3>1. queues'[t] = queues[t] BY <1>4, <2>1
    <3>2. Waiting(t) \subseteq Callers /\ Waiting(t)' \subseteq Callers BY DEF Waiting
    <3>3. \A d \in Callers : d \in Waiting(t)' <=> d \in Waiting(t) BY <1>6, <2>1
    <3>4. QED BY <1>7, <3>1, <3>2, <3>3 DEF QueueAgrees
  <2>2. CASE t = s
    <3>1. Waiting(s) \subseteq Callers /\ Waiting(s)' \subseteq Callers BY DEF Waiting
    <3>2. \A i \in 1 .. Len(q) : q[i] \in Waiting(s) BY <1>1 DEF QueueAgrees
    <3>3. \A i, j \in 1 .. Len(q) : q[i] = q[j] => i = j BY <1>1 DEF QueueAgrees
    <3>4. \A i \in 1 .. (Len(q) + 1) : i \in 1 .. Len(q) \/ i = Len(q) + 1 BY <1>2
    <3> HIDE DEF q, s
    <3>5. \A i \in 1 .. (Len(q) + 1) : Append(q, c)[i] \in Waiting(s)'
      BY <1>1, <1>3, <1>6, <3>1, <3>2, <3>4
    <3>6. \A d \in Waiting(s)' : \E i \in 1 .. (Len(q) + 1) : Append(q, c)[i] = d
      <4> SUFFICES ASSUME NEW d \in Waiting(s)'
                   PROVE  \E i \in 1 .. (Len(q) + 1) : Append(q, c)[i] = d
        OBVIOUS
      <4>1. CASE d = c BY <1>2, <1>3, <4>1
      <4>2. CASE d # c
        <5>1. d \in Waiting(s) BY <1>1, <1>6, <3>1, <4>2
        <5>2. PICK i \in 1 .. Len(q) : q[i] = d BY <1>1, <5>1 DEF QueueAgrees, q
        <5>3. i \in 1 .. (Len(q) + 1) BY <1>2
        <5>4. QED BY <1>3, <5>2, <5>3
      <4>3. QED BY <4>1, <4>2
    <3>7. \A i, j \in 1 .. (Len(q) + 1) : Append(q, c)[i] = Append(q, c)[j] => i = j
      <4> SUFFICES ASSUME NEW i \in 1 .. (Len(q) + 1), NEW j \in 1 .. (Len(q) + 1),
                          Append(q, c)[i] = Append(q, c)[j]
                   PROVE  i = j
        OBVIOUS
      <4>1. \A k \in 1 .. Len(q) : q[k] # c BY <1>7, <3>2
      <4>2. CASE i \in 1 .. Len(q) /\ j \in 1 .. Len(q) BY <1>3, <3>3, <4>2
      <4>3. CASE i = Len(q) + 1 /\ j \in 1 .. Len(q) BY <1>3, <4>1, <4>3
      <4>4. CASE j = Len(q) + 1 /\ i \in 1 .. Len(q) BY <1>3, <4>1, <4>4
      <4>5. \A k \in 1 .. (Len(q) + 1) : k \in 1 .. Len(q) \/ k = Len(q) + 1 BY <3>3
      <4>6. QED BY <4>2, <4>3, <4>4, <4>5
    <3>8. queues'[t] = Append(q, c) /\ Len(queues'[t]) = Len(q) + 1 BY <1>3, <1>4, <2>2
    <3>9. \A i \in 1 .. Len(queues'[t]) : queues'[t][i] \in Waiting(t)' BY <2>2, <3>5, <3>8
    <3>10. \A d \in Waiting(t)' : \E i \in 1 .. Len(queues'[t]) : queues'[t][i] = d
      BY <2>2, <3>6, <3>8
    <3>11. \A i, j \in 1 .. Len(queues'[t]) : queues'[t][i] = queues'[t][j] => i = j
      BY <3>7, <3>8
    <3>12. IsLocked(t)' BY <1>4, <1>7, <2>2
    <3>13. QED BY <3>9, <3>10, <3>11, <3>12
  <2>3. QED BY <2>1, <2>2
<1>9. QueueAgrees' BY <1>8 DEF QueueAgrees
<1>10. HolderInside' BY <1>4 DEF HolderInside
<1>11. QED BY <1>4, <1>5, <1>7, <1>9, <1>10 DEF TypeOK

LEMMA RefusedLockInv == ASSUME LockInv, NEW c \in Callers, AcquireRefused(c) PROVE LockInv'
<1> USE DEF LockInv
<1>1. phase'[c] = "failed" /\ \A d \in Callers : d # c => phase'[d] = phase[d]
  BY DEF AcquireRefused, TypeOK
<1>2. \A s \in SessionIds : Waiting(s)' = Waiting(s)
  BY <1>1 DEF AcquireRefused, Waiting
<1>3. QED
  BY <1>1, <1>2 DEF AcquireRefused, TypeOK, QueueAgrees, HolderInside, IsLocked

LEMMA TimeOutLockInv == ASSUME LockInv, NEW c \in Callers, TimeOut(c) PROVE LockInv'
<1> USE DEF LockInv
<1>1. Target[c] \in SessionIds BY ConstantsAssumption
<1>2. PICK n \in 1 .. Len(queues[Target[c]]) :
        /\ queues[Target[c]][n] = c
        /\ queues' = [queues EXCEPT ![Target[c]] = RemoveAt(@, n)]
  BY DEF TimeOut
<1>3. phase[c] = "waiting" /\ phase'[c] = "failed"
      /\ \A d \in Callers : d # c => phase'[d] = phase[d]
  BY DEF TimeOut, TypeOK
<1>4. RemoveAt(queues[Target[c]], n) \in Seq(Callers)
  BY <1>1, RemoveAtProperties DEF TypeOK
<1>5. TypeOK' BY <1>2, <1>4 DEF TimeOut, TypeOK
<1>6. QueueAgrees'
  <2>1. \A t \in SessionIds : IsLocked(t) => IsLocked(t)' BY DEF TimeOut, IsLocked
  <2>2. phase'[queues[Target[c]][n]] # "waiting" BY <1>2, <1>3
  <2>3. \A d \in Callers :
          d # queues[Target[c]][n] => (phase'[d] = "waiting" <=> phase[d] = "waiting")
    BY <1>2, <1>3
  <2>4. TypeOK /\ QueueAgrees OBVIOUS
  <2>5. QED BY <1>1, <1>2, <1>5, <2>1, <2>2, <2>3, <2>4, QueueShrinks
<1>7. HolderInside' BY <1>3 DEF TimeOut, HolderInside
<1>8. QED BY <1>3, <1>5, <1>6, <1>7 DEF TimeOut, IsLocked, TypeOK

LEMMA ReleaseLockInv == ASSUME LockInv, NEW c \in Callers, Release(c) PROVE LockInv'
<1> USE DEF LockInv
<1> DEFINE s == Target[c]
<1>1. s \in SessionIds /\ \A d \in Callers : Target[d] \in SessionIds BY ConstantsAssumption
<1>2. phase[c] \in {"inside", "left"} /\ orphans' = orphans \ {c} BY DEF Release
<1>3. CASE ~HoldsLock(c)
  <2>1. UNCHANGED <<locks, queues>> /\ phase'[c] = "left"
        /\ \A d \in Callers : d # c => phase'[d] = phase[d]
    BY <1>3 DEF Release, HoldsLock, TypeOK
  <2>2. \A t \in SessionIds : Waiting(t)' = Waiting(t) BY <1>2, <2>1 DEF Waiting
  <2>3. TypeOK' /\ QueueAgrees'
    BY <1>2, <1>3, <2>1, <2>2 DEF Release, HoldsLock, TypeOK, QueueAgrees, IsLocked
  <2>4. HolderInside' BY <1>2, <1>3, <2>1 DEF HolderInside, HoldsLock
  <2>5. QED BY <1>2, <2>1, <2>3, <2>4 DEF IsLocked, TypeOK
<1>4. CASE HoldsLock(c) /\ Woken(queues[s]) = 0
  <2>1. queues[s] = <<>> BY <1>4 DEF Woken
  <2>2. /\ UNCHANGED queues /\ phase'[c] = "left"
        /\ \A d \in Callers : d # c => phase'[d] = phase[d]
        /\ locks'[s] = NoCaller /\ \A t \in SessionIds : t # s => locks'[t] = locks[t]
    BY <1>1, <1>4 DEF Release, HoldsLock, TypeOK
  <2>3. \A t \in SessionIds : Waiting(t)' = Waiting(t) BY <1>2, <2>2 DEF Waiting
  <2>4. TypeOK'
    <3>1. locks' = [locks EXCEPT ![s] = NoCaller] /\ phase' = [phase EXCEPT ![c] = "left"]
      BY <1>4 DEF Release, HoldsLock
    <3>2. QED BY <1>2, <2>2, <3>1 DEF TypeOK
  <2>5. QueueAgrees' BY <2>1, <2>2, <2>3 DEF QueueAgrees, IsLocked
  <2>6. HolderInside'
    <3> SUFFICES ASSUME NEW d \in Callers
                 PROVE  (phase'[d] = "inside" /\ d \notin orphans') <=> locks'[Target[d]] = d
      BY DEF HolderInside
    <3>1. d # NoCaller BY ConstantsAssumption
    <3>2. CASE d = c BY <1>1, <2>2, <3>1, <3>2
    <3>3. CASE d # c /\ Target[d] = s
      BY <1>2, <1>4, <2>2, <3>1, <3>3 DEF HolderInside, HoldsLock
    <3>4. CASE d # c /\ Target[d] # s
      BY <1>1, <1>2, <2>2, <3>4 DEF HolderInside
    <3>5. QED BY <3>2, <3>3, <3>4
  <2>7. QED BY <1>2, <2>2, <2>4, <2>5, <2>6 DEF IsLocked, TypeOK
<1>5. CASE HoldsLock(c) /\ Woken(queues[s]) > 0
  <2> DEFINE d == queues[s][1]
  <2>1. queues[s] # <<>> /\ Woken(queues[s]) = 1 BY <1>5 DEF Woken
  <2>2. queues[s] \in Seq(Callers) /\ 1 \in 1 .. Len(queues[s])
    BY <1>1, <2>1, EmptySeq DEF TypeOK
  <2>3. d \in Callers /\ phase[d] = "waiting" /\ Target[d] = s /\ d # c /\ d \notin orphans
    BY <1>1, <1>2, <2>2 DEF QueueAgrees, Waiting
  <2>4. /\ locks' = [locks EXCEPT ![s] = d]
        /\ queues' = [queues EXCEPT ![s] = RemoveAt(@, 1)]
        /\ phase' = [phase EXCEPT ![c] = "left", ![d] = "inside"]
    BY <1>5, <2>1 DEF Release, HoldsLock
  <2>5. /\ phase'[c] = "left" /\ phase'[d] = "inside"
        /\ \A e \in Callers : (e # c /\ e # d) => phase'[e] = phase[e]
        /\ locks'[s] = d /\ \A t \in SessionIds : t # s => locks'[t] = locks[t]
    BY <1>1, <2>3, <2>4 DEF TypeOK
  <2>6. RemoveAt(queues[s], 1) \in Seq(Callers) BY <2>2, RemoveAtProperties
  <2>7. TypeOK' BY <1>2, <2>3, <2>4, <2>6 DEF TypeOK
  <2>8. d # NoCaller BY <2>3, ConstantsAssumption
  <2>9. QueueAgrees'
    <3>1. \A t \in SessionIds : IsLocked(t) => IsLocked(t)' BY <2>5, <2>8 DEF IsLocked
    <3>2. \A e \in Callers : e # d => (phase'[e] = "waiting" <=> phase[e] = "waiting")
      BY <1>2, <2>5
    <3>3. phase'[d] # "waiting" BY <2>5
    <3>4. queues' = [queues EXCEPT ![s] = RemoveAt(@, 1)] BY <2>4
    <3> HIDE DEF s
    <3>5. QED BY <1>1, <2>2, <2>7, <3>1, <3>2, <3>3, <3>4, QueueShrinks
  <2>10. HolderInside'
    <3> SUFFICES ASSUME NEW e \in Callers
                 PROVE  (phase'[e] = "inside" /\ e \notin orphans') <=> locks'[Target[e]] = e
      BY DEF HolderInside
    <3>1. CASE e = c BY <2>3, <2>5, <3>1
    <3>2. CASE e = d BY <1>2, <2>3, <2>5, <3>2
    <3>3. CASE e # c /\ e # d /\ Target[e] = s
      BY <1>2, <1>5, <2>5, <3>3 DEF HolderInside, HoldsLock
    <3>4. CASE e # c /\ e # d /\ Target[e] # s
      BY <1>1, <1>2, <2>5, <3>4 DEF HolderInside
    <3>5. QED BY <3>1, <3>2, <3>3, <3>4
  <2>11. QED BY <1>2, <2>3, <2>5, <2>7, <2>9, <2>10 DEF IsLocked, TypeOK
<1>6. Woken(queues[s]) \in {0, 1} BY DEF Woken
<1>7. QED BY <1>3, <1>4, <1>5, <1>6

LEMMA ClearLockInv == ASSUME LockInv, Clear PROVE LockInv'
<1> USE DEF LockInv
<1>1. <<>> \in Seq(Callers) /\ Len(<<>>) = 0 OBVIOUS
<1>2. TypeOK' BY <1>1 DEF Clear, TypeOK
<1>3. \A c \in Callers : phase'[c] # "waiting" BY DEF Clear, TypeOK
<1>4. QueueAgrees' BY <1>1, <1>3 DEF Clear, QueueAgrees, Waiting
<1>5. \A c \in Callers : Target[c] \in SessionIds /\ c # NoCaller BY ConstantsAssumption
<1>6. HolderInside' BY <1>5 DEF Clear, HolderInside
<1>7. QED BY <1>2, <1>4, <1>6 DEF Clear, IsLocked

LEMMA NextLockInv == LockInv /\ [Next]_vars => LockInv'
<1> SUFFICES ASSUME LockInv, [Next]_vars PROVE LockInv'
  OBVIOUS
<1>1. CASE \E c \in Callers : \/ AcquireImmediate(c) \/ AcquireQueued(c) \/ AcquireRefused(c)
                              \/ TimeOut(c) \/ Release(c)
  BY <1>1, ImmediateLockInv, QueuedLockInv, RefusedLockInv, TimeOutLockInv, ReleaseLockInv
<1>2. CASE Clear BY <1>2, ClearLockInv
<1>3. CASE UNCHANGED vars
  BY <1>3 DEF vars, LockInv, TypeOK, QueueAgrees, HolderInside, IsLocked, Waiting
<1>4. QED BY <1>1, <1>2, <1>3 DEF Next

LEMMA SpecLockInv == Spec => []LockInv
BY InitLockInv, NextLockInv, PTL DEF Spec

\* Two callers are never inside the critical section of one session, except next to a
\* caller whose lock clear() has dropped.
LEMMA MutualExclusionHolds == Spec => []MutualExclusion
<1>1. LockInv => MutualExclusion BY DEF LockInv, HolderInside, MutualExclusion
<1>2. QED BY <1>1, SpecLockInv, PTL

\* The wait queue is exactly the waiting callers, and empty when the lock is free.
LEMMA QueueAgreesHolds == Spec => []QueueAgrees
<1>1. LockInv => QueueAgrees BY DEF LockInv
<1>2. QED BY <1>1, SpecLockInv, PTL

\* The lock table is sound for any callers, sessions and queue limit, through timeouts,
\* stale releases and clear().
THEOREM LockTableSoundHolds == Spec => []LockTableSound
<1>1. MutualExclusion /\ QueueAgrees => LockTableSound BY DEF LockTableSound
<1>2. QED BY <1>1, MutualExclusionHolds, QueueAgreesHolds, PTL
-----------------------------------------------------------------------------
(***************************************************************************)
(* The refinement: each operation of the lock table is a step of Mutex.    *)
(* Entering needs HolderInside, a hand-over also needs QueueAgrees.        *)
(***************************************************************************)

LEMMA ImmediateIsEnter ==
  ASSUME LockInv, NEW c \in Callers, AcquireImmediate(c) PROVE Abstract!Enter(c)
<1>1. ASSUME NEW d \in Callers, d # c, Target[d] = Target[c], phase[d] = "inside"
      PROVE  d \in orphans
  <2>1. SUFFICES ASSUME d \notin orphans PROVE FALSE OBVIOUS
  <2>2. locks[Target[d]] = d BY <1>1, <2>1 DEF LockInv, HolderInside
  <2>3. d # NoCaller BY ConstantsAssumption
  <2>4. QED BY <1>1, <2>2, <2>3 DEF AcquireImmediate, IsLocked
<1>2. Abstract!Alone(c) BY <1>1 DEF Abstract!Alone
<1>3. QED BY <1>2 DEF AcquireImmediate, Abstract!Enter, Abstract!Move

LEMMA ReleaseIsLeave ==
  ASSUME LockInv, NEW c \in Callers, Release(c)
  PROVE  Abstract!Leave(c) \/ UNCHANGED <<phase, orphans>>
<1> DEFINE q == queues[Target[c]]
<1>1. phase \in [Callers -> {"idle", "waiting", "inside", "left", "failed"}] BY DEF LockInv, TypeOK
<1>2. orphans' = orphans \ {c} BY DEF Release
<1>3. CASE phase[c] = "left"
  <2>1. c \notin orphans /\ ~HoldsLock(c) BY <1>3 DEF LockInv, HolderInside, HoldsLock
  <2>2. phase' = [phase EXCEPT ![c] = "left"] BY <2>1 DEF Release
  <2>3. phase' = phase BY <1>1, <1>3, <2>2
  <2>4. QED BY <1>2, <2>1, <2>3
<1>4. CASE phase[c] = "inside" /\ phase' = [phase EXCEPT ![c] = "left"]
  BY <1>2, <1>4 DEF Abstract!Leave
<1>5. CASE /\ phase[c] = "inside" /\ HoldsLock(c) /\ Woken(q) > 0
           /\ phase' = [phase EXCEPT ![c] = "left", ![q[Woken(q)]] = "inside"]
  <2>1. Target[c] \in SessionIds BY ConstantsAssumption
  <2>2. q \in Seq(Callers) BY <2>1 DEF LockInv, TypeOK
  <2>3. q # <<>> /\ Woken(q) = 1 BY <1>5 DEF Woken
  <2>4. 1 \in 1 .. Len(q) BY <2>2, <2>3, EmptySeq
  <2>5. q[1] \in Waiting(Target[c]) BY <2>1, <2>4 DEF LockInv, QueueAgrees
  <2>6. c \notin orphans BY <1>5 DEF LockInv, HolderInside, HoldsLock
  <2>7. q[1] \in Callers /\ phase[q[1]] = "waiting" /\ Target[q[1]] = Target[c]
    BY <2>5 DEF Waiting
  <2>8. QED BY <1>2, <1>5, <2>3, <2>6, <2>7 DEF Abstract!Leave
<1>6. phase[c] \in {"inside", "left"} BY DEF Release
<1>7. QED BY <1>3, <1>4, <1>5, <1>6 DEF Release

\* The lock table implements Mutex, the lock the session operations are written for.
THEOREM RefinesMutex == Spec => ImplementsMutex
<1>1. Init => Abstract!Init BY DEF Init, Abstract!Init
<1>2. LockInv /\ [Next]_vars => [Abstract!Next]_(Abstract!vars)
  <2> SUFFICES ASSUME LockInv, [Next]_vars PROVE [Abstract!Next]_(Abstract!vars)
    OBVIOUS
  <2>1. CASE UNCHANGED vars BY <2>1 DEF vars, Abstract!vars
  <2>2. ASSUME NEW c \in Callers, AcquireImmediate(c) PROVE Abstract!Next
    BY <2>2, ImmediateIsEnter DEF Abstract!Next
  <2>3. ASSUME NEW c \in Callers, AcquireQueued(c) PROVE Abstract!Next
    BY <2>3 DEF AcquireQueued, Abstract!Next, Abstract!Wait, Abstract!Move
  <2>4. ASSUME NEW c \in Callers, AcquireRefused(c) PROVE Abstract!Next
    BY <2>4 DEF AcquireRefused, Abstract!Next, Abstract!Fail, Abstract!Move
  <2>5. ASSUME NEW c \in Callers, TimeOut(c) PROVE Abstract!Next
    BY <2>5 DEF TimeOut, Abstract!Next, Abstract!Fail, Abstract!Move
  <2>6. ASSUME NEW c \in Callers, Release(c) PROVE [Abstract!Next]_(Abstract!vars)
    BY <2>6, ReleaseIsLeave DEF Abstract!Next, Abstract!vars
  <2>7. CASE Clear BY <2>7 DEF Clear, Abstract!Next, Abstract!Clear
  <2>8. QED BY <2>1, <2>2, <2>3, <2>4, <2>5, <2>6, <2>7 DEF Next
<1>3. QED BY <1>1, <1>2, SpecLockInv, PTL DEF Spec, ImplementsMutex, Abstract!Spec
-----------------------------------------------------------------------------
(***************************************************************************)
(* The order: the lock is free only when nobody waits, and a hand-over     *)
(* takes the head of the queue.                                            *)
(***************************************************************************)

LEMMA ImmediateInTurn ==
  ASSUME LockInv, NEW d \in Callers, AcquireImmediate(d), NEW c \in Callers
  PROVE  EntersInTurn(c)
<1>1. SUFFICES ASSUME phase[c] # "inside", phase'[c] = "inside" PROVE EntersInTurn(c)
  BY DEF EntersInTurn
<1>2. c = d BY <1>1 DEF AcquireImmediate, LockInv, TypeOK
<1>3. Target[c] \in SessionIds BY ConstantsAssumption
<1>4. queues[Target[c]] = <<>> BY <1>2, <1>3 DEF AcquireImmediate, LockInv, QueueAgrees
<1>5. QED BY <1>4 DEF EntersInTurn

LEMMA ReleaseInTurn ==
  ASSUME LockInv, NEW d \in Callers, Release(d), NEW c \in Callers
  PROVE  EntersInTurn(c)
<1> DEFINE q == queues[Target[d]]
<1>1. SUFFICES ASSUME phase[c] # "inside", phase'[c] = "inside" PROVE EntersInTurn(c)
  BY DEF EntersInTurn
<1>2. phase \in [Callers -> {"idle", "waiting", "inside", "left", "failed"}]
  BY DEF LockInv, TypeOK
<1>3. Target[d] \in SessionIds BY ConstantsAssumption
<1>4. q \in Seq(Callers) BY <1>3 DEF LockInv, TypeOK
<1>5. /\ Woken(q) > 0
      /\ phase' = [phase EXCEPT ![d] = "left", ![q[Woken(q)]] = "inside"]
  BY <1>1, <1>2 DEF Release
<1>6. q # <<>> /\ Woken(q) = 1 BY <1>5 DEF Woken
<1>7. 1 \in 1 .. Len(q) BY <1>4, <1>6, EmptySeq
<1>8. c = q[1] BY <1>1, <1>2, <1>5, <1>6
<1>9. c \in Waiting(Target[d]) BY <1>3, <1>7, <1>8 DEF LockInv, QueueAgrees
<1>10. Target[c] = Target[d] /\ phase[c] = "waiting" BY <1>9 DEF Waiting
<1>11. \A n \in 1 .. Len(q) : q[n] = c => n = 1
  BY <1>3, <1>7, <1>8 DEF LockInv, QueueAgrees
<1>12. QED BY <1>10, <1>11 DEF EntersInTurn

\* Whoever enters does so in its turn: a hand-over goes to the first in the queue, and a
\* newcomer gets the lock only when there is no queue, for any callers and sessions.
THEOREM FirstComeFirstServedHolds == Spec => FirstComeFirstServed
<1>1. LockInv /\ [Next]_vars => [\A c \in Callers : EntersInTurn(c)]_vars
  <2> SUFFICES ASSUME LockInv, Next, NEW c \in Callers PROVE EntersInTurn(c) OBVIOUS
  <2>1. phase \in [Callers -> {"idle", "waiting", "inside", "left", "failed"}]
    BY DEF LockInv, TypeOK
  <2>2. CASE \E d \in Callers : AcquireImmediate(d) BY <2>2, ImmediateInTurn
  <2>3. CASE \E d \in Callers : Release(d) BY <2>3, ReleaseInTurn
  <2>4. CASE \E d \in Callers : AcquireQueued(d) \/ AcquireRefused(d) \/ TimeOut(d)
    BY <2>1, <2>4 DEF AcquireQueued, AcquireRefused, TimeOut, EntersInTurn
  <2>5. CASE Clear BY <2>5 DEF Clear, EntersInTurn
  <2>6. QED BY <2>2, <2>3, <2>4, <2>5 DEF Next
<1>2. QED BY <1>1, SpecLockInv, PTL DEF Spec, FirstComeFirstServed
-----------------------------------------------------------------------------
(***************************************************************************)
(* The metadata file.  The lock file names the call that works on the      *)
(* file, unless somebody removed a file other than the one he judged; what *)
(* was judged belongs to a call that will never work on the file again.    *)
(***************************************************************************)
Places == {"idle", "checking", "opening", "resetting", "reading", "read", "accessing", "writing",
           "renamed", "chained", "locking", "reaping", "unlocking", "failing", "done", "failed",
           "dead"}
Version == [map : [Ids -> Calls \cup {NoCall}], missing : BOOLEAN]

StoreTyped ==
  /\ script \in Metadata!Script /\ versions \in Seq(Version) /\ Len(versions) >= 1
  /\ expected \in [Ids -> Calls \cup {NoCall}]
  /\ lock \in [by : Calls \cup {NoCall}, stale : BOOLEAN]
  /\ pc \in [Calls -> Places] /\ held = [c \in Calls |-> held[c]]
  /\ judged \in [Calls -> Calls \cup {NoCall}]

\* Where a call may be: only mutations take the lock, only reads ask the cache, and the calls
\* of a process that is down are over, or not begun.
OfMutations == {"chained", "locking", "reaping", "accessing", "writing", "renamed", "unlocking",
                "failing"}
Placed(c) ==
  /\ pc[c] \in OfMutations => Metadata!Mutator(c)
  /\ pc[c] = "checking" => ~Metadata!Mutator(c)
  /\ Metadata!Proc(c) \in down => pc[c] \in {"idle", "done", "failed", "dead"}

\* Past the mutation, and never in it again.
Past == {"unlocking", "failing", "done", "failed", "dead"}
Behind(c) == Metadata!Mutator(c) /\ pc[c] \in Past

LockFile ==
  /\ lock.by = NoCall => lock = Metadata!NoLock
  /\ \A d \in Calls : lock.by = d => Metadata!InCritical(d) \/ Behind(d)
  /\ \A c \in Calls : pc[c] = "reaping" => judged[c] # NoCall
  /\ \A c, d \in Calls : pc[c] = "reaping" /\ judged[c] = d => Behind(d)
  /\ "intruded" \notin mishaps => \A c \in Calls : Metadata!InCritical(c) => lock.by = c

\* A mutation that has read the file holds what the file says.
Holding == {"read", "accessing", "writing"}
UpToDate ==
  /\ \A c \in Calls : pc[c] \in Holding => held[c] \in 0 .. Len(versions)
  /\ mishaps = {} =>
       /\ Metadata!MapOf(Metadata!Current) = expected
       /\ \A c \in Calls : Metadata!Mutator(c) /\ pc[c] \in Holding => Metadata!MapOf(held[c]) = expected

StoreInv == StoreTyped /\ (\A c \in Calls : Placed(c)) /\ LockFile /\ UpToDate

\* What Continue does: a read is done; a mutation goes on with the map, or has nothing to do.
Continued(c, n) ==
  \E x \in {"done", "writing", "accessing", "unlocking"} :
    /\ x = "done" <=> ~Metadata!Mutator(c)
    /\ pc' = [pc EXCEPT ![c] = x]
    /\ held' = [held EXCEPT ![c] = IF x = "unlocking" THEN 0 ELSE n]
    /\ judged' = judged

LEMMA ContinueIs == ASSUME NEW c, NEW n, Metadata!Continue(c, n) PROVE Continued(c, n)
<1> DEFINE m == Metadata!MapOf(n)
           next == CASE Metadata!Kind[c] = "load" -> "done"
                [] Metadata!Kind[c] = "save" -> "writing"
                [] Metadata!Kind[c] = "cleanup" /\ Metadata!Entries(m) # {} -> "accessing"
                [] Metadata!Kind[c] \in {"delete", "updateName"} /\ m[Metadata!Id[c]] # NoCall -> "writing"
                [] OTHER -> "unlocking"
<1>1. /\ held' = [held EXCEPT ![c] = IF next = "unlocking" THEN 0 ELSE n]
      /\ pc' = [pc EXCEPT ![c] = next] /\ judged' = judged
  BY DEF Metadata!Continue
<1>2. next \in {"done", "writing", "accessing", "unlocking"} /\ (next = "done" <=> Metadata!Kind[c] = "load")
  OBVIOUS
<1> HIDE DEF next
<1>3. QED BY <1>1, <1>2 DEF Continued, Metadata!Mutator

\* The mutation of a map is a map.
LEMMA AppliedTyped ==
  ASSUME StoreTyped, NEW c \in Calls, NEW m \in [Ids -> Calls \cup {NoCall}]
  PROVE  Metadata!Applied(c, m) \in [Ids -> Calls \cup {NoCall}]
BY DEF Metadata!Applied

LEMMA MapTyped ==
  ASSUME StoreTyped, NEW n \in 0 .. Len(versions) PROVE Metadata!MapOf(n) \in [Ids -> Calls \cup {NoCall}]
<1>1. CASE n = 0 BY <1>1 DEF Metadata!MapOf, Metadata!Empty
<1>2. CASE n # 0
  <2>1. n \in 1 .. Len(versions) BY <1>2 DEF StoreTyped
  <2>2. versions[n] \in Version BY <2>1 DEF StoreTyped
  <2>3. QED BY <1>2, <2>2 DEF Metadata!MapOf, Version
<1>3. QED BY <1>1, <1>2

\* An append adds a version and leaves those before it.
LEMMA VersionAdded ==
  ASSUME StoreTyped, NEW v \in Version, versions' = Append(versions, v)
  PROVE  /\ versions' \in Seq(Version) /\ Len(versions') = Len(versions) + 1
         /\ \A n \in 0 .. Len(versions) : Metadata!MapOf(n)' = Metadata!MapOf(n)
         /\ Metadata!MapOf(Metadata!Current)' = v.map
<1>1. versions \in Seq(Version) /\ Len(versions) \in Nat BY DEF StoreTyped
<1>2. /\ versions' \in Seq(Version) /\ Len(versions') = Len(versions) + 1
      /\ \A n \in 1 .. Len(versions) : versions'[n] = versions[n]
      /\ versions'[Len(versions) + 1] = v
  BY <1>1, AppendProperties
<1>3. \A n \in 0 .. Len(versions) : Metadata!MapOf(n)' = Metadata!MapOf(n)
  <2> SUFFICES ASSUME NEW n \in 0 .. Len(versions) PROVE Metadata!MapOf(n)' = Metadata!MapOf(n) OBVIOUS
  <2>1. CASE n = 0 BY <2>1 DEF Metadata!MapOf, Metadata!Empty
  <2>2. CASE n # 0
    <3>1. n \in 1 .. Len(versions) BY <1>1, <2>2
    <3>2. versions'[n] = versions[n] BY <1>2, <3>1
    <3>3. QED BY <2>2, <3>2 DEF Metadata!MapOf
  <2>3. QED BY <2>1, <2>2
<1>4. Metadata!MapOf(Metadata!Current)' = v.map BY <1>1, <1>2 DEF Metadata!MapOf, Metadata!Current
<1>5. QED BY <1>2, <1>3, <1>4

LEMMA StoreBegins == Metadata!StoreAssumption /\ Metadata!Init => StoreInv
<1> SUFFICES ASSUME Metadata!StoreAssumption, Metadata!Init PROVE StoreInv OBVIOUS
<1>0. PICK v : v = [map |-> Metadata!Empty, missing |-> TRUE] OBVIOUS
<1>1. v \in Version /\ Metadata!Empty \in [Ids -> Calls \cup {NoCall}]
  BY <1>0 DEF Version, Metadata!Empty
<1>2. versions = <<v>> BY <1>0 DEF Metadata!Init
<1>3. versions \in Seq(Version) /\ Len(versions) = 1 /\ versions[1] = v BY <1>1, <1>2
<1>4. StoreTyped
  BY <1>1, <1>3 DEF Metadata!Init, StoreTyped, Metadata!StoreAssumption, Metadata!NoLock, Places
<1>5. \A c \in Calls : Placed(c) BY DEF Metadata!Init, Placed, OfMutations
<1>6. LockFile
  BY DEF Metadata!Init, Metadata!StoreAssumption, LockFile, Metadata!NoLock, Metadata!InCritical,
     Metadata!Critical
<1>7. UpToDate BY <1>0, <1>3 DEF Metadata!Init, UpToDate, Holding, Metadata!MapOf, Metadata!Current
<1>8. QED BY <1>4, <1>5, <1>6, <1>7 DEF StoreInv
-----------------------------------------------------------------------------
\* The file stays as it is, or a mishap replaces it.
FileKept ==
  \/ versions' = versions
  \/ mishaps' # {} /\ \E v \in Version : versions' = Append(versions, v)

LEMMA KeptFile ==
  ASSUME StoreTyped, FileKept
  PROVE  /\ versions' \in Seq(Version) /\ Len(versions') \in Nat /\ Len(versions') >= Len(versions)
         /\ Len(versions) \in Nat /\ Len(versions) >= 1
         /\ mishaps' = {} => versions' = versions
<1>1. versions \in Seq(Version) /\ Len(versions) \in Nat /\ Len(versions) >= 1 BY DEF StoreTyped
<1>2. CASE versions' = versions BY <1>1, <1>2
<1>3. CASE mishaps' # {} /\ \E v \in Version : versions' = Append(versions, v)
  <2>1. PICK v \in Version : versions' = Append(versions, v) BY <1>3
  <2>2. versions' \in Seq(Version) /\ Len(versions') = Len(versions) + 1 BY <2>1, VersionAdded
  <2>3. QED BY <1>1, <1>3, <2>2
<1>4. QED BY <1>2, <1>3 DEF FileKept

\* Most steps take a call c to a place x and have it hold version n, while the file, the lock
\* file and what was judged stay as they are.
Quiet(c, x, n) ==
  /\ pc' = [pc EXCEPT ![c] = x] /\ held' = [held EXCEPT ![c] = n]
  /\ UNCHANGED <<script, expected, lock, judged, down>> /\ FileKept
  /\ mishaps \subseteq mishaps' /\ ("intruded" \in mishaps' => "intruded" \in mishaps)
  /\ x \in OfMutations => Metadata!Mutator(c)
  /\ x = "checking" => ~Metadata!Mutator(c)
  /\ Metadata!Proc(c) \notin down
  /\ x # "reaping"
  /\ Metadata!Mutator(c) /\ x \in Metadata!Critical => pc[c] \in Metadata!Critical
  /\ pc[c] \in Metadata!Critical => x \in Metadata!Critical \cup Past
  /\ pc[c] \in Past => x \in Past
  /\ x \in Holding => n \in 0 .. Len(versions)
  /\ x \in Holding /\ Metadata!Mutator(c) /\ mishaps' = {} => Metadata!MapOf(n) = expected

Quieter(c) == \E x \in Places : \E n : Quiet(c, x, n)

LEMMA QuietKeeps == ASSUME StoreInv, NEW c \in Calls, Quieter(c) PROVE StoreInv'
<1>0. PICK x \in Places : \E n : Quiet(c, x, n) BY DEF Quieter
<1>n. PICK n : Quiet(c, x, n) BY <1>0
<1>1. /\ pc' = [pc EXCEPT ![c] = x] /\ held' = [held EXCEPT ![c] = n]
      /\ UNCHANGED <<script, expected, lock, judged, down>> /\ FileKept
      /\ mishaps \subseteq mishaps' /\ ("intruded" \in mishaps' => "intruded" \in mishaps)
  BY <1>n DEF Quiet
<1>k. /\ versions' \in Seq(Version) /\ Len(versions') \in Nat /\ Len(versions') >= Len(versions)
      /\ Len(versions) \in Nat /\ Len(versions) >= 1
      /\ mishaps' = {} => versions' = versions
  BY <1>1, KeptFile DEF StoreInv
<1>2. StoreTyped'
  <2>1. pc' \in [Calls -> Places] /\ held' = [d \in Calls |-> held'[d]]
    BY <1>1 DEF StoreInv, StoreTyped
  <2>2. versions' \in Seq(Version) /\ Len(versions') >= 1 BY <1>k
  <2>3. QED BY <1>1, <2>1, <2>2 DEF StoreInv, StoreTyped
<1>3. /\ pc'[c] = x /\ held'[c] = n
      /\ \A d \in Calls : d # c => pc'[d] = pc[d] /\ held'[d] = held[d]
      /\ pc' \in [Calls -> Places]
  BY <1>1 DEF StoreInv, StoreTyped
<1>4. \A d \in Calls : Metadata!Mutator(d)' = Metadata!Mutator(d) /\ Metadata!Proc(d)' = Metadata!Proc(d)
  BY <1>1 DEF Metadata!Mutator, Metadata!Kind, Metadata!Proc, Metadata!Store
<1>5. \A d \in Calls : Placed(d)'
  <2> SUFFICES ASSUME NEW d \in Calls PROVE Placed(d)' OBVIOUS
  <2>1. CASE d = c BY <1>n, <1>1, <1>3, <1>4, <2>1 DEF Quiet, Placed
  <2>2. CASE d # c BY <1>1, <1>3, <1>4, <2>2 DEF Placed, StoreInv
  <2>3. QED BY <2>1, <2>2
<1>6. \A d \in Calls : (Metadata!InCritical(d)' => Metadata!InCritical(d)) /\ (Behind(d) => Behind(d)')
                       /\ (Metadata!InCritical(d) => Metadata!InCritical(d)' \/ Behind(d)')
  <2> SUFFICES ASSUME NEW d \in Calls
               PROVE  /\ Metadata!InCritical(d)' => Metadata!InCritical(d)
                      /\ Behind(d) => Behind(d)'
                      /\ Metadata!InCritical(d) => Metadata!InCritical(d)' \/ Behind(d)'
    OBVIOUS
  <2>1. CASE d = c BY <1>n, <1>3, <1>4, <2>1 DEF Quiet, Metadata!InCritical, Behind
  <2>2. CASE d # c BY <1>3, <1>4, <2>2 DEF Metadata!InCritical, Behind
  <2>3. QED BY <2>1, <2>2
<1>7. LockFile'
  <2>1. lock'.by = NoCall => lock' = Metadata!NoLock BY <1>1 DEF StoreInv, LockFile, Metadata!NoLock
  <2>2. ASSUME NEW d \in Calls, lock'.by = d PROVE Metadata!InCritical(d)' \/ Behind(d)'
    BY <1>1, <1>6, <2>2 DEF StoreInv, LockFile
  <2>3. ASSUME NEW d \in Calls, pc'[d] = "reaping"
        PROVE  judged'[d] # NoCall /\ \A e \in Calls : judged'[d] = e => Behind(e)'
    <3>1. d # c BY <1>n, <1>3, <2>3 DEF Quiet
    <3>2. pc[d] = "reaping" /\ judged' = judged BY <1>1, <1>3, <2>3, <3>1
    <3>3. judged[d] # NoCall /\ \A e \in Calls : judged[d] = e => Behind(e)
      BY <3>2 DEF StoreInv, LockFile
    <3>4. QED BY <1>6, <3>2, <3>3
  <2>4. ASSUME "intruded" \notin mishaps', NEW d \in Calls, Metadata!InCritical(d)' PROVE lock'.by = d
    BY <1>1, <1>6, <2>4 DEF StoreInv, LockFile
  <2>5. QED BY <2>1, <2>2, <2>3, <2>4 DEF LockFile, Metadata!NoLock
<1>8. UpToDate'
  <2>3. ASSUME NEW d \in Calls, pc'[d] \in Holding PROVE held'[d] \in 0 .. Len(versions')
    <3>1. CASE d = c BY <1>k, <1>n, <1>1, <1>3, <2>3, <3>1 DEF Quiet
    <3>2. CASE d # c BY <1>k, <1>1, <1>3, <2>3, <3>2 DEF StoreInv, UpToDate
    <3>3. QED BY <3>1, <3>2
  <2>4. ASSUME mishaps' = {} PROVE Metadata!MapOf(Metadata!Current)' = expected'
    <3>1. mishaps = {} /\ versions' = versions BY <1>1, <1>k, <2>4
    <3>2. QED BY <1>1, <3>1 DEF StoreInv, UpToDate, Metadata!MapOf, Metadata!Current, Metadata!Empty
  <2>5. ASSUME mishaps' = {}, NEW d \in Calls, Metadata!Mutator(d)', pc'[d] \in Holding
        PROVE  Metadata!MapOf(held[d])' = expected'
    <3>0. mishaps = {} /\ Metadata!Mutator(d) /\ versions' = versions BY <1>1, <1>4, <1>k, <2>5
    <3>1. PICK k : k = held'[d] OBVIOUS
    <3>2. Metadata!MapOf(k) = expected
      <4>1. CASE d = c BY <1>n, <1>3, <2>5, <3>0, <3>1, <4>1 DEF Quiet
      <4>2. CASE d # c BY <1>3, <2>5, <3>0, <3>1, <4>2 DEF StoreInv, UpToDate
      <4>3. QED BY <4>1, <4>2
    <3>3. QED BY <1>1, <3>0, <3>1, <3>2 DEF Metadata!MapOf, Metadata!Empty
  <2>6. QED BY <2>3, <2>4, <2>5 DEF UpToDate, Metadata!Mutator, Metadata!Kind, Metadata!MapOf,
            Metadata!Empty, Metadata!Current
<1>9. QED BY <1>2, <1>5, <1>7, <1>8 DEF StoreInv

\* A step of a call that is not over shows that its process is up.
LEMMA ProcessUp ==
  ASSUME StoreInv, NEW c \in Calls, pc[c] \notin {"idle", "done", "failed", "dead"}
  PROVE  Metadata!Proc(c) \notin down
BY DEF StoreInv, Placed
-----------------------------------------------------------------------------
LEMMA BeginIsQuiet ==
  ASSUME StoreInv, NEW c \in Calls, Metadata!Begin(c), UNCHANGED script PROVE Quieter(c)
<1>1. /\ pc[c] = "idle" /\ Metadata!Proc(c) \notin down
      /\ UNCHANGED <<script, versions, expected, lock, judged, down, mishaps, held>>
  BY DEF Metadata!Begin, Metadata!file
<1>2. PICK x \in Places : /\ pc' = [pc EXCEPT ![c] = x]
                          /\ \/ x = "chained" /\ Metadata!Mutator(c)
                             \/ x \in {"checking", "opening"} /\ ~Metadata!Mutator(c)
  BY DEF Metadata!Begin, Places
<1>3. held' = [held EXCEPT ![c] = held[c]] BY <1>1 DEF StoreInv, StoreTyped
<1>4. Quiet(c, x, held[c])
  BY <1>1, <1>2, <1>3 DEF Quiet, FileKept, OfMutations, Metadata!Critical, Past, Holding
<1>5. QED BY <1>4 DEF Quieter

\* What goes on with the map it has loaded is a quiet step, if the map is the one it should be.
LEMMA ContinueIsQuiet ==
  ASSUME StoreInv, NEW c \in Calls, NEW n \in 0 .. Len(versions), Metadata!Continue(c, n),
         UNCHANGED <<script, expected, lock, down>>, FileKept,
         mishaps \subseteq mishaps', "intruded" \in mishaps' => "intruded" \in mishaps,
         pc[c] \in {"opening", "reading", "read", "resetting"},
         Metadata!Mutator(c) /\ mishaps' = {} => Metadata!MapOf(n) = expected
  PROVE  Quieter(c)
<1>1. PICK x \in {"done", "writing", "accessing", "unlocking"} :
        /\ x = "done" <=> ~Metadata!Mutator(c)
        /\ pc' = [pc EXCEPT ![c] = x]
        /\ held' = [held EXCEPT ![c] = IF x = "unlocking" THEN 0 ELSE n]
        /\ judged' = judged
  BY ContinueIs DEF Continued
<1>2. PICK k : k = IF x = "unlocking" THEN 0 ELSE n OBVIOUS
<1>3. k \in 0 .. Len(versions) BY <1>2 DEF StoreInv, StoreTyped
<1>4. Metadata!Proc(c) \notin down BY ProcessUp
<1>5. Quiet(c, x, k)
  BY <1>1, <1>2, <1>3, <1>4 DEF Quiet, OfMutations, Metadata!Critical, Past, Holding
<1>6. QED BY <1>5 DEF Quieter, Places

\* The steps that read nothing of the file but that it is there.
LEMMA OrdinaryIsQuiet ==
  ASSUME StoreInv, NEW c \in Calls, UNCHANGED script,
         \/ Metadata!CheckCache(c) \/ Metadata!StatFile(c) \/ Metadata!StartMutation(c)
         \/ Metadata!GiveUp(c) \/ Metadata!RememberStat(c) \/ Metadata!WriteFails(c)
  PROVE  Quieter(c)
<1>0. held = [d \in Calls |-> held[d]] BY DEF StoreInv, StoreTyped
<1>1. pc[c] \notin {"idle", "done", "failed", "dead"}
  BY DEF Metadata!CheckCache, Metadata!StatFile, Metadata!StartMutation, Metadata!GiveUp,
     Metadata!RememberStat, Metadata!WriteFails
<1>2. Metadata!Proc(c) \notin down BY <1>1, ProcessUp
<1>3. Placed(c) BY DEF StoreInv
<1>5. CASE Metadata!CheckCache(c)
  <2>1. PICK x \in {"done", "failed", "opening"} : \E n : /\ pc' = [pc EXCEPT ![c] = x]
                                                         /\ held' = [held EXCEPT ![c] = n]
    <3>1. held' = held => held' = [held EXCEPT ![c] = held[c]] BY <1>0
    <3>2. QED BY <1>5, <3>1 DEF Metadata!CheckCache
  <2>2. PICK n : pc' = [pc EXCEPT ![c] = x] /\ held' = [held EXCEPT ![c] = n] BY <2>1
  <2>3. pc[c] = "checking" /\ UNCHANGED <<script, versions, expected, lock, judged, down, mishaps>>
    BY <1>5 DEF Metadata!CheckCache, Metadata!file
  <2>4. Quiet(c, x, n)
    BY <1>2, <1>3, <2>2, <2>3 DEF Quiet, FileKept, Placed, OfMutations, Metadata!Critical, Past,
       Holding
  <2>5. QED BY <2>4 DEF Quieter, Places
<1>6. CASE Metadata!StatFile(c)
  <2>1. PICK x \in {"resetting", "reading"} : pc' = [pc EXCEPT ![c] = x]
    BY <1>6 DEF Metadata!StatFile
  <2>2. /\ pc[c] = "opening" /\ held' = [held EXCEPT ![c] = held[c]]
        /\ UNCHANGED <<script, versions, expected, lock, judged, down, mishaps>>
    BY <1>0, <1>6 DEF Metadata!StatFile, Metadata!file
  <2>3. Quiet(c, x, held[c])
    BY <1>2, <2>1, <2>2 DEF Quiet, FileKept, OfMutations, Metadata!Critical, Past, Holding
  <2>4. QED BY <2>3 DEF Quieter, Places
<1>7. CASE Metadata!StartMutation(c)
  <2>1. /\ pc[c] = "chained" /\ pc' = [pc EXCEPT ![c] = "locking"]
        /\ held' = [held EXCEPT ![c] = held[c]]
        /\ UNCHANGED <<script, versions, expected, lock, judged, down, mishaps>>
    BY <1>0, <1>7 DEF Metadata!StartMutation, Metadata!file
  <2>2. Quiet(c, "locking", held[c])
    BY <1>2, <1>3, <2>1 DEF Quiet, FileKept, Placed, OfMutations, Metadata!Critical, Past, Holding
  <2>3. QED BY <2>2 DEF Quieter, Places
<1>8. CASE Metadata!GiveUp(c)
  <2>1. /\ pc[c] = "locking" /\ pc' = [pc EXCEPT ![c] = "failed"]
        /\ held' = [held EXCEPT ![c] = held[c]]
        /\ UNCHANGED <<script, versions, expected, lock, judged, down, mishaps>>
    BY <1>0, <1>8 DEF Metadata!GiveUp, Metadata!Settle, Metadata!file
  <2>2. Quiet(c, "failed", held[c])
    BY <1>2, <1>3, <2>1 DEF Quiet, FileKept, OfMutations, Metadata!Critical, Past, Holding
  <2>3. QED BY <2>2 DEF Quieter, Places
<1>9. CASE Metadata!RememberStat(c)
  <2>1. /\ pc[c] = "renamed" /\ pc' = [pc EXCEPT ![c] = "unlocking"]
        /\ held' = [held EXCEPT ![c] = held[c]]
        /\ UNCHANGED <<script, versions, expected, lock, judged, down, mishaps>>
    BY <1>0, <1>9 DEF Metadata!RememberStat, Metadata!file
  <2>2. Quiet(c, "unlocking", held[c])
    BY <1>2, <1>3, <2>1 DEF Quiet, FileKept, Placed, OfMutations, Metadata!Critical, Past, Holding
  <2>3. QED BY <2>2 DEF Quieter, Places
<1>10. CASE Metadata!WriteFails(c)
  <2>1. /\ pc[c] = "writing" /\ pc' = [pc EXCEPT ![c] = "failing"]
        /\ held' = [held EXCEPT ![c] = 0]
        /\ UNCHANGED <<script, versions, expected, lock, judged, down, mishaps>>
    BY <1>10 DEF Metadata!WriteFails, Metadata!Dropped, Metadata!file
  <2>2. Quiet(c, "failing", 0)
    BY <1>2, <1>3, <2>1 DEF Quiet, FileKept, Placed, OfMutations, Metadata!Critical, Past, Holding
  <2>3. QED BY <2>2 DEF Quieter, Places
<1>11. QED BY <1>5, <1>6, <1>7, <1>8, <1>9, <1>10

\* The steps that load the map, and the clean-up's look at the session files.
LEMMA LoadIsQuiet ==
  ASSUME StoreInv, NEW c \in Calls, UNCHANGED script,
         Metadata!FoundMissing(c) \/ Metadata!Misread(c) \/ Metadata!ReadFile(c) \/ Metadata!InstallRead(c) \/ Metadata!AccessNext(c)
  PROVE  Quieter(c)
<1>0. held = [d \in Calls |-> held[d]] BY DEF StoreInv, StoreTyped
<1>1. Len(versions) \in Nat /\ Len(versions) >= 1 /\ Metadata!Current \in 0 .. Len(versions)
  BY DEF StoreInv, StoreTyped, Metadata!Current
<1>2. mishaps = {} => Metadata!MapOf(Metadata!Current) = expected BY DEF StoreInv, UpToDate
<1>3. Placed(c) BY DEF StoreInv
<1>4. CASE Metadata!FoundMissing(c)
  <2>1. /\ pc[c] \in {"opening", "reading"} /\ Metadata!Continue(c, Metadata!Current)
        /\ UNCHANGED <<script, versions, expected, lock, down, mishaps>>
    BY <1>4 DEF Metadata!FoundMissing, Metadata!file
  <2>2. FileKept BY <2>1 DEF FileKept
  <2>3. QED BY <1>1, <1>2, <2>1, <2>2, ContinueIsQuiet
<1>5. CASE Metadata!Misread(c)
  <2>1. /\ pc[c] \in {"opening", "reading"} /\ Metadata!Continue(c, 0)
        /\ UNCHANGED <<script, versions, expected, lock, down>>
        /\ mishaps' = IF Metadata!Mutator(c) THEN mishaps \cup {"misread"} ELSE mishaps
    BY <1>5 DEF Metadata!Misread, Metadata!file
  <2>2. mishaps \subseteq mishaps' /\ ("intruded" \in mishaps' => "intruded" \in mishaps)
    BY <2>1
  <2>3. ~(Metadata!Mutator(c) /\ mishaps' = {}) BY <2>1
  <2>4. FileKept BY <2>1 DEF FileKept
  <2>5. QED BY <1>1, <2>1, <2>2, <2>3, <2>4, ContinueIsQuiet
<1>6. CASE Metadata!ReadFile(c)
  <2>1. /\ pc[c] = "reading" /\ pc' = [pc EXCEPT ![c] = "read"]
        /\ held' = [held EXCEPT ![c] = Metadata!Current]
        /\ UNCHANGED <<script, versions, expected, lock, judged, down, mishaps>>
    BY <1>6 DEF Metadata!ReadFile, Metadata!file
  <2>2. Metadata!Proc(c) \notin down BY <2>1, ProcessUp
  <2>3. Quiet(c, "read", Metadata!Current)
    BY <1>1, <1>2, <2>1, <2>2 DEF Quiet, FileKept, OfMutations, Metadata!Critical, Past, Holding
  <2>4. QED BY <2>3 DEF Quieter, Places
<1>7. CASE Metadata!InstallRead(c)
  <2>1. /\ pc[c] = "read" /\ Metadata!Continue(c, held[c])
        /\ UNCHANGED <<script, versions, expected, lock, down, mishaps>>
    BY <1>7 DEF Metadata!InstallRead, Metadata!file
  <2>2. held[c] \in 0 .. Len(versions) BY <2>1 DEF StoreInv, UpToDate, Holding
  <2>3. Metadata!Mutator(c) /\ mishaps = {} => Metadata!MapOf(held[c]) = expected
    BY <2>1 DEF StoreInv, UpToDate, Holding
  <2>4. FileKept BY <2>1 DEF FileKept
  <2>5. QED BY <2>1, <2>2, <2>3, <2>4, ContinueIsQuiet
<1>8. CASE Metadata!AccessNext(c)
  <2>1. PICK x \in {"accessing", "unlocking", "writing"} : pc' = [pc EXCEPT ![c] = x]
    BY <1>8 DEF Metadata!AccessNext
  <2>2. /\ pc[c] = "accessing" /\ held' = [held EXCEPT ![c] = held[c]]
        /\ UNCHANGED <<script, versions, expected, lock, judged, down, mishaps>>
    BY <1>0, <1>8 DEF Metadata!AccessNext, Metadata!file
  <2>3. Metadata!Proc(c) \notin down BY <2>2, ProcessUp
  <2>4. /\ held[c] \in 0 .. Len(versions)
        /\ Metadata!Mutator(c) /\ mishaps = {} => Metadata!MapOf(held[c]) = expected
    BY <2>2 DEF StoreInv, UpToDate, Holding
  <2>5. Quiet(c, x, held[c])
    BY <1>3, <2>1, <2>2, <2>3, <2>4 DEF Quiet, FileKept, Placed, OfMutations, Metadata!Critical,
       Past, Holding
  <2>6. QED BY <2>5 DEF Quieter, Places
<1>9. QED BY <1>4, <1>5, <1>6, <1>7, <1>8

LEMMA ResetIsQuiet ==
  ASSUME StoreInv, NEW c \in Calls, UNCHANGED script, Metadata!ResetFile(c) PROVE Quieter(c)
<1>1. /\ pc[c] = "resetting" /\ Metadata!Continue(c, 0) /\ mishaps' = mishaps \cup {"reset"}
      /\ UNCHANGED <<script, expected, lock, down>>
  BY DEF Metadata!ResetFile
<1>2. [map |-> Metadata!Empty, missing |-> TRUE] \in Version BY DEF Version, Metadata!Empty
<1>3. FileKept BY <1>1, <1>2 DEF Metadata!ResetFile, FileKept
<1>4. 0 \in 0 .. Len(versions) BY DEF StoreInv, StoreTyped
<1>5. ~(Metadata!Mutator(c) /\ mishaps' = {}) BY <1>1
<1>6. mishaps \subseteq mishaps' /\ ("intruded" \in mishaps' => "intruded" \in mishaps) BY <1>1
<1>7. QED BY <1>1, <1>3, <1>4, <1>5, <1>6, ContinueIsQuiet
-----------------------------------------------------------------------------
\* The other steps: what holds of all that take one call to a place where it holds no version.
LEMMA OneMoves ==
  ASSUME StoreInv, NEW c \in Calls, NEW x \in Places \ (Holding \cup {"checking"}),
         pc' = [pc EXCEPT ![c] = x], held' = held \/ held' = [held EXCEPT ![c] = 0],
         UNCHANGED <<script, down>>, pc[c] \notin {"idle", "done", "failed", "dead"},
         x \in OfMutations => Metadata!Mutator(c)
  PROVE  /\ pc' \in [Calls -> Places] /\ held' = [d \in Calls |-> held'[d]]
         /\ pc'[c] = x /\ \A d \in Calls \ {c} : pc'[d] = pc[d] /\ held'[d] = held[d]
         /\ \A d \in Calls : (Metadata!Mutator(d)' <=> Metadata!Mutator(d)) /\ Placed(d)'
<1>1. pc \in [Calls -> Places] /\ held = [d \in Calls |-> held[d]] BY DEF StoreInv, StoreTyped
<1>2. /\ pc' \in [Calls -> Places] /\ held' = [d \in Calls |-> held'[d]] /\ pc'[c] = x
      /\ \A d \in Calls \ {c} : pc'[d] = pc[d] /\ held'[d] = held[d]
  BY <1>1
<1>3. \A d \in Calls : (Metadata!Mutator(d)' <=> Metadata!Mutator(d)) /\ Metadata!Proc(d)' = Metadata!Proc(d)
  BY DEF Metadata!Mutator, Metadata!Kind, Metadata!Proc, Metadata!Store
<1>4. Metadata!Proc(c) \notin down BY ProcessUp
<1>5. ASSUME NEW d \in Calls PROVE Placed(d)'
  <2>1. CASE d = c BY <1>2, <1>3, <1>4, <2>1 DEF Placed
  <2>2. CASE d # c BY <1>2, <1>3, <2>2 DEF Placed, StoreInv
  <2>3. QED BY <2>1, <2>2
<1>6. QED BY <1>2, <1>3, <1>5

\* ... and leave the file as it is.
LEMMA FileStays ==
  ASSUME StoreInv, NEW c \in Calls, pc'[c] \notin Holding, UNCHANGED <<script, versions, expected>>,
         mishaps \subseteq mishaps', \A d \in Calls \ {c} : pc'[d] = pc[d] /\ held'[d] = held[d]
  PROVE  UpToDate'
<1>1. ASSUME NEW d \in Calls, pc'[d] \in Holding PROVE held'[d] \in 0 .. Len(versions')
  BY <1>1 DEF StoreInv, UpToDate
<1>2. ASSUME mishaps' = {} PROVE Metadata!MapOf(Metadata!Current)' = expected'
  <2>1. mishaps = {} BY <1>2
  <2>2. QED BY <2>1 DEF StoreInv, UpToDate, Metadata!MapOf, Metadata!Current, Metadata!Empty
<1>3. ASSUME mishaps' = {}, NEW d \in Calls, Metadata!Mutator(d)', pc'[d] \in Holding
      PROVE  Metadata!MapOf(held[d])' = expected'
  <2>1. mishaps = {} /\ Metadata!Mutator(d) BY <1>3 DEF Metadata!Mutator, Metadata!Kind
  <2>2. PICK k : k = held[d] /\ k = held'[d] /\ pc[d] \in Holding BY <1>3
  <2>3. Metadata!MapOf(k) = expected BY <2>1, <2>2 DEF StoreInv, UpToDate
  <2>4. QED BY <2>2, <2>3 DEF Metadata!MapOf, Metadata!Empty
<1>4. QED BY <1>1, <1>2, <1>3 DEF UpToDate, Metadata!Mutator, Metadata!Kind, Metadata!MapOf,
          Metadata!Empty, Metadata!Current

\* The lock file is made: nobody is in a mutation then.
LEMMA CreateKeeps ==
  ASSUME Metadata!StoreAssumption, StoreInv, NEW c \in Calls, UNCHANGED script, Metadata!CreateLock(c)
  PROVE  StoreInv'
<1>1. /\ pc[c] = "locking" /\ lock = Metadata!NoLock /\ lock' = [by |-> c, stale |-> FALSE]
      /\ pc' = [pc EXCEPT ![c] = "opening"]
      /\ UNCHANGED <<script, versions, expected, down, held, judged, mishaps>>
  BY DEF Metadata!CreateLock, Metadata!file
<1>2. Metadata!Mutator(c) BY <1>1 DEF StoreInv, Placed, OfMutations
<1>3. /\ pc' \in [Calls -> Places] /\ held' = [d \in Calls |-> held'[d]]
      /\ pc'[c] = "opening" /\ \A d \in Calls \ {c} : pc'[d] = pc[d] /\ held'[d] = held[d]
      /\ \A d \in Calls : (Metadata!Mutator(d)' <=> Metadata!Mutator(d)) /\ Placed(d)'
  <2>1. "opening" \in Places \ (Holding \cup {"checking"}) BY DEF Places, Holding
  <2>2. QED BY <1>1, <1>2, <2>1, OneMoves DEF OfMutations
<1>4. StoreTyped' BY <1>1, <1>3 DEF StoreInv, StoreTyped
<1>5. UpToDate' BY <1>1, <1>3, FileStays DEF Holding
<1>6. \A d \in Calls \ {c} : (Metadata!InCritical(d)' <=> Metadata!InCritical(d)) /\ (Behind(d)' <=> Behind(d))
  BY <1>3 DEF Metadata!InCritical, Behind
<1>7. Metadata!InCritical(c)' /\ ~Behind(c)
  BY <1>1, <1>2, <1>3 DEF Metadata!InCritical, Behind, Metadata!Critical, Past
<1>8. lock.by \notin Calls BY <1>1 DEF Metadata!NoLock, Metadata!StoreAssumption
<1>9. LockFile'
  <2>1. lock'.by = c /\ c # NoCall BY <1>1 DEF Metadata!StoreAssumption
  <2>2. ASSUME NEW d \in Calls, pc'[d] = "reaping"
        PROVE  judged'[d] # NoCall /\ \A e \in Calls : judged'[d] = e => Behind(e)'
    BY <1>1, <1>3, <1>6, <1>7, <2>2 DEF StoreInv, LockFile
  <2>3. ASSUME "intruded" \notin mishaps', NEW d \in Calls, Metadata!InCritical(d)' PROVE lock'.by = d
    BY <1>1, <1>6, <1>8, <2>1, <2>3 DEF StoreInv, LockFile
  <2>4. QED BY <1>7, <2>1, <2>2, <2>3 DEF LockFile
<1>10. QED BY <1>3, <1>4, <1>5, <1>9 DEF StoreInv

\* A lock file is judged stale: its owner is past its mutation.
LEMMA JudgeKeeps ==
  ASSUME Metadata!StoreAssumption, StoreInv, NEW c \in Calls, UNCHANGED script, Metadata!JudgeStale(c)
  PROVE  StoreInv'
<1>1. /\ pc[c] = "locking" /\ lock.stale /\ ~Metadata!OwnerAlive(c)
      /\ judged' = [judged EXCEPT ![c] = lock.by] /\ pc' = [pc EXCEPT ![c] = "reaping"]
      /\ UNCHANGED <<script, versions, expected, down, held, lock, mishaps>>
  BY DEF Metadata!JudgeStale, Metadata!file
<1>2. Metadata!Mutator(c) BY <1>1 DEF StoreInv, Placed, OfMutations
<1>3. /\ pc' \in [Calls -> Places] /\ held' = [d \in Calls |-> held'[d]]
      /\ pc'[c] = "reaping" /\ \A d \in Calls \ {c} : pc'[d] = pc[d] /\ held'[d] = held[d]
      /\ \A d \in Calls : (Metadata!Mutator(d)' <=> Metadata!Mutator(d)) /\ Placed(d)'
  <2>1. "reaping" \in Places \ (Holding \cup {"checking"}) BY DEF Places, Holding
  <2>2. QED BY <1>1, <1>2, <2>1, OneMoves
<1>4. lock.by \in Calls
  <2>1. lock # Metadata!NoLock BY <1>1 DEF Metadata!NoLock
  <2>2. QED BY <2>1 DEF StoreInv, StoreTyped, LockFile
<1>5. PICK o \in Calls : o = lock.by BY <1>4
<1>6. Behind(o)
  <2>1. Metadata!InCritical(o) \/ Behind(o) BY <1>5 DEF StoreInv, LockFile
  <2>2. SUFFICES ASSUME Metadata!InCritical(o) PROVE FALSE BY <2>1
  <2>3. Metadata!Proc(o) # Metadata!Proc(c) /\ Metadata!Proc(o) \in down
    BY <1>1, <1>5, <2>2 DEF Metadata!OwnerAlive
  <2>4. pc[o] \in {"idle", "done", "failed", "dead"} BY <2>3 DEF StoreInv, Placed
  <2>5. QED BY <2>2, <2>4 DEF Metadata!InCritical, Metadata!Critical
<1>7. StoreTyped' BY <1>1, <1>3, <1>4 DEF StoreInv, StoreTyped
<1>8. UpToDate' BY <1>1, <1>3, FileStays DEF Holding
<1>9. \A d \in Calls : (Metadata!InCritical(d)' <=> Metadata!InCritical(d)) /\ (Behind(d)' <=> Behind(d))
  BY <1>1, <1>3 DEF Metadata!InCritical, Behind, Metadata!Critical, Past
<1>10. LockFile'
  <2>1. ASSUME NEW d \in Calls, pc'[d] = "reaping"
        PROVE  judged'[d] # NoCall /\ \A e \in Calls : judged'[d] = e => Behind(e)'
    <3>1. CASE d = c
      <4>1. judged'[d] = o BY <1>1, <1>5, <3>1 DEF StoreInv, StoreTyped
      <4>2. QED BY <1>6, <1>9, <4>1 DEF Metadata!StoreAssumption
    <3>2. CASE d # c
      <4>1. judged'[d] = judged[d] /\ pc[d] = "reaping"
        BY <1>1, <1>3, <2>1, <3>2 DEF StoreInv, StoreTyped
      <4>2. QED BY <1>9, <4>1 DEF StoreInv, LockFile
    <3>3. QED BY <3>1, <3>2
  <2>2. QED BY <1>1, <1>9, <2>1 DEF StoreInv, LockFile, Metadata!NoLock
<1>11. QED BY <1>3, <1>7, <1>8, <1>10 DEF StoreInv

\* The lock file goes: unless it was another's, nobody is in a mutation then.
LEMMA RemovalKeeps ==
  ASSUME Metadata!StoreAssumption, StoreInv, NEW c \in Calls, NEW d \in Calls, UNCHANGED script,
         lock' = Metadata!NoLock, Metadata!Intruding(c, d), Behind(d),
         NEW x \in Places \ (Holding \cup {"checking", "reaping"} \cup Metadata!Critical),
         pc' = [pc EXCEPT ![c] = x], pc[c] \notin {"idle", "done", "failed", "dead"} \cup Metadata!Critical,
         x \in OfMutations => Metadata!Mutator(c), pc[c] \in Past => x \in Past,
         judged' = judged \/ judged' = [judged EXCEPT ![c] = NoCall],
         UNCHANGED <<versions, expected, down, held>>
  PROVE  StoreInv'
<1>3. /\ pc' \in [Calls -> Places] /\ held' = [e \in Calls |-> held'[e]]
      /\ pc'[c] = x /\ \A e \in Calls \ {c} : pc'[e] = pc[e] /\ held'[e] = held[e]
      /\ \A e \in Calls : (Metadata!Mutator(e)' <=> Metadata!Mutator(e)) /\ Placed(e)'
  BY OneMoves
<1>4. mishaps \subseteq mishaps' BY DEF Metadata!Intruding
<1>5. judged' \in [Calls -> Calls \cup {NoCall}]
      /\ \A e \in Calls \ {c} : judged'[e] = judged[e]
  BY DEF StoreInv, StoreTyped
<1>6. StoreTyped' BY <1>3, <1>5 DEF StoreInv, StoreTyped, Metadata!NoLock
<1>7. UpToDate' BY <1>3, <1>4, FileStays
<1>8. \A e \in Calls : (Metadata!InCritical(e)' => Metadata!InCritical(e)) /\ (Behind(e) => Behind(e)')
  BY <1>3 DEF Metadata!InCritical, Behind
<1>9. LockFile'
  <2>1. NoCall \notin Calls /\ lock'.by = NoCall BY DEF Metadata!StoreAssumption, Metadata!NoLock
  <2>2. ASSUME NEW e \in Calls, pc'[e] = "reaping"
        PROVE  judged'[e] # NoCall /\ \A f \in Calls : judged'[e] = f => Behind(f)'
    BY <1>3, <1>5, <1>8, <2>2 DEF StoreInv, LockFile
  <2>3. ASSUME "intruded" \notin mishaps', NEW e \in Calls, Metadata!InCritical(e)' PROVE FALSE
    <3>1. Metadata!InCritical(e) BY <1>8, <2>3
    <3>2. lock.by = e BY <1>4, <2>3, <3>1 DEF StoreInv, LockFile
    <3>3. lock # Metadata!NoLock BY <2>1, <3>2 DEF Metadata!NoLock
    <3>4. lock.by = d BY <2>3, <3>3 DEF Metadata!Intruding
    <3>5. QED BY <3>1, <3>2, <3>4 DEF Metadata!InCritical, Behind, Metadata!Critical, Past
  <2>4. QED BY <2>1, <2>2, <2>3 DEF LockFile, Metadata!NoLock
<1>10. QED BY <1>3, <1>6, <1>7, <1>9 DEF StoreInv

LEMMA ReapKeeps ==
  ASSUME Metadata!StoreAssumption, StoreInv, NEW c \in Calls, UNCHANGED script, Metadata!ReapLock(c)
  PROVE  StoreInv'
<1>1. /\ pc[c] = "reaping" /\ lock' = Metadata!NoLock /\ Metadata!Intruding(c, judged[c])
      /\ judged' = [judged EXCEPT ![c] = NoCall] /\ pc' = [pc EXCEPT ![c] = "locking"]
      /\ UNCHANGED <<versions, expected, down, held>>
  BY DEF Metadata!ReapLock, Metadata!file
<1>2. judged[c] \in Calls /\ Metadata!Mutator(c)
  BY <1>1 DEF StoreInv, StoreTyped, LockFile, Placed, OfMutations
<1>3. PICK d \in Calls : d = judged[c] BY <1>2
<1>4. Behind(d) BY <1>1, <1>3 DEF StoreInv, LockFile
<1>5. "locking" \in Places \ (Holding \cup {"checking", "reaping"} \cup Metadata!Critical)
  BY DEF Places, Holding, Metadata!Critical
<1>6. pc[c] \notin {"idle", "done", "failed", "dead"} \cup Metadata!Critical /\ pc[c] \notin Past
  BY <1>1 DEF Metadata!Critical, Past
<1>7. Metadata!Intruding(c, d) BY <1>1, <1>3
<1>8. QED BY <1>1, <1>2, <1>4, <1>5, <1>6, <1>7, RemovalKeeps

LEMMA UnlockKeeps ==
  ASSUME Metadata!StoreAssumption, StoreInv, NEW c \in Calls, UNCHANGED script, Metadata!Unlock(c)
  PROVE  StoreInv'
<1>1. /\ pc[c] \in {"unlocking", "failing"}
      /\ UNCHANGED <<script, versions, expected, down, held, judged>>
  BY DEF Metadata!Unlock, Metadata!Leaving, Metadata!file
<1>2. Metadata!Mutator(c) /\ Behind(c) BY <1>1 DEF StoreInv, Placed, OfMutations, Behind, Past
<1>3. CASE lock' = Metadata!NoLock /\ Metadata!Intruding(c, c)
           /\ Metadata!Settle(c, IF pc[c] = "unlocking" THEN "done" ELSE "failed")
  <2>1. PICK x \in {"done", "failed"} : pc' = [pc EXCEPT ![c] = x] BY <1>3 DEF Metadata!Settle
  <2>2. x \in Places \ (Holding \cup {"checking", "reaping"} \cup Metadata!Critical) /\ x \in Past
    BY DEF Places, Holding, Metadata!Critical, Past
  <2>3. pc[c] \notin {"idle", "done", "failed", "dead"} \cup Metadata!Critical
    BY <1>1 DEF Metadata!Critical
  <2>4. QED BY <1>1, <1>2, <1>3, <2>1, <2>2, <2>3, RemovalKeeps
<1>4. CASE Metadata!Settle(c, "failed") /\ UNCHANGED <<lock, mishaps>>
  <2>1. pc' = [pc EXCEPT ![c] = "failed"] BY <1>4 DEF Metadata!Settle
  <2>2. held' = [held EXCEPT ![c] = held[c]] BY <1>1 DEF StoreInv, StoreTyped
  <2>3. Metadata!Proc(c) \notin down BY <1>1, ProcessUp
  <2>4. Quiet(c, "failed", held[c])
    BY <1>1, <1>4, <2>1, <2>2, <2>3 DEF Quiet, FileKept, OfMutations, Metadata!Critical, Past,
       Holding
  <2>5. QED BY <2>4, QuietKeeps DEF Quieter, Places
<1>5. QED BY <1>3, <1>4 DEF Metadata!Unlock

\* The rename: what the mutation makes of the map it read is what the mutations add up to.
LEMMA RenameKeeps ==
  ASSUME Metadata!StoreAssumption, StoreInv, NEW c \in Calls, UNCHANGED script, Metadata!RenameFile(c)
  PROVE  StoreInv'
<1> DEFINE m == Metadata!Applied(c, Metadata!MapOf(held[c]))
<1>1. /\ pc[c] = "writing" /\ pc' = [pc EXCEPT ![c] = "renamed"]
      /\ versions' = Append(versions, [map |-> m, missing |-> FALSE])
      /\ expected' = Metadata!Applied(c, expected) /\ held' = [held EXCEPT ![c] = 0]
      /\ UNCHANGED <<script, down, lock, judged, mishaps>>
  BY DEF Metadata!RenameFile, Metadata!Dropped
<1>2. Metadata!Mutator(c) /\ Metadata!InCritical(c)
  BY <1>1 DEF StoreInv, Placed, OfMutations, Metadata!InCritical, Metadata!Critical
<1>3. /\ pc' \in [Calls -> Places] /\ held' = [d \in Calls |-> held'[d]]
      /\ pc'[c] = "renamed" /\ \A d \in Calls \ {c} : pc'[d] = pc[d] /\ held'[d] = held[d]
      /\ \A d \in Calls : (Metadata!Mutator(d)' <=> Metadata!Mutator(d)) /\ Placed(d)'
  <2>1. "renamed" \in Places \ (Holding \cup {"checking"}) BY DEF Places, Holding
  <2>2. QED BY <1>1, <1>2, <2>1, OneMoves
<1>4. held[c] \in 0 .. Len(versions) /\ (mishaps = {} => Metadata!MapOf(held[c]) = expected)
  BY <1>1, <1>2 DEF StoreInv, UpToDate, Holding
<1>5. m \in [Ids -> Calls \cup {NoCall}] /\ Metadata!Applied(c, expected) \in [Ids -> Calls \cup {NoCall}]
  <2>1. Metadata!MapOf(held[c]) \in [Ids -> Calls \cup {NoCall}] BY <1>4, MapTyped DEF StoreInv
  <2>2. QED BY <2>1, AppliedTyped DEF StoreInv, StoreTyped
<1>6. PICK v : v = [map |-> m, missing |-> FALSE] OBVIOUS
<1>7. v \in Version /\ v.map = m /\ versions' = Append(versions, v)
  BY <1>1, <1>5, <1>6 DEF Version
<1> HIDE DEF m
<1>8. /\ versions' \in Seq(Version) /\ Len(versions') = Len(versions) + 1
      /\ Metadata!MapOf(Metadata!Current)' = m
  BY <1>7, VersionAdded DEF StoreInv
<1>9. Len(versions) \in Nat /\ Len(versions) >= 1 BY DEF StoreInv, StoreTyped
<1>10. StoreTyped' BY <1>1, <1>3, <1>5, <1>8, <1>9 DEF StoreInv, StoreTyped
<1>11. \A d \in Calls : (Metadata!InCritical(d)' <=> Metadata!InCritical(d)) /\ (Behind(d)' <=> Behind(d))
  BY <1>1, <1>3 DEF Metadata!InCritical, Behind, Metadata!Critical, Past
<1>12. LockFile'
  <2>1. \A d \in Calls : pc'[d] = "reaping" => pc[d] = "reaping" BY <1>3
  <2>2. QED BY <1>1, <1>11, <2>1 DEF StoreInv, LockFile, Metadata!NoLock
<1>13. UpToDate'
  <2>1. ASSUME NEW d \in Calls, pc'[d] \in Holding
        PROVE  /\ held'[d] \in 0 .. Len(versions') /\ d # c /\ pc[d] \in Holding
    <3>1. d # c /\ pc[d] \in Holding BY <1>3, <2>1 DEF Holding
    <3>2. held'[d] = held[d] /\ held[d] \in 0 .. Len(versions)
      BY <1>3, <3>1 DEF StoreInv, UpToDate
    <3>3. QED BY <1>8, <1>9, <3>1, <3>2
  <2>2. ASSUME mishaps' = {} PROVE Metadata!MapOf(Metadata!Current)' = expected'
    <3>1. Metadata!MapOf(held[c]) = expected BY <1>1, <1>4, <2>2
    <3>2. QED BY <1>1, <1>8, <3>1 DEF m
  <2>3. ASSUME mishaps' = {}, NEW d \in Calls, Metadata!Mutator(d)', pc'[d] \in Holding PROVE FALSE
    <3>1. d # c /\ Metadata!InCritical(d)
      BY <1>3, <2>1, <2>3 DEF Metadata!InCritical, Holding, Metadata!Critical
    <3>2. lock.by = c /\ lock.by = d BY <1>1, <1>2, <2>3, <3>1 DEF StoreInv, LockFile
    <3>3. QED BY <3>1, <3>2
  <2>4. QED BY <2>1, <2>2, <2>3 DEF UpToDate
<1>14. QED BY <1>3, <1>10, <1>12, <1>13 DEF StoreInv

\* A process dies: its calls are over, whatever they held.
LEMMA CrashKeeps ==
  ASSUME StoreInv, NEW p \in Processes, UNCHANGED script, Metadata!Crash(p) PROVE StoreInv'
<1>1. /\ pc' = [c \in Calls |-> IF Metadata!Proc(c) = p /\ pc[c] # "idle" /\ ~Metadata!Ended(c) THEN "dead" ELSE pc[c]]
      /\ held' = [c \in Calls |-> IF Metadata!Proc(c) = p /\ Metadata!Mutator(c) THEN 0 ELSE held[c]]
      /\ down' = down \cup {p}
      /\ UNCHANGED <<script, versions, expected, lock, judged, mishaps>>
  BY DEF Metadata!Crash, Metadata!file
<1>2. StoreTyped' BY <1>1 DEF StoreInv, StoreTyped, Places
<1>3. \A c \in Calls : (Metadata!Mutator(c)' <=> Metadata!Mutator(c)) /\ Metadata!Proc(c)' = Metadata!Proc(c)
  BY <1>1 DEF Metadata!Mutator, Metadata!Kind, Metadata!Proc, Metadata!Store
<1>4. \A c \in Calls :
        /\ Metadata!Proc(c) = p => pc'[c] \in {"idle", "done", "failed", "dead"}
        /\ Metadata!Proc(c) # p => pc'[c] = pc[c] /\ held'[c] = held[c]
        /\ pc'[c] # pc[c] => pc'[c] = "dead" /\ pc[c] # "idle"
  BY <1>1 DEF Metadata!Ended
<1>5. \A c \in Calls : Placed(c)'
  BY <1>1, <1>3, <1>4 DEF StoreInv, Placed, OfMutations
<1>6. \A c \in Calls : /\ Metadata!InCritical(c)' => Metadata!InCritical(c)
                       /\ Behind(c) => Behind(c)'
                       /\ Metadata!InCritical(c) => Metadata!InCritical(c)' \/ Behind(c)'
  BY <1>3, <1>4 DEF Metadata!InCritical, Behind, Metadata!Critical, Past
<1>7. LockFile'
  <2>1. \A c \in Calls : pc'[c] = "reaping" => pc[c] = "reaping" BY <1>4
  <2>2. QED BY <1>1, <1>6, <2>1 DEF StoreInv, LockFile, Metadata!NoLock
<1>8. \A c \in Calls : pc'[c] \in Holding => pc[c] \in Holding /\ held'[c] = held[c]
  BY <1>4 DEF Holding
<1>9. UpToDate'
  <2>1. ASSUME NEW d \in Calls, pc'[d] \in Holding PROVE held'[d] \in 0 .. Len(versions')
    BY <1>1, <1>8, <2>1 DEF StoreInv, UpToDate
  <2>2. ASSUME mishaps' = {} PROVE Metadata!MapOf(Metadata!Current)' = expected'
    BY <1>1, <2>2 DEF StoreInv, UpToDate, Metadata!MapOf, Metadata!Current, Metadata!Empty
  <2>3. ASSUME mishaps' = {}, NEW d \in Calls, Metadata!Mutator(d)', pc'[d] \in Holding
        PROVE  Metadata!MapOf(held[d])' = expected'
    <3>1. PICK k : k = held[d] /\ k = held'[d] /\ pc[d] \in Holding BY <1>8, <2>3
    <3>2. Metadata!MapOf(k) = expected BY <1>1, <1>3, <2>3, <3>1 DEF StoreInv, UpToDate
    <3>3. QED BY <1>1, <3>1, <3>2 DEF Metadata!MapOf, Metadata!Empty
  <2>4. QED BY <2>1, <2>2, <2>3 DEF UpToDate, Metadata!Mutator, Metadata!Kind, Metadata!MapOf,
            Metadata!Empty, Metadata!Current
<1>10. QED BY <1>2, <1>5, <1>7, <1>9 DEF StoreInv

\* Nothing else touches the calls, the file or its owner.
LEMMA RestKeeps ==
  ASSUME StoreInv, UNCHANGED <<script, versions, expected, pc, held, judged, mishaps>>,
         down' \subseteq down, lock' # lock => lock # Metadata!NoLock /\ lock' = [lock EXCEPT !.stale = TRUE]
  PROVE  StoreInv'
<1>1. lock' \in [by : Calls \cup {NoCall}, stale : BOOLEAN] /\ lock'.by = lock.by
      /\ (lock'.by = NoCall => lock' = Metadata!NoLock)
  BY DEF StoreInv, StoreTyped, LockFile
<1>2. StoreTyped' BY <1>1 DEF StoreInv, StoreTyped
<1>3. \A c \in Calls : Placed(c)'
  BY DEF StoreInv, Placed, Metadata!Mutator, Metadata!Kind, Metadata!Proc, Metadata!Store
<1>4. LockFile'
  BY <1>1 DEF StoreInv, LockFile, Metadata!InCritical, Behind, Metadata!Mutator, Metadata!Kind,
     Metadata!NoLock
<1>5. UpToDate'
  BY DEF StoreInv, UpToDate, Metadata!Mutator, Metadata!Kind, Metadata!MapOf, Metadata!Empty,
     Metadata!Current
<1>6. QED BY <1>2, <1>3, <1>4, <1>5 DEF StoreInv

LEMMA StoreNext == ASSUME Metadata!StoreAssumption, StoreInv, [Metadata!Next]_(Metadata!vars) PROVE StoreInv'
<1>1. ASSUME NEW c \in Calls, Metadata!Step(c) PROVE StoreInv'
  <2>1. script' = script BY <1>1 DEF Metadata!Step
  <2>2. CASE Metadata!CheckCache(c) \/ Metadata!StatFile(c) \/ Metadata!StartMutation(c) \/ Metadata!GiveUp(c) \/ Metadata!RememberStat(c)
               \/ Metadata!WriteFails(c)
    BY <2>1, <2>2, OrdinaryIsQuiet, QuietKeeps
  <2>3. CASE Metadata!FoundMissing(c) \/ Metadata!Misread(c) \/ Metadata!ReadFile(c) \/ Metadata!InstallRead(c) \/ Metadata!AccessNext(c)
    BY <2>1, <2>3, LoadIsQuiet, QuietKeeps
  <2>4. CASE Metadata!ResetFile(c) BY <2>1, <2>4, ResetIsQuiet, QuietKeeps
  <2>5. CASE Metadata!CreateLock(c) BY <2>1, <2>5, CreateKeeps
  <2>6. CASE Metadata!JudgeStale(c) BY <2>1, <2>6, JudgeKeeps
  <2>7. CASE Metadata!ReapLock(c) BY <2>1, <2>7, ReapKeeps
  <2>8. CASE Metadata!Unlock(c) BY <2>1, <2>8, UnlockKeeps
  <2>9. CASE Metadata!RenameFile(c) BY <2>1, <2>9, RenameKeeps
  <2>10. QED BY <1>1, <2>2, <2>3, <2>4, <2>5, <2>6, <2>7, <2>8, <2>9 DEF Metadata!Step
<1>2. CASE Metadata!Meanwhile /\ UNCHANGED script
  <2>1. CASE \E c \in Calls : Metadata!Begin(c) BY <1>2, <2>1, BeginIsQuiet, QuietKeeps
  <2>2. CASE Metadata!AgeLock
    BY <1>2, <2>2, RestKeeps DEF Metadata!AgeLock, Metadata!file, Metadata!calls
  <2>3. CASE \E p \in Processes : Metadata!Crash(p) BY <1>2, <2>3, CrashKeeps
  <2>4. CASE \E p \in Processes : Metadata!Restart(p)
    BY <1>2, <2>4, RestKeeps DEF Metadata!Restart, Metadata!file, Metadata!calls
  <2>5. CASE \E s \in Stores : Metadata!CacheExpires(s)
    BY <1>2, <2>5, RestKeeps DEF Metadata!CacheExpires, Metadata!file, Metadata!calls
  <2>6. CASE \E i \in Ids : Metadata!LoseFile(i)
    BY <1>2, <2>6, RestKeeps DEF Metadata!LoseFile, Metadata!file, Metadata!calls
  <2>7. QED BY <1>2, <2>1, <2>2, <2>3, <2>4, <2>5, <2>6 DEF Metadata!Meanwhile
<1>3. CASE UNCHANGED Metadata!vars
  BY <1>3, RestKeeps DEF Metadata!vars, Metadata!file, Metadata!calls
<1>4. QED BY <1>1, <1>2, <1>3 DEF Metadata!Next

\* One mutation of the metadata file at a time, as long as no lock file is removed but the one
\* that was judged, and none is lost, as long as the file was read and never reset: for any
\* calls of any stores of any processes, which crash, come back, and fail as they may.
THEOREM MutationsSafeHolds == Metadata!Spec => []MutationsSafe
<1> USE MetadataAssumption
<1>1. StoreInv => MutationsSafe
  BY DEF StoreInv, LockFile, UpToDate, MutationsSafe, Metadata!MutationsSafe,
     Metadata!LockExclusive, Metadata!NoLostUpdate
<1>2. QED BY <1>1, StoreBegins, StoreNext, PTL DEF Metadata!Spec
=============================================================================
