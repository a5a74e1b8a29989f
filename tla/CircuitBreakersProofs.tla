------------------------ MODULE CircuitBreakersProofs ------------------------
(***************************************************************************)
(* The circuit breakers for any number of calls, providers and sessions,   *)
(* any thresholds and any times: closed circuits stay below their          *)
(* threshold, a half-open circuit lets a bounded number of calls through   *)
(* and always awaits one that decides it, whatever calls of earlier states *)
(* report to it meanwhile.                                                 *)
(***************************************************************************)
EXTENDS Guards, FiniteSetTheorems, SequenceTheorems, TLAPS

\* The circuits of the code, and what holds of each whatever calls report to it.
Circuit == [state : {"closed", "open", "half_open"}, failures : Seq(Nat), lastStateChange : Nat,
            lastAccessTime : Nat, successes : Nat, trials : Nat]

\* How many failures count now.
FailCount(k) == Len(Breakers!Pruned(k).failures)

Sound(b, k) ==
  /\ k \in Circuit
  /\ k.state = "closed" => FailCount(k) < Threshold[b]
  /\ k.state = "half_open" => k.trials <= HalfOpenMaxCalls /\ k.successes < SuccessThreshold

\* Every call let through but the one that made the circuit half-open is among its trials.
Bounded(k, n) == k.state = "half_open" => n <= k.trials + 1

\* Every trial has been reported as a success, or its call is among the n that will report.
Awaited(k, n) == k.state = "half_open" => k.trials <= k.successes + n

\* l comes from k without letting a call through: it is as half-open as k, or not half-open.
Follows(k, l) ==
  l.state = "half_open" =>
    k.state = "half_open" /\ l.trials = k.trials /\ l.successes >= k.successes

\* l is k after a report: a circuit that stays half-open counts one more success.
Reported(k, l) ==
  l.state = "half_open" =>
    k.state = "half_open" /\ l.trials = k.trials /\ l.successes = k.successes + 1

Reporters(b) == {c \in Calls \ orphans : running[c] = b \/ (b = Global /\ running[c] \in Sessions)}
Decided == Providers \cup {Global}

IInv ==
  /\ now \in Nat /\ breaker \in [Breakers!Breakers -> Circuit] /\ tests \in [Breakers!Breakers -> Nat]
  /\ running \in [Calls -> Providers \cup Sessions \cup {Nobody}] /\ orphans \subseteq Calls
  /\ \A c \in orphans : running[c] \in Providers
  /\ \A b \in Breakers!Breakers : Sound(b, breaker[b]) /\ Bounded(breaker[b], tests[b])
  /\ \A b \in Decided : Awaited(breaker[b], Cardinality(Reporters(b)))
-----------------------------------------------------------------------------
LEMMA FiniteBreakers ==
  /\ \A S : Breakers!Cardinality(S) = Cardinality(S)
  /\ \A S : Breakers!IsFiniteSet(S) <=> IsFiniteSet(S)
BY DEF Breakers!Cardinality, Cardinality, Breakers!IsFiniteSet, IsFiniteSet

LEMMA BreakerFacts ==
  ASSUME Breakers!BreakerAssumption
  PROVE  /\ Threshold \in [Breakers!Breakers -> Nat \ {0}] /\ SuccessThreshold \in Nat
         /\ SuccessThreshold > 0 /\ HalfOpenMaxCalls \in Nat
         /\ SuccessThreshold <= HalfOpenMaxCalls /\ FailureWindow \in Nat
         /\ IsFiniteSet(Calls) /\ Nobody \notin Breakers!Breakers /\ Global \notin Providers \cup Sessions
         /\ Providers \cap Sessions = {}
         /\ \A b \in Breakers!Breakers : b \in Providers \/ b \in Sessions \/ b = Global
BY FiniteBreakers DEF Breakers!BreakerAssumption, Breakers!Breakers

\* The failures that have left the window at a time.
OldAt(times, t) == {i \in DOMAIN times : times[i] <= t - FailureWindow}

LEMMA SuffixIs ==
  ASSUME Breakers!BreakerAssumption, NEW s \in Seq(Nat), NEW t \in Nat
  PROVE  LET n == Cardinality(OldAt(s, t)) IN
         /\ IsFiniteSet(OldAt(s, t)) /\ n \in 0 .. Len(s)
         /\ SubSeq(s, n + 1, Len(s)) \in Seq(Nat) /\ Len(SubSeq(s, n + 1, Len(s))) = Len(s) - n
<1> DEFINE n == Cardinality(OldAt(s, t))
<1>1. Len(s) \in Nat /\ DOMAIN s = 1 .. Len(s) /\ \A i \in 1 .. Len(s) : s[i] \in Nat OBVIOUS
<1>2. IsFiniteSet(1 .. Len(s)) /\ Cardinality(1 .. Len(s)) = Len(s) BY <1>1, FS_Interval
<1>3. OldAt(s, t) \subseteq 1 .. Len(s) BY <1>1 DEF OldAt
<1>4. IsFiniteSet(OldAt(s, t)) /\ n <= Len(s) BY <1>2, <1>3, FS_Subset
<1>5. n \in Nat BY <1>4, FS_CardinalityType
<1> HIDE DEF n
<1>6. \A i \in n + 1 .. Len(s) : s[i] \in Nat BY <1>1, <1>5
<1>7. n + 1 \in Int /\ Len(s) \in Int BY <1>1, <1>5
<1>8. /\ SubSeq(s, n + 1, Len(s)) \in Seq(Nat)
      /\ Len(SubSeq(s, n + 1, Len(s))) =
           IF n + 1 <= Len(s) THEN Len(s) - (n + 1) + 1 ELSE 0
  BY <1>6, <1>7, SubSeqProperties
<1>9. Len(SubSeq(s, n + 1, Len(s))) = Len(s) - n
  <2> DEFINE m == Len(s)  w == Len(SubSeq(s, n + 1, Len(s)))
  <2>1. m \in Nat /\ n \in Nat /\ n <= m /\ w = IF n + 1 <= m THEN m - (n + 1) + 1 ELSE 0
    BY <1>1, <1>4, <1>5, <1>8
  <2> HIDE DEF m, w
  <2>2. w = m - n BY <2>1
  <2>3. QED BY <2>2 DEF m, w
<1>10. n \in 0 .. Len(s) BY <1>1, <1>4, <1>5
<1>11. QED BY <1>4, <1>8, <1>9, <1>10 DEF n

LEMMA PrunedIs ==
  ASSUME Breakers!BreakerAssumption, now \in Nat, NEW k \in Circuit
  PROVE  LET l == Breakers!Pruned(k) IN
         /\ l \in Circuit /\ l.state = k.state /\ l.trials = k.trials /\ l.successes = k.successes
         /\ FailCount(k) = Len(k.failures) - Cardinality(OldAt(k.failures, now))
         /\ FailCount(k) \in Nat /\ FailCount(k) <= Len(k.failures) /\ Len(k.failures) \in Nat
<1> DEFINE n == Cardinality(OldAt(k.failures, now))
           x == SubSeq(k.failures, n + 1, Len(k.failures))
<1>1. k.failures \in Seq(Nat) /\ Len(k.failures) \in Nat BY DEF Circuit
<1>2. n \in 0 .. Len(k.failures) /\ x \in Seq(Nat) /\ Len(x) = Len(k.failures) - n
  BY <1>1, SuffixIs
<1>3. Breakers!Pruned(k) = [k EXCEPT !.failures = x]
  BY FiniteBreakers DEF Breakers!Pruned, Breakers!Old, OldAt
<1> HIDE DEF n, x
<1>4. /\ Breakers!Pruned(k) \in Circuit /\ Breakers!Pruned(k).failures = x /\ Breakers!Pruned(k).state = k.state
      /\ Breakers!Pruned(k).trials = k.trials /\ Breakers!Pruned(k).successes = k.successes
  BY <1>2, <1>3 DEF Circuit
<1>5. FailCount(k) = Len(x) BY <1>4 DEF FailCount
<1>6. QED BY <1>1, <1>2, <1>4, <1>5 DEF n

\* What is pruned is not more than it was.
LEMMA PrunedFewer ==
  ASSUME Breakers!BreakerAssumption, now \in Nat, NEW k \in Circuit
  PROVE  FailCount(Breakers!Pruned(k)) <= FailCount(k)
<1> DEFINE l == Breakers!Pruned(k)
<1>1. l \in Circuit /\ Len(l.failures) = FailCount(k) BY PrunedIs DEF FailCount
<1> HIDE DEF l
<1>2. FailCount(l) <= Len(l.failures) BY <1>1, PrunedIs
<1>3. QED BY <1>1, <1>2 DEF l

LEMMA AccessedIs ==
  ASSUME Breakers!BreakerAssumption, now \in Nat, NEW k \in Circuit
  PROVE  LET l == Breakers!Accessed(k) IN
         /\ l \in Circuit /\ l.state = k.state /\ l.trials = k.trials /\ l.successes = k.successes
         /\ l.failures = k.failures /\ FailCount(l) = FailCount(k)
<1> DEFINE l == Breakers!Accessed(k)
<1>1. /\ l \in Circuit /\ l.state = k.state /\ l.trials = k.trials /\ l.successes = k.successes
      /\ l.failures = k.failures
  BY DEF Breakers!Accessed, Circuit
<1> HIDE DEF l
<1>2. FailCount(l) = Len(l.failures) - Cardinality(OldAt(l.failures, now)) BY <1>1, PrunedIs
<1>3. FailCount(k) = Len(k.failures) - Cardinality(OldAt(k.failures, now)) BY PrunedIs
<1>4. QED BY <1>1, <1>2, <1>3 DEF l

\* The circuit a check looks at.
LEMMA SeenIs ==
  ASSUME Breakers!BreakerAssumption, now \in Nat, NEW k \in Circuit
  PROVE  LET l == Breakers!Pruned(Breakers!Accessed(k)) IN
         /\ l \in Circuit /\ l.state = k.state /\ l.trials = k.trials /\ l.successes = k.successes
         /\ FailCount(l) <= FailCount(k) /\ FailCount(l) \in Nat /\ FailCount(k) \in Nat
<1> DEFINE a == Breakers!Accessed(k)
<1>1. /\ a \in Circuit /\ a.state = k.state /\ a.trials = k.trials /\ a.successes = k.successes
      /\ FailCount(a) = FailCount(k)
  BY AccessedIs
<1> HIDE DEF a
<1>2. /\ Breakers!Pruned(a) \in Circuit /\ Breakers!Pruned(a).state = a.state /\ Breakers!Pruned(a).trials = a.trials
      /\ Breakers!Pruned(a).successes = a.successes
  BY <1>1, PrunedIs
<1>3. FailCount(Breakers!Pruned(a)) <= FailCount(a) BY <1>1, PrunedFewer
<1>4. FailCount(Breakers!Pruned(a)) \in Nat /\ FailCount(k) \in Nat BY <1>2, PrunedIs
<1>5. QED BY <1>1, <1>2, <1>3, <1>4 DEF a

LEMMA ClosedSound ==
  ASSUME Breakers!BreakerAssumption, now \in Nat, NEW b \in Breakers!Breakers, NEW k \in Circuit,
         k.state = "closed", k.failures = <<>>
  PROVE  Sound(b, k)
<1>1. FailCount(k) \in Nat /\ FailCount(k) <= Len(k.failures) BY PrunedIs
<1>2. Len(k.failures) = 0 OBVIOUS
<1>3. Threshold[b] \in Nat /\ Threshold[b] > 0 BY BreakerFacts
<1>4. QED BY <1>1, <1>2, <1>3 DEF Sound

LEMMA FreshSound ==
  ASSUME Breakers!BreakerAssumption, now \in Nat, NEW b \in Breakers!Breakers
  PROVE  Sound(b, Breakers!Fresh) /\ Breakers!Fresh \in Circuit /\ Breakers!Fresh.state = "closed"
<1>1. Breakers!Fresh \in Circuit /\ Breakers!Fresh.state = "closed" /\ Breakers!Fresh.failures = <<>>
  BY DEF Breakers!Fresh, Circuit
<1>2. QED BY <1>1, ClosedSound

LEMMA ToOpenOpens ==
  ASSUME now \in Nat, NEW k \in Circuit
  PROVE  Breakers!ToOpen(k) \in Circuit /\ Breakers!ToOpen(k).state = "open"
BY DEF Circuit, Breakers!ToOpen

LEMMA ToClosedCloses ==
  ASSUME now \in Nat, NEW k \in Circuit
  PROVE  Breakers!ToClosed(k) \in Circuit /\ Breakers!ToClosed(k).state = "closed" /\ Breakers!ToClosed(k).failures = <<>>
<1> DEFINE l == Breakers!ToClosed(k)
<1>a. <<>> \in Seq(Nat) OBVIOUS
<1>e. PICK e \in Seq(Nat) : e = <<>> BY <1>a, Zenon
<1>z. PICK z \in Nat : z = 0 OBVIOUS
<1>1. l = [k EXCEPT !.state = "closed", !.lastStateChange = now, !.failures = e,
                    !.successes = z, !.trials = z]
  BY <1>e, <1>z DEF Breakers!ToClosed
<1> HIDE DEF l
<1>2. l \in Circuit /\ l.state = "closed" /\ l.failures = e BY <1>1 DEF Circuit
<1>3. QED BY <1>2, <1>e DEF l

LEMMA ToHalfOpenStarts ==
  ASSUME now \in Nat, NEW k \in Circuit
  PROVE  LET l == Breakers!ToHalfOpen(k) IN
         l \in Circuit /\ l.state = "half_open" /\ l.trials = 0 /\ l.successes = 0
BY DEF Circuit, Breakers!ToHalfOpen

LEMMA TriedCounts ==
  ASSUME NEW k \in Circuit
  PROVE  LET l == Breakers!Tried(k) IN
         /\ l \in Circuit /\ l.state = k.state /\ l.trials = k.trials + 1
         /\ l.successes = k.successes
BY DEF Circuit, Breakers!Tried

LEMMA CircuitTypes ==
  ASSUME NEW k \in Circuit
  PROVE  k.trials \in Nat /\ k.successes \in Nat /\ k.state \in {"closed", "open", "half_open"}
BY DEF Circuit
-----------------------------------------------------------------------------
\* A call that is refused leaves the circuit as it was.
LEMMA RefusedFollows ==
  ASSUME Breakers!BreakerAssumption, now \in Nat, NEW b \in Breakers!Breakers, NEW k, Sound(b, k), ~Breakers!Allowed(k)
  PROVE  Sound(b, Breakers!Checked(k)) /\ Follows(k, Breakers!Checked(k))
<1> DEFINE seen == Breakers!Pruned(Breakers!Accessed(k))
<1>0. k \in Circuit /\ Threshold[b] \in Nat BY BreakerFacts DEF Sound
<1>1. /\ seen \in Circuit /\ seen.state = k.state /\ seen.trials = k.trials
      /\ seen.successes = k.successes /\ FailCount(seen) <= FailCount(k)
      /\ FailCount(seen) \in Nat /\ FailCount(k) \in Nat
  BY <1>0, SeenIs
<1>2. ~(k.state = "open" /\ Breakers!Recovered(k)) /\ ~(k.state = "half_open" /\ Breakers!Allowed(k))
  BY <1>0, CircuitTypes DEF Breakers!Allowed
<1>3. Breakers!Checked(k) = seen BY <1>2 DEF Breakers!Checked
<1> HIDE DEF seen
<1>4. QED BY <1>0, <1>1, <1>3, CircuitTypes DEF Follows, Sound

\* A call that is let through is the first of a half-open circuit, or one more of its trials.
LEMMA AllowedCounts ==
  ASSUME Breakers!BreakerAssumption, now \in Nat, NEW b \in Breakers!Breakers, NEW k, Sound(b, k), Breakers!Allowed(k)
  PROVE  LET l == Breakers!Checked(k) IN
         /\ Sound(b, l)
         /\ l.state = "half_open" =>
              \/ k.state = "open" /\ l.trials = 0
              \/ k.state = "half_open" /\ l.trials = k.trials + 1 /\ l.successes = k.successes
<1> DEFINE seen == Breakers!Pruned(Breakers!Accessed(k))
<1>0. /\ k \in Circuit /\ Threshold[b] \in Nat /\ HalfOpenMaxCalls \in Nat
      /\ SuccessThreshold \in Nat /\ SuccessThreshold > 0
  BY BreakerFacts DEF Sound
<1>1. /\ seen \in Circuit /\ seen.state = k.state /\ seen.trials = k.trials
      /\ seen.successes = k.successes /\ FailCount(seen) <= FailCount(k)
      /\ FailCount(seen) \in Nat /\ FailCount(k) \in Nat
  BY <1>0, SeenIs
<1>2. CASE k.state = "closed"
  <2>1. Breakers!Checked(k) = seen BY <1>2 DEF Breakers!Checked
  <2> HIDE DEF seen
  <2>2. QED BY <1>0, <1>1, <1>2, <2>1 DEF Sound
<1>3. CASE k.state = "open"
  <2>1. Breakers!Recovered(k) BY <1>3 DEF Breakers!Allowed
  <2>2. Breakers!Checked(k) = Breakers!ToHalfOpen(seen) BY <1>3, <2>1 DEF Breakers!Checked
  <2> HIDE DEF seen
  <2>3. QED BY <1>0, <1>1, <1>3, <2>2, ToHalfOpenStarts DEF Sound
<1>4. CASE k.state = "half_open"
  <2>1. k.trials < HalfOpenMaxCalls BY <1>4 DEF Breakers!Allowed
  <2>2. Breakers!Checked(k) = Breakers!Tried(seen) BY <1>4 DEF Breakers!Checked
  <2>3. k.trials \in Nat /\ k.successes < SuccessThreshold BY <1>0, <1>4, CircuitTypes DEF Sound
  <2> HIDE DEF seen
  <2>4. QED BY <1>0, <1>1, <1>4, <2>1, <2>2, <2>3, TriedCounts DEF Sound
<1>5. QED BY <1>0, <1>2, <1>3, <1>4, CircuitTypes

\* A failure closes nothing and leaves nothing half-open.
LEMMA FailedReports ==
  ASSUME Breakers!BreakerAssumption, now \in Nat, NEW b \in Breakers!Breakers, NEW k, Sound(b, k)
  PROVE  Sound(b, Breakers!Failed(b, k)) /\ Reported(k, Breakers!Failed(b, k))
<1> DEFINE longer == [Breakers!Accessed(k) EXCEPT !.failures = Append(@, now)]
           noted == Breakers!Pruned(longer)  l == Breakers!Failed(b, k)
<1>0. k \in Circuit /\ Threshold[b] \in Nat BY BreakerFacts DEF Sound
<1>1. /\ Breakers!Accessed(k) \in Circuit /\ Breakers!Accessed(k).state = k.state
      /\ Breakers!Accessed(k).failures = k.failures
  BY <1>0, AccessedIs
<1>2. longer \in Circuit /\ longer.state = k.state
  <2>1. Append(k.failures, now) \in Seq(Nat) BY <1>0 DEF Circuit
  <2>2. QED BY <1>1, <2>1 DEF Circuit
<1>3. /\ l = IF k.state = "half_open" \/ (k.state = "closed" /\ Len(noted.failures) >= Threshold[b])
             THEN Breakers!ToOpen(noted) ELSE noted
  BY DEF Breakers!Failed
<1> HIDE DEF longer, l
<1>4. noted \in Circuit /\ noted.state = k.state /\ Len(noted.failures) \in Nat
  BY <1>2, PrunedIs DEF FailCount
<1> HIDE DEF noted
<1>5. FailCount(noted) \in Nat /\ FailCount(noted) <= Len(noted.failures) BY <1>4, PrunedIs
<1>6. CASE k.state = "half_open" \/ (k.state = "closed" /\ Len(noted.failures) >= Threshold[b])
  <2>1. l \in Circuit /\ l.state = "open" BY <1>3, <1>4, <1>6, ToOpenOpens
  <2>2. QED BY <2>1 DEF l, Sound, Reported
<1>7. CASE ~(k.state = "half_open" \/ (k.state = "closed" /\ Len(noted.failures) >= Threshold[b]))
  <2>1. l = noted /\ l.state # "half_open" BY <1>3, <1>4, <1>7
  <2>2. l.state = "closed" => FailCount(l) < Threshold[b] BY <1>0, <1>4, <1>5, <1>7, <2>1
  <2>3. QED BY <1>4, <2>1, <2>2 DEF l, Sound, Reported
<1>8. QED BY <1>6, <1>7

LEMMA SlowReports ==
  ASSUME Breakers!BreakerAssumption, now \in Nat, NEW b \in Breakers!Breakers, NEW k, Sound(b, k)
  PROVE  Sound(b, Breakers!Slow(b, k)) /\ Reported(k, Breakers!Slow(b, k))
BY FailedReports DEF Breakers!Slow

LEMMA SucceededReports ==
  ASSUME Breakers!BreakerAssumption, now \in Nat, NEW b \in Breakers!Breakers, NEW k, Sound(b, k)
  PROVE  Sound(b, Breakers!Succeeded(b, k)) /\ Reported(k, Breakers!Succeeded(b, k))
<1> DEFINE seen == Breakers!Accessed(k)  l == Breakers!Succeeded(b, k)
<1>0. /\ k \in Circuit /\ Threshold[b] \in Nat /\ SuccessThreshold \in Nat
      /\ k.successes \in Nat /\ k.trials \in Nat /\ HalfOpenMaxCalls \in Nat
  BY BreakerFacts, CircuitTypes DEF Sound
<1>1. /\ seen \in Circuit /\ seen.state = k.state /\ seen.trials = k.trials
      /\ seen.successes = k.successes
  BY <1>0, AccessedIs
<1>2. CASE k.state = "half_open" /\ k.successes + 1 >= SuccessThreshold
  <2>1. l = Breakers!ToClosed(seen) BY <1>0, <1>2 DEF Breakers!Succeeded
  <2> HIDE DEF seen, l
  <2>2. l \in Circuit /\ l.state = "closed" /\ l.failures = <<>> BY <1>1, <2>1, ToClosedCloses
  <2>3. Sound(b, l) BY <2>2, ClosedSound
  <2>4. QED BY <2>2, <2>3 DEF Reported, l
<1>3. CASE k.state = "half_open" /\ k.successes + 1 < SuccessThreshold
  <2>1. l = [seen EXCEPT !.successes = @ + 1] BY <1>0, <1>3 DEF Breakers!Succeeded
  <2> HIDE DEF seen, l
  <2>a. seen.successes + 1 \in Nat BY <1>0, <1>1
  <2>b. l \in Circuit /\ l.trials = seen.trials /\ l.state = seen.state
    BY <1>1, <2>1, <2>a DEF Circuit
  <2>c. l.successes = seen.successes + 1 BY <1>1, <2>1 DEF Circuit
  <2>2. /\ l \in Circuit /\ l.trials = k.trials /\ l.successes = k.successes + 1
        /\ l.state = "half_open"
    BY <1>1, <1>3, <2>b, <2>c
  <2>3. k.trials <= HalfOpenMaxCalls BY <1>3 DEF Sound
  <2>4. Sound(b, l) BY <1>3, <2>2, <2>3 DEF Sound
  <2>5. QED BY <1>3, <2>2, <2>4 DEF Reported, l
<1>4. CASE k.state = "closed"
  <2>1. l = Breakers!Pruned(seen) BY <1>4 DEF Breakers!Succeeded
  <2>2. /\ l \in Circuit /\ l.state = "closed" /\ FailCount(l) <= FailCount(k)
        /\ FailCount(l) \in Nat /\ FailCount(k) \in Nat
    BY <1>0, <1>4, <2>1, SeenIs
  <2> HIDE DEF seen, l
  <2>3. FailCount(l) < Threshold[b] BY <1>0, <1>4, <2>2 DEF Sound
  <2>4. QED BY <2>2, <2>3 DEF Sound, Reported, l
<1>5. CASE k.state = "open"
  <2>1. l = seen BY <1>5 DEF Breakers!Succeeded
  <2> HIDE DEF seen, l
  <2>2. l \in Circuit /\ l.state = "open" BY <1>1, <1>5, <2>1
  <2>3. QED BY <2>2 DEF Sound, Reported, l
<1>6. QED BY <1>0, <1>2, <1>3, <1>4, <1>5, CircuitTypes
-----------------------------------------------------------------------------
(***************************************************************************)
(* The calls that will report.                                             *)
(***************************************************************************)
LEMMA ReportersFinite ==
  ASSUME Breakers!BreakerAssumption, NEW b
  PROVE  IsFiniteSet(Reporters(b)) /\ Cardinality(Reporters(b)) \in Nat
<1>1. Reporters(b) \subseteq Calls BY DEF Reporters
<1>2. IsFiniteSet(Reporters(b)) BY <1>1, BreakerFacts, FS_Subset
<1>3. QED BY <1>2, FS_CardinalityType

\* A breaker that was asked, with the call counted if it was let through.
LEMMA AskedSound ==
  ASSUME Breakers!BreakerAssumption, IInv, NEW b \in Breakers!Breakers
  PROVE  LET l == Breakers!Checked(breaker[b]) IN
         /\ Sound(b, l) /\ l \in Circuit /\ Breakers!Counted(b) \in Nat
         /\ Breakers!Allowed(breaker[b]) => Bounded(l, Breakers!Counted(b))
         /\ ~Breakers!Allowed(breaker[b]) => Bounded(l, tests[b])
<1> DEFINE k == breaker[b]  l == Breakers!Checked(k)
<1>1. Sound(b, k) /\ Bounded(k, tests[b]) /\ tests[b] \in Nat /\ now \in Nat BY DEF IInv
<1>2. Breakers!Counted(b) \in Nat BY <1>1 DEF Breakers!Counted
<1>3. CASE Breakers!Allowed(k)
  <2>1. Sound(b, l) BY <1>1, <1>3, AllowedCounts
  <2>2. ASSUME l.state = "half_open" PROVE Breakers!Counted(b) <= l.trials + 1
    <3>1. CASE k.state = "open" /\ l.trials = 0
      BY <1>1, <3>1 DEF Breakers!Counted
    <3>2. CASE k.state = "half_open" /\ l.trials = k.trials + 1
      <4>1. Breakers!Counted(b) = tests[b] + 1 BY <3>2 DEF Breakers!Counted
      <4>2. k.trials \in Nat BY <1>1, CircuitTypes DEF Sound
      <4>3. QED BY <1>1, <3>2, <4>1, <4>2 DEF Bounded
    <3>3. QED BY <1>1, <1>3, <2>2, <3>1, <3>2, AllowedCounts
  <2>3. QED BY <1>2, <1>3, <2>1, <2>2 DEF Bounded, Sound
<1>4. CASE ~Breakers!Allowed(k)
  <2>1. Sound(b, l) /\ Follows(k, l) BY <1>1, <1>4, RefusedFollows
  <2>2. QED BY <1>1, <1>2, <1>4, <2>1 DEF Follows, Bounded, Sound
<1>5. QED BY <1>3, <1>4

\* A circuit that is asked still awaits what it let through, with the call that now runs.
LEMMA AskedAwaited ==
  ASSUME Breakers!BreakerAssumption, IInv, NEW b \in Decided
  PROVE  LET l == Breakers!Checked(breaker[b])  n == Cardinality(Reporters(b)) IN
         /\ Breakers!Allowed(breaker[b]) => Awaited(l, n + 1)
         /\ ~Breakers!Allowed(breaker[b]) => Awaited(l, n)
<1> DEFINE k == breaker[b]  l == Breakers!Checked(k)  n == Cardinality(Reporters(b))
<1>0. b \in Breakers!Breakers /\ now \in Nat /\ n \in Nat
  BY ReportersFinite DEF Decided, Breakers!Breakers, IInv
<1>1. Sound(b, k) /\ Awaited(k, n) BY <1>0 DEF IInv
<1>2. k.trials \in Nat /\ k.successes \in Nat BY <1>1, CircuitTypes DEF Sound
<1> HIDE DEF n
<1>3. CASE Breakers!Allowed(k)
  <2>1. Sound(b, l) BY <1>0, <1>1, <1>3, AllowedCounts
  <2>2. l.successes \in Nat /\ l.trials \in Nat BY <2>1, CircuitTypes DEF Sound
  <2>3. l.state = "half_open" =>
              \/ k.state = "open" /\ l.trials = 0
              \/ k.state = "half_open" /\ l.trials = k.trials + 1 /\ l.successes = k.successes
    BY <1>0, <1>1, <1>3, AllowedCounts
  <2>4. Awaited(l, n + 1) BY <1>0, <1>1, <1>2, <2>2, <2>3 DEF Awaited
  <2>5. QED BY <1>3, <2>4 DEF n
<1>4. CASE ~Breakers!Allowed(k)
  <2>1. Sound(b, l) /\ Follows(k, l) BY <1>0, <1>1, <1>4, RefusedFollows
  <2>2. l.successes \in Nat /\ l.trials \in Nat BY <2>1, CircuitTypes DEF Sound
  <2>3. Awaited(l, n) BY <1>0, <1>1, <1>2, <2>1, <2>2 DEF Awaited, Follows
  <2>4. QED BY <1>4, <2>3 DEF n
<1>5. QED BY <1>3, <1>4

LEMMA AskProviderKeeps ==
  ASSUME Breakers!BreakerAssumption, IInv, NEW c \in Calls, NEW p \in Providers, Breakers!AskProvider(c, p)
  PROVE  IInv'
<1>0. /\ p \in Breakers!Breakers /\ p \in Decided /\ p # Global /\ p \notin Sessions
      /\ running[c] = Nobody /\ c \notin orphans /\ Nobody \notin Breakers!Breakers
      /\ now' = now /\ orphans' = orphans
  BY BreakerFacts DEF Breakers!Breakers, Breakers!AskProvider, IInv, Decided
<1>1. breaker' = [breaker EXCEPT ![p] = Breakers!Checked(@)] BY DEF Breakers!AskProvider
<1>2. \A b \in Breakers!Breakers : breaker'[b] = IF b = p THEN Breakers!Checked(breaker[p]) ELSE breaker[b]
  BY <1>1 DEF IInv
<1>3. IF Breakers!Allowed(breaker[p])
      THEN running' = [running EXCEPT ![c] = p] /\ tests' = [tests EXCEPT ![p] = Breakers!Counted(p)]
      ELSE running' = running /\ tests' = tests
  BY DEF Breakers!AskProvider
<1>4. breaker' \in [Breakers!Breakers -> Circuit] BY <1>0, <1>1, AskedSound DEF IInv
<1>5. tests' \in [Breakers!Breakers -> Nat] BY <1>0, <1>3, AskedSound DEF IInv
<1>6. running' \in [Calls -> Providers \cup Sessions \cup {Nobody}] BY <1>3 DEF IInv
<1>7. \A d \in orphans' : running'[d] \in Providers BY <1>0, <1>3 DEF IInv
<1>8. \A b \in Breakers!Breakers : Sound(b, breaker'[b]) /\ Bounded(breaker'[b], tests'[b])
  BY <1>0, <1>2, <1>3, AskedSound DEF IInv
<1>s. \A b, k : Sound(b, k)' = Sound(b, k)
  BY <1>0 DEF Sound, FailCount, Breakers!Pruned, Breakers!Old
<1>9. \A b \in Decided \ {p} : Reporters(b)' = Reporters(b)
  <2>1. ASSUME NEW b \in Decided \ {p} PROVE Reporters(b)' = Reporters(b)
    <3>1. b # Nobody BY <1>0 DEF Decided, Breakers!Breakers
    <3>2. Nobody \notin Sessions BY <1>0 DEF Breakers!Breakers
    <3>3. QED BY <1>0, <1>3, <2>1, <3>1, <3>2 DEF Reporters, IInv
  <2>2. QED BY <2>1
<1>10. \A b \in Decided : Awaited(breaker'[b], Cardinality(Reporters(b)'))
  <2>1. ASSUME NEW b \in Decided, b # p
        PROVE  Awaited(breaker'[b], Cardinality(Reporters(b)'))
    <3>1. b \in Breakers!Breakers /\ Reporters(b)' = Reporters(b)
      BY <1>9, <2>1 DEF Decided, Breakers!Breakers
    <3>2. QED BY <1>2, <2>1, <3>1 DEF IInv
  <2>2. Awaited(breaker'[p], Cardinality(Reporters(p)'))
    <3>1. CASE Breakers!Allowed(breaker[p])
      <4>1. Reporters(p)' = Reporters(p) \cup {c}
        BY <1>0, <1>3, <3>1 DEF Reporters, IInv
      <4>2. c \notin Reporters(p)
        BY <1>0 DEF Reporters, Breakers!Breakers
      <4>3. Cardinality(Reporters(p)') = Cardinality(Reporters(p)) + 1
        BY <4>1, <4>2, ReportersFinite, FS_AddElement
      <4>4. QED BY <1>0, <1>2, <3>1, <4>3, AskedAwaited
    <3>2. CASE ~Breakers!Allowed(breaker[p])
      <4>1. Reporters(p)' = Reporters(p) BY <1>0, <1>3, <3>2 DEF Reporters
      <4>2. QED BY <1>0, <1>2, <3>2, <4>1, AskedAwaited
    <3>3. QED BY <3>1, <3>2
  <2>3. QED BY <2>1, <2>2
<1>11. QED
  BY <1>0, <1>4, <1>5, <1>6, <1>7, <1>8, <1>s, <1>10 DEF IInv, Bounded, Awaited, Decided

LEMMA AskSessionKeeps ==
  ASSUME Breakers!BreakerAssumption, IInv, NEW c \in Calls, NEW s \in Sessions, Breakers!AskSession(c, s)
  PROVE  IInv'
<1>0. /\ s \in Breakers!Breakers /\ Global \in Breakers!Breakers /\ s # Global /\ s \notin Decided
      /\ Global \in Decided /\ running[c] = Nobody /\ c \notin orphans /\ Nobody \notin Breakers!Breakers
      /\ now' = now /\ orphans' = orphans /\ Sessions \subseteq Breakers!Breakers
  BY BreakerFacts DEF Breakers!Breakers, Breakers!AskSession, IInv, Decided
<1>a. PICK a \in BOOLEAN : a <=> Breakers!Allowed(breaker[s]) OBVIOUS
<1>g. PICK g \in BOOLEAN : g <=> Breakers!Allowed(breaker[s]) /\ Breakers!Allowed(breaker[Global])
  OBVIOUS
<1>1. breaker' = IF a THEN [breaker EXCEPT ![s] = Breakers!Checked(breaker[s]),
                                           ![Global] = Breakers!Checked(breaker[Global])]
                      ELSE [breaker EXCEPT ![s] = Breakers!Checked(breaker[s])]
  BY <1>0, <1>a DEF Breakers!AskSession, IInv
<1>2. /\ breaker'[s] = Breakers!Checked(breaker[s])
      /\ breaker'[Global] = IF a THEN Breakers!Checked(breaker[Global]) ELSE breaker[Global]
      /\ \A b \in Breakers!Breakers \ {s, Global} : breaker'[b] = breaker[b]
  BY <1>0, <1>1 DEF IInv
<1>3. breaker' \in [Breakers!Breakers -> Circuit] BY <1>0, <1>1, AskedSound DEF IInv
<1>4. tests' = IF g THEN [tests EXCEPT ![s] = Breakers!Counted(s), ![Global] = Breakers!Counted(Global)]
               ELSE IF a THEN [tests EXCEPT ![s] = Breakers!Counted(s)] ELSE tests
  BY <1>a, <1>g DEF Breakers!AskSession
<1>5. /\ tests'[s] = IF a THEN Breakers!Counted(s) ELSE tests[s]
      /\ tests'[Global] = IF g THEN Breakers!Counted(Global) ELSE tests[Global]
      /\ \A b \in Breakers!Breakers \ {s, Global} : tests'[b] = tests[b]
  BY <1>0, <1>a, <1>g, <1>4 DEF IInv
<1>6. tests' \in [Breakers!Breakers -> Nat] BY <1>0, <1>4, AskedSound DEF IInv
<1>7. running' = IF g THEN [running EXCEPT ![c] = s] ELSE running
  BY <1>g DEF Breakers!AskSession
<1>8. running' \in [Calls -> Providers \cup Sessions \cup {Nobody}] BY <1>7 DEF IInv
<1>9. \A d \in orphans' : running'[d] \in Providers BY <1>0, <1>7 DEF IInv
<1>10. \A b \in Breakers!Breakers : Sound(b, breaker'[b]) /\ Bounded(breaker'[b], tests'[b])
  <2>1. Sound(s, breaker'[s]) /\ Bounded(breaker'[s], tests'[s])
    BY <1>0, <1>a, <1>2, <1>5, AskedSound
  <2>2. Sound(Global, breaker'[Global]) /\ Bounded(breaker'[Global], tests'[Global])
    BY <1>0, <1>a, <1>g, <1>2, <1>5, AskedSound DEF IInv
  <2>3. QED BY <1>2, <1>5, <2>1, <2>2 DEF IInv
<1>s. \A b, k : Sound(b, k)' = Sound(b, k)
  BY <1>0 DEF Sound, FailCount, Breakers!Pruned, Breakers!Old
<1>11. \A b \in Providers : Reporters(b)' = Reporters(b)
  <2>1. ASSUME NEW b \in Providers PROVE Reporters(b)' = Reporters(b)
    <3>1. b # Nobody /\ b # s /\ b # Global BY <1>0, BreakerFacts DEF Breakers!Breakers
    <3>2. QED BY <1>0, <1>7, <3>1 DEF Reporters, IInv
  <2>2. QED BY <2>1
<1>12. \A b \in Decided : Awaited(breaker'[b], Cardinality(Reporters(b)'))
  <2>1. ASSUME NEW b \in Providers PROVE Awaited(breaker'[b], Cardinality(Reporters(b)'))
    <3>1. b \in Decided /\ b # s /\ b # Global /\ b \in Breakers!Breakers
      BY <1>0, BreakerFacts DEF Decided, Breakers!Breakers
    <3>2. QED BY <1>2, <1>11, <3>1 DEF IInv
  <2>2. Awaited(breaker'[Global], Cardinality(Reporters(Global)'))
    <3>1. CASE g
      <4>1. Reporters(Global)' = Reporters(Global) \cup {c}
        BY <1>0, <1>7, <3>1 DEF Reporters, IInv
      <4>2. c \notin Reporters(Global) BY <1>0 DEF Reporters
      <4>3. Cardinality(Reporters(Global)') = Cardinality(Reporters(Global)) + 1
        BY <4>1, <4>2, ReportersFinite, FS_AddElement
      <4>4. QED BY <1>0, <1>a, <1>g, <1>2, <3>1, <4>3, AskedAwaited
    <3>2. CASE ~g
      <4>1. Reporters(Global)' = Reporters(Global) BY <1>0, <1>7, <3>2 DEF Reporters
      <4>2. CASE a BY <1>0, <1>a, <1>g, <1>2, <3>2, <4>1, <4>2, AskedAwaited
      <4>3. CASE ~a BY <1>0, <1>2, <4>1, <4>3 DEF IInv
      <4>4. QED BY <4>2, <4>3
    <3>3. QED BY <3>1, <3>2
  <2>3. QED BY <2>1, <2>2 DEF Decided
<1>13. QED
  BY <1>0, <1>3, <1>6, <1>8, <1>9, <1>10, <1>s, <1>12 DEF IInv, Bounded, Awaited, Decided
-----------------------------------------------------------------------------
\* A report takes one call from those that will report, and counts one success more.
LEMMA ReportedAwaited ==
  ASSUME Breakers!BreakerAssumption, NEW k \in Circuit, NEW l \in Circuit, NEW R, IsFiniteSet(R),
         NEW c \in R, Awaited(k, Cardinality(R)), Reported(k, l)
  PROVE  Awaited(l, Cardinality(R \ {c}))
<1>1. Cardinality(R \ {c}) = Cardinality(R) - 1 /\ Cardinality(R) \in Nat
  BY FS_RemoveElement, FS_CardinalityType
<1>2. k.trials \in Nat /\ k.successes \in Nat BY CircuitTypes
<1>3. QED BY <1>1, <1>2 DEF Awaited, Reported

\* Breakers that are as they were or reported to keep the invariant when the call is over.
LEMMA ReportKeeps ==
  ASSUME Breakers!BreakerAssumption, IInv, NEW c \in Calls, Breakers!Ends(c), running[c] # Nobody,
         breaker' \in [Breakers!Breakers -> Circuit],
         \A b \in Breakers!Breakers :
           \/ breaker'[b] = breaker[b]
           \/ Sound(b, breaker'[b]) /\ Reported(breaker[b], breaker'[b]),
         \A b \in Decided : breaker'[b] # breaker[b] => c \in Reporters(b),
         \A b \in Decided : c \in Reporters(b) => Reported(breaker[b], breaker'[b])
  PROVE  IInv'
<1>0. /\ running' = [running EXCEPT ![c] = Nobody] /\ orphans' = orphans \ {c}
      /\ now' = now /\ tests' = tests
  BY DEF Breakers!Ends
<1>1. running' \in [Calls -> Providers \cup Sessions \cup {Nobody}] /\ orphans' \subseteq Calls
  BY <1>0 DEF IInv
<1>2. \A d \in orphans' : running'[d] \in Providers BY <1>0 DEF IInv
<1>3. \A b \in Breakers!Breakers : Sound(b, breaker'[b]) BY DEF IInv
<1>4. \A b \in Breakers!Breakers : Bounded(breaker'[b], tests'[b])
  <2>1. ASSUME NEW b \in Breakers!Breakers PROVE Bounded(breaker'[b], tests[b])
    BY DEF IInv, Bounded, Reported
  <2>2. QED BY <1>0, <2>1
<1>5. \A b \in Decided : Reporters(b)' = Reporters(b) \ {c}
  <2>1. ASSUME NEW b \in Decided PROVE Reporters(b)' = Reporters(b) \ {c}
    <3>1. b # Nobody /\ Nobody \notin Sessions BY BreakerFacts DEF Decided, Breakers!Breakers
    <3>2. QED BY <1>0, <3>1 DEF Reporters, IInv
  <2>2. QED BY <2>1
<1>6. \A b \in Decided : Awaited(breaker'[b], Cardinality(Reporters(b)'))
  <2>1. ASSUME NEW b \in Decided PROVE Awaited(breaker'[b], Cardinality(Reporters(b)'))
    <3>0. b \in Breakers!Breakers /\ breaker[b] \in Circuit /\ Awaited(breaker[b], Cardinality(Reporters(b)))
      BY DEF Decided, Breakers!Breakers, IInv
    <3>1. CASE c \in Reporters(b)
      BY <1>5, <3>0, <3>1, ReportersFinite, ReportedAwaited
    <3>2. CASE c \notin Reporters(b)
      <4>1. Reporters(b)' = Reporters(b) BY <1>5, <3>2
      <4>2. breaker'[b] = breaker[b] BY <3>2
      <4>3. QED BY <3>0, <4>1, <4>2
    <3>3. QED BY <3>1, <3>2
  <2>2. QED BY <2>1
<1>s. \A b, k : Sound(b, k)' = Sound(b, k)
  BY <1>0 DEF Sound, FailCount, Breakers!Pruned, Breakers!Old
<1>7. tests' \in [Breakers!Breakers -> Nat] /\ now' \in Nat BY <1>0 DEF IInv
<1>8. QED BY <1>1, <1>2, <1>3, <1>4, <1>6, <1>7, <1>s DEF IInv, Bounded, Awaited, Decided

LEMMA ProviderAnswersKeeps ==
  ASSUME Breakers!BreakerAssumption, IInv, NEW c \in Calls, Breakers!ProviderAnswers(c)
  PROVE  IInv'
<1>p. PICK p \in Providers : p = running[c] BY DEF Breakers!ProviderAnswers
<1>0. /\ p \in Breakers!Breakers /\ p \in Decided /\ p \notin Sessions /\ p # Global /\ Breakers!Ends(c)
      /\ running[c] # Nobody /\ now \in Nat
  BY <1>p, BreakerFacts DEF Breakers!ProviderAnswers, Breakers!Breakers, Decided, IInv
<1>1. \A b \in Decided : c \in Reporters(b) <=> b = p /\ c \notin orphans
  BY <1>p, <1>0 DEF Reporters, Decided
<1>2. CASE c \in orphans
  <2>1. breaker' = breaker BY <1>2 DEF Breakers!ProviderAnswers
  <2>2. QED BY <1>0, <1>1, <1>2, <2>1, ReportKeeps DEF IInv
<1>3. CASE c \notin orphans
  <2>1. PICK k \in {Breakers!Succeeded(p, breaker[p]), Breakers!Slow(p, breaker[p]), Breakers!Failed(p, breaker[p])} :
          breaker' = [breaker EXCEPT ![p] = k]
    BY <1>p, <1>3 DEF Breakers!ProviderAnswers
  <2>2. Sound(p, k) /\ Reported(breaker[p], k)
    BY <1>0, SucceededReports, SlowReports, FailedReports DEF IInv
  <2>3. \A b \in Breakers!Breakers : breaker'[b] = IF b = p THEN k ELSE breaker[b] BY <2>1 DEF IInv
  <2>4. breaker' \in [Breakers!Breakers -> Circuit] BY <2>1, <2>2 DEF IInv, Sound
  <2>5. \A b \in Decided : b \in Breakers!Breakers BY DEF Decided, Breakers!Breakers
  <2>6. QED BY <1>0, <1>1, <1>3, <2>2, <2>3, <2>4, <2>5, ReportKeeps
<1>4. QED BY <1>2, <1>3

LEMMA BashEndsKeeps ==
  ASSUME Breakers!BreakerAssumption, IInv, NEW c \in Calls, Breakers!BashEnds(c)
  PROVE  IInv'
<1>p. PICK s \in Sessions : s = running[c] BY DEF Breakers!BashEnds
<1>0. /\ s \in Breakers!Breakers /\ s \notin Decided /\ s # Global /\ Global \in Breakers!Breakers
      /\ Global \in Decided /\ Breakers!Ends(c) /\ running[c] # Nobody /\ now \in Nat
      /\ c \notin orphans /\ s \notin Providers
  BY <1>p, BreakerFacts DEF Breakers!BashEnds, Breakers!Breakers, Decided, IInv
<1>1. \A b \in Decided : c \in Reporters(b) <=> b = Global
  BY <1>p, <1>0 DEF Reporters, Decided
<1>2. ASSUME NEW k, NEW g, Sound(s, k), Sound(Global, g), Reported(breaker[s], k),
             Reported(breaker[Global], g),
             breaker' = [breaker EXCEPT ![s] = k, ![Global] = g]
      PROVE  IInv'
  <2>1. \A b \in Breakers!Breakers : breaker'[b] = IF b = s THEN k ELSE IF b = Global THEN g ELSE breaker[b]
    BY <1>0, <1>2 DEF IInv
  <2>2. breaker' \in [Breakers!Breakers -> Circuit] BY <1>2 DEF IInv, Sound
  <2>3. \A b \in Decided : b \in Breakers!Breakers /\ b # s BY <1>0 DEF Decided, Breakers!Breakers
  <2>4. ASSUME NEW b \in Breakers!Breakers
        PROVE  breaker'[b] = breaker[b] \/ (Sound(b, breaker'[b]) /\ Reported(breaker[b], breaker'[b]))
    <3>1. breaker'[s] = k /\ breaker'[Global] = g BY <1>0, <2>1
    <3>2. CASE b = s BY <1>2, <3>1, <3>2
    <3>3. CASE b = Global BY <1>2, <3>1, <3>3
    <3>4. CASE b # s /\ b # Global BY <2>1, <3>4
    <3>5. QED BY <3>2, <3>3, <3>4
  <2>5. \A b \in Decided : c \in Reporters(b) => Reported(breaker[b], breaker'[b])
    BY <1>0, <1>1, <1>2, <2>1
  <2>6. \A b \in Decided : breaker'[b] # breaker[b] => c \in Reporters(b)
    BY <1>1, <2>1, <2>3
  <2>7. QED BY <1>0, <2>2, <2>4, <2>5, <2>6, ReportKeeps
<1>3. CASE breaker' = [breaker EXCEPT ![s] = Breakers!Succeeded(s, breaker[s]),
                                      ![Global] = Breakers!Succeeded(Global, breaker[Global])]
  BY <1>0, <1>2, <1>3, SucceededReports DEF IInv
<1>4. CASE breaker' = [breaker EXCEPT ![s] = Breakers!Failed(s, breaker[s]),
                                      ![Global] = Breakers!Failed(Global, breaker[Global])]
  BY <1>0, <1>2, <1>4, FailedReports DEF IInv
<1>5. \/ breaker' = [breaker EXCEPT ![s] = Breakers!Succeeded(s, @), ![Global] = Breakers!Succeeded(Global, @)]
      \/ breaker' = [breaker EXCEPT ![s] = Breakers!Failed(s, @), ![Global] = Breakers!Failed(Global, @)]
  BY <1>p DEF Breakers!BashEnds
<1>6. QED BY <1>0, <1>3, <1>4, <1>5 DEF IInv
-----------------------------------------------------------------------------
\* A removed breaker starts anew, and what still runs reports to the old one.
LEMMA StaleRemovedKeeps == ASSUME Breakers!BreakerAssumption, IInv, Breakers!CleanupStale PROVE IInv'
<1>1. PICK stale \in SUBSET (Providers \cup Sessions) :
        /\ breaker' = [b \in Breakers!Breakers |-> IF b \in stale THEN Breakers!Fresh ELSE breaker[b]]
        /\ tests' = [b \in Breakers!Breakers |-> IF b \in stale THEN 0 ELSE tests[b]]
        /\ orphans' = orphans \cup {c \in Calls : running[c] \in stale \cap Providers}
        /\ now' = now /\ running' = running
  BY DEF Breakers!CleanupStale
<1>2. \A b \in Breakers!Breakers : Sound(b, Breakers!Fresh) /\ Breakers!Fresh \in Circuit /\ Breakers!Fresh.state = "closed"
  BY FreshSound DEF IInv
<1>3. breaker' \in [Breakers!Breakers -> Circuit] /\ tests' \in [Breakers!Breakers -> Nat]
  BY <1>1, <1>2 DEF IInv
<1>4. orphans' \subseteq Calls /\ \A c \in orphans' : running'[c] \in Providers
  BY <1>1 DEF IInv
<1>5. \A b \in Breakers!Breakers : Sound(b, breaker'[b]) /\ Bounded(breaker'[b], tests'[b])
  BY <1>1, <1>2 DEF IInv, Bounded
<1>s. \A b, k : Sound(b, k)' = Sound(b, k)
  BY <1>1 DEF Sound, FailCount, Breakers!Pruned, Breakers!Old
<1>6. \A b \in Decided \ stale : Reporters(b)' = Reporters(b)
  <2>1. ASSUME NEW b \in Decided \ stale PROVE Reporters(b)' = Reporters(b)
    <3>1. ASSUME NEW c \in Calls, running[c] = b \/ (b = Global /\ running[c] \in Sessions)
          PROVE  running[c] \notin stale \cap Providers
      BY <2>1, <3>1, BreakerFacts
    <3>2. QED BY <1>1, <3>1 DEF Reporters
  <2>2. QED BY <2>1
<1>7. \A b \in Decided : Awaited(breaker'[b], Cardinality(Reporters(b)'))
  <2>1. ASSUME NEW b \in Decided PROVE Awaited(breaker'[b], Cardinality(Reporters(b)'))
    <3>0. b \in Breakers!Breakers BY DEF Decided, Breakers!Breakers
    <3>1. CASE b \in stale BY <1>1, <1>2, <3>0, <3>1 DEF Awaited
    <3>2. CASE b \notin stale BY <1>1, <1>6, <3>0, <3>2 DEF IInv
    <3>3. QED BY <3>1, <3>2
  <2>2. QED BY <2>1
<1>8. QED BY <1>1, <1>3, <1>4, <1>5, <1>s, <1>7 DEF IInv, Bounded, Awaited, Decided

\* As time passes fewer failures count.
LEMMA TickKeeps == ASSUME Breakers!BreakerAssumption, IInv, Breakers!Tick PROVE IInv'
<1>0. /\ now' = now + 1 /\ breaker' = breaker /\ running' = running /\ orphans' = orphans
      /\ tests' = tests /\ now \in Nat /\ now' \in Nat
  BY DEF Breakers!Tick, IInv
<1>1. ASSUME NEW b \in Breakers!Breakers, NEW k \in Circuit, Sound(b, k) PROVE Sound(b, k)'
  <2> DEFINE f == k.failures  n == Cardinality(OldAt(f, now))  m == Cardinality(OldAt(f, now + 1))
             y == SubSeq(f, m + 1, Len(f))
  <2>1. f \in Seq(Nat) /\ now + 1 \in Nat /\ Len(f) \in Nat BY <1>0 DEF Circuit
  <2>2. IsFiniteSet(OldAt(f, now + 1)) /\ m \in 0 .. Len(f) /\ y \in Seq(Nat) /\ Len(y) = Len(f) - m
    BY <2>1, SuffixIs
  <2>3. OldAt(f, now) \subseteq OldAt(f, now + 1)
    <3>1. FailureWindow \in Nat /\ \A i \in DOMAIN f : f[i] \in Nat BY <2>1, BreakerFacts
    <3>2. QED BY <1>0, <3>1 DEF OldAt
  <2>4. n <= m BY <2>2, <2>3, FS_Subset
  <2>5. n \in 0 .. Len(f) BY <1>0, <2>1, SuffixIs
  <2>6. FailCount(k) = Len(f) - n BY <1>0, PrunedIs
  <2>7. Breakers!Old(f)' = OldAt(f, now + 1) BY <1>0 DEF Breakers!Old, OldAt
  <2>8. Breakers!Pruned(k)' = [k EXCEPT !.failures = y]
    BY <2>7, FiniteBreakers DEF Breakers!Pruned
  <2> HIDE DEF f, n, m, y
  <2>9. (Breakers!Pruned(k)').failures = y BY <2>8 DEF Circuit
  <2>10. FailCount(k)' = Len(y) BY <2>9 DEF FailCount
  <2>11. Threshold[b] \in Nat BY BreakerFacts
  <2>12. FailCount(k)' <= FailCount(k) /\ FailCount(k)' \in Nat /\ FailCount(k) \in Nat
    BY <2>1, <2>2, <2>4, <2>5, <2>6, <2>10
  <2>13. k.state = "closed" => FailCount(k)' < Threshold[b]
    BY <1>1, <2>11, <2>12 DEF Sound
  <2>14. QED BY <1>1, <2>13 DEF Sound
<1>2. \A b \in Breakers!Breakers : Sound(b, breaker[b])' BY <1>0, <1>1 DEF IInv
<1>3. \A b \in Decided : Reporters(b)' = Reporters(b) BY <1>0 DEF Reporters
<1>4. QED BY <1>0, <1>2, <1>3 DEF IInv, Bounded, Awaited, Decided

LEMMA InitHolds == ASSUME Breakers!BreakerAssumption, Breakers!Init PROVE IInv
<1>0. now \in Nat /\ \A b \in Breakers!Breakers : Sound(b, Breakers!Fresh) /\ Breakers!Fresh \in Circuit /\ Breakers!Fresh.state = "closed"
  BY FreshSound DEF Breakers!Init
<1>1. \A b \in Breakers!Breakers : breaker[b] = Breakers!Fresh BY DEF Breakers!Init
<1>2. breaker \in [Breakers!Breakers -> Circuit] BY <1>0 DEF Breakers!Init
<1>3. \A b \in Breakers!Breakers : Sound(b, breaker[b]) /\ Bounded(breaker[b], tests[b])
  BY <1>0, <1>1 DEF Bounded
<1>4. \A b \in Decided : Awaited(breaker[b], Cardinality(Reporters(b)))
  BY <1>0, <1>1 DEF Awaited, Decided, Breakers!Breakers
<1>5. QED BY <1>0, <1>2, <1>3, <1>4 DEF IInv, Breakers!Init

LEMMA StepKeeps == ASSUME Breakers!BreakerAssumption, IInv, [Breakers!Next]_(Breakers!vars) PROVE IInv'
<1>1. CASE UNCHANGED Breakers!vars
  <2>1. /\ now' = now /\ breaker' = breaker /\ running' = running /\ orphans' = orphans
        /\ tests' = tests
    BY <1>1 DEF Breakers!vars
  <2>2. \A b, k : Sound(b, k)' = Sound(b, k)
    BY <2>1 DEF Sound, FailCount, Breakers!Pruned, Breakers!Old
  <2>3. \A b : Reporters(b)' = Reporters(b) BY <2>1 DEF Reporters
  <2>4. QED BY <2>1, <2>2, <2>3 DEF IInv, Bounded, Awaited, Decided
<1>2. QED BY <1>1, AskProviderKeeps, AskSessionKeeps, ProviderAnswersKeeps, BashEndsKeeps,
             StaleRemovedKeeps, TickKeeps DEF Breakers!Next
-----------------------------------------------------------------------------
LEMMA IInvImplies == ASSUME Breakers!BreakerAssumption, IInv PROVE CircuitsDecide
<1>1. Breakers!TypeOK BY DEF IInv, Breakers!TypeOK, Circuit
<1>2. Breakers!TestsBounded
  <2>1. ASSUME NEW b \in Breakers!Breakers, breaker[b].state = "half_open"
        PROVE  tests[b] <= HalfOpenMaxCalls + 1
    <3>1. /\ tests[b] <= breaker[b].trials + 1 /\ breaker[b].trials <= HalfOpenMaxCalls
          /\ breaker[b].trials \in Nat /\ tests[b] \in Nat
      BY <2>1, CircuitTypes DEF IInv, Bounded, Sound
    <3>2. QED BY <3>1, BreakerFacts
  <2>2. QED BY <2>1 DEF Breakers!TestsBounded
<1>3. Breakers!ClosedBelowThreshold BY DEF IInv, Sound, FailCount, Breakers!ClosedBelowThreshold
<1>4. Breakers!ProvidersRecover
  <2>1. ASSUME NEW b \in Decided, Breakers!LockedOut(b) PROVE FALSE
    <3>1. /\ breaker[b].state = "half_open" /\ breaker[b].trials >= HalfOpenMaxCalls
          /\ ~Breakers!Reporting(b)
      BY <2>1 DEF Breakers!LockedOut
    <3>2. Reporters(b) = {} BY <3>1 DEF Breakers!Reporting, Reporters
    <3>3. Cardinality(Reporters(b)) = 0 BY <3>2, FS_EmptySet
    <3>4. b \in Breakers!Breakers BY DEF Decided, Breakers!Breakers
    <3>5. /\ breaker[b].trials <= breaker[b].successes + 0
          /\ breaker[b].successes < SuccessThreshold
          /\ breaker[b].successes \in Nat /\ breaker[b].trials \in Nat
      BY <3>1, <3>3, <3>4, CircuitTypes DEF IInv, Awaited, Sound
    <3>6. QED BY <3>1, <3>5, BreakerFacts
  <2>2. QED BY <2>1 DEF Breakers!ProvidersRecover, Decided
<1>5. QED BY <1>1, <1>2, <1>3, <1>4 DEF CircuitsDecide, Breakers!CircuitsDecide

\* For every number of calls, providers and sessions, all thresholds and times: a closed circuit
\* stays below its threshold, a half-open one lets at most HalfOpenMaxCalls + 1 calls through
\* before it opens or closes, and that of a provider, and the global one, never waits for
\* reports that cannot come (canExecute, recordSuccess, recordFailure, recordSlowCall).
THEOREM CircuitsDecideHolds == Breakers!Spec => []CircuitsDecide
<1> USE GuardsAssumption DEF GuardsAssumption
<1>1. Breakers!Init => IInv BY InitHolds
<1>2. IInv /\ [Breakers!Next]_(Breakers!vars) => IInv' BY StepKeeps
<1>3. IInv => CircuitsDecide BY IInvImplies
<1>4. QED BY <1>1, <1>2, <1>3, PTL DEF Breakers!Spec
=============================================================================
