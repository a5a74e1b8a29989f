------------------------- MODULE DurableJournalProofs -------------------------
(***************************************************************************)
(* What a start recovers is what the clients were told, compaction keeps   *)
(* it so, no command runs twice across restarts, and the lock file stays   *)
(* while its owner writes.                                                 *)
(***************************************************************************)
EXTENDS DurableJournal, FiniteSetTheorems, WellFoundedInduction, TLAPS

(* The last position of a set of positions. *)

LEMMA LastExists ==
  ASSUME NEW n \in Nat, NEW S \in SUBSET (1 .. n), S # {}
  PROVE  \E x \in S : \A y \in S : x >= y
<1> DEFINE Less == {p \in Nat \X Nat : p[1] < p[2]}
           T == {n - x : x \in S}
<1>1. Less = OpToRel(<, Nat) BY DEF OpToRel
<1>2. IsWellFoundedOn(Less, Nat) BY <1>1, NatLessThanWellFounded
<1>0. \A x \in S : x \in Nat /\ n - x \in Nat OBVIOUS
<1>3. T \subseteq Nat /\ T # {} BY <1>0
<1> HIDE DEF Less
<1>4. PICK t \in T : \A y \in T : ~(<<y, t>> \in Less) BY <1>2, <1>3, WFMin
<1>5. PICK x \in S : t = n - x BY <1>4
<1>6. \A y \in S : ~(n - y < n - x)
  <2> SUFFICES ASSUME NEW y \in S, n - y < n - x PROVE FALSE OBVIOUS
  <2>1. <<n - y, t>> \in Less BY <1>3, <1>5 DEF Less
  <2>2. QED BY <1>4, <2>1
<1>7. QED BY <1>6

LEMMA LastIs ==
  ASSUME NEW n \in Nat, NEW S \in SUBSET (1 .. n), S # {}
  PROVE  Max(S) \in S /\ \A y \in S : Max(S) >= y
BY LastExists DEF Max

LEMMA LastUnique ==
  ASSUME NEW S \in SUBSET Nat, NEW x \in S, \A y \in S : x >= y
  PROVE  Max(S) = x
<1>1. Max(S) \in S /\ \A y \in S : Max(S) >= y BY DEF Max
<1>2. PICK m : m = Max(S) OBVIOUS
<1>3. m \in Nat /\ x \in Nat /\ m >= x /\ x >= m BY <1>1, <1>2
<1>4. QED BY <1>2, <1>3
-----------------------------------------------------------------------------
(* What a start reads in a file, after an append and after a compaction. *)

Lines == {e \in [id : Ids, phase : Phases, answer : Answers \cup {NoAnswer}] :
            e.phase = "finished" => e.answer # NoAnswer}

LEMMA OutcomePlace ==
  ASSUME NEW f \in Seq(Lines), NEW i \in Ids, OutcomesAt(f, i) # {}
  PROVE  /\ Max(OutcomesAt(f, i)) \in 1 .. Len(f)
         /\ f[Max(OutcomesAt(f, i))].id = i /\ IsOutcome(f[Max(OutcomesAt(f, i))])
         /\ \A n \in OutcomesAt(f, i) : Max(OutcomesAt(f, i)) >= n
<1>1. OutcomesAt(f, i) \in SUBSET (1 .. Len(f)) /\ Len(f) \in Nat BY DEF OutcomesAt
<1>2. Max(OutcomesAt(f, i)) \in OutcomesAt(f, i) BY <1>1, LastIs
<1>3. QED BY <1>1, <1>2, LastIs DEF OutcomesAt

LEMMA AppendReads ==
  ASSUME NEW f \in Seq(Lines), NEW e \in Lines
  PROVE  /\ Append(f, e) \in Seq(Lines) /\ Len(Append(f, e)) = Len(f) + 1
         /\ \A n \in 1 .. Len(f) : Append(f, e)[n] = f[n]
         /\ Append(f, e)[Len(f) + 1] = e
OBVIOUS

LEMMA AppendInFlight ==
  ASSUME NEW f \in Seq(Lines), NEW e \in Lines
  PROVE  InFlightIn(Append(f, e)) =
           IF e.phase = "finished" THEN InFlightIn(f) \ {e.id} ELSE InFlightIn(f) \cup {e.id}
<1> DEFINE g == Append(f, e)  last == Len(f) + 1
           Begun(h, n, i) == h[n].id = i /\ h[n].phase # "finished"
<1>1. /\ Len(f) \in Nat /\ Len(g) = last /\ g[last] = e /\ e.id \in Ids
      /\ \A n \in 1 .. Len(f) : g[n] = f[n]
  BY AppendReads DEF Lines
<1> HIDE DEF g
<1>2. ASSUME NEW i \in Ids, i # e.id PROVE i \in InFlightIn(g) <=> i \in InFlightIn(f)
  BY <1>1, <1>2 DEF InFlightIn
<1>3. CASE e.phase = "finished"
  <2>1. e.id \notin InFlightIn(g) BY <1>1, <1>3 DEF InFlightIn
  <2>2. QED BY <1>2, <1>3, <2>1 DEF InFlightIn, g
<1>4. CASE e.phase # "finished"
  <2>1. e.id \in InFlightIn(g) BY <1>1, <1>4 DEF InFlightIn
  <2>2. QED BY <1>2, <1>4, <2>1 DEF InFlightIn, g
<1>5. QED BY <1>3, <1>4

LEMMA AppendOutcome ==
  ASSUME NEW f \in Seq(Lines), NEW e \in Lines, NEW i \in Ids
  PROVE  OutcomeIn(Append(f, e), i) =
           IF e.id = i /\ IsOutcome(e) THEN e.answer ELSE OutcomeIn(f, i)
<1> DEFINE g == Append(f, e)
<1>1. /\ Len(f) \in Nat /\ Len(g) = Len(f) + 1 /\ g[Len(f) + 1] = e
      /\ \A n \in 1 .. Len(f) : g[n] = f[n]
  BY AppendReads
<1> HIDE DEF g
<1>2. CASE e.id = i /\ IsOutcome(e)
  <2>1. /\ OutcomesAt(g, i) \in SUBSET Nat /\ Len(f) + 1 \in OutcomesAt(g, i)
        /\ \A n \in OutcomesAt(g, i) : Len(f) + 1 >= n
    BY <1>1, <1>2 DEF OutcomesAt
  <2>2. Max(OutcomesAt(g, i)) = Len(f) + 1 BY <2>1, LastUnique
  <2>3. QED BY <1>1, <1>2, <2>1, <2>2 DEF OutcomeIn, g
<1>3. CASE ~(e.id = i /\ IsOutcome(e))
  <2>1. OutcomesAt(g, i) = OutcomesAt(f, i) BY <1>1, <1>3 DEF OutcomesAt
  <2>2. OutcomesAt(f, i) # {} => g[Max(OutcomesAt(f, i))] = f[Max(OutcomesAt(f, i))]
    BY <1>1, OutcomePlace
  <2>3. QED BY <1>3, <2>1, <2>2 DEF OutcomeIn, g
<1>4. QED BY <1>2, <1>3
-----------------------------------------------------------------------------
(* Compaction *)

IsCompaction(f, k, kept, g) ==
  kept \in Orders(Kept(f, k)) /\ g = [n \in DOMAIN kept |-> f[kept[n]]]

LEMMA KeptPlaces ==
  ASSUME NEW f \in Seq(Lines), NEW k
  PROVE  /\ Kept(f, k) \in SUBSET (1 .. Len(f)) /\ IsFiniteSet(Kept(f, k))
         /\ Terminals(f) \in SUBSET (1 .. Len(f)) /\ IsFiniteSet(Terminals(f))
<1>1. Len(f) \in Nat /\ IsFiniteSet(1 .. Len(f)) BY FS_Interval
<1>2. Kept(f, k) \in SUBSET (1 .. Len(f)) /\ Terminals(f) \in SUBSET (1 .. Len(f))
  BY DEF Kept, KeptInFlight, Newest, Terminals, LastOf
<1>3. QED BY <1>1, <1>2, FS_Subset

\* A compaction takes the lines kept, and no others, in their order.
LEMMA CompactionShape ==
  ASSUME NEW f \in Seq(Lines), NEW k, NEW kept, NEW g, IsCompaction(f, k, kept, g)
  PROVE  /\ g \in Seq(Lines) /\ Len(g) = Cardinality(Kept(f, k))
         /\ \A n \in 1 .. Len(g) : kept[n] \in Kept(f, k) /\ g[n] = f[kept[n]]
         /\ \A m, n \in 1 .. Len(g) : m < n => kept[m] < kept[n]
         /\ \A x \in Kept(f, k) : \E n \in 1 .. Len(g) : kept[n] = x
<1> DEFINE K == Kept(f, k)  len == Cardinality(K)
<1>1. len \in Nat /\ K \subseteq 1 .. Len(f) BY KeptPlaces, FS_CardinalityType
<1> HIDE DEF K, len
<1>2. /\ kept \in [1 .. len -> K] /\ DOMAIN kept = 1 .. len
      /\ \A m, n \in 1 .. len : m < n => kept[m] < kept[n]
      /\ \A x \in K : \E n \in 1 .. len : kept[n] = x
  BY DEF IsCompaction, Orders, K, len
<1>3. g = [n \in 1 .. len |-> f[kept[n]]] BY <1>2 DEF IsCompaction
<1>4. \A n \in 1 .. len : f[kept[n]] \in Lines
  <2>1. \A n \in 1 .. len : kept[n] \in 1 .. Len(f) BY <1>1, <1>2
  <2>2. \A m \in 1 .. Len(f) : f[m] \in Lines OBVIOUS
  <2>3. QED BY <2>1, <2>2
<1>5. g \in Seq(Lines) /\ Len(g) = len BY <1>1, <1>3, <1>4
<1>6. QED BY <1>2, <1>3, <1>5 DEF K, len

\* Of a command in flight a compaction keeps the last line, of another at most its outcome.
LEMMA CompactionInFlight ==
  ASSUME NEW f \in Seq(Lines), NEW k, NEW kept, NEW g, IsCompaction(f, k, kept, g)
  PROVE  InFlightIn(g) = InFlightIn(f)
<1>1. Len(f) \in Nat /\ Len(g) \in Nat BY CompactionShape
<1>2. \A n \in 1 .. Len(g) : kept[n] \in KeptInFlight(f) \/ kept[n] \in Terminals(f)
  BY CompactionShape DEF Kept, Newest
<1>3. ASSUME NEW i \in InFlightIn(g) PROVE i \in InFlightIn(f)
  <2>1. PICK n \in 1 .. Len(g) : g[n].id = i /\ g[n].phase # "finished"
    BY DEF InFlightIn
  <2>2. g[n] = f[kept[n]] BY CompactionShape
  <2>3. kept[n] \notin Terminals(f) BY <2>1, <2>2 DEF Terminals, LastOf, IsOutcome
  <2>4. kept[n] \in KeptInFlight(f) BY <1>2, <2>3
  <2>5. QED BY <2>1, <2>2, <2>4 DEF KeptInFlight, LastOf
<1>4. ASSUME NEW i \in InFlightIn(f) PROVE i \in InFlightIn(g)
  <2> DEFINE Own == {n \in 1 .. Len(f) : f[n].id = i /\ f[n].phase # "finished"}
  <2>1. i \in Ids /\ Own \in SUBSET (1 .. Len(f)) /\ Own # {} BY DEF InFlightIn
  <2>2. PICK x \in Own : \A y \in Own : x >= y BY <1>1, <2>1, LastExists
  <2>3. x \in KeptInFlight(f) BY <1>1, <2>1, <2>2 DEF KeptInFlight, LastOf
  <2>8. x \in Kept(f, k) BY <2>3 DEF Kept
  <2>4. PICK n \in 1 .. Len(g) : kept[n] = x BY <2>8, CompactionShape
  <2>5. g[n].id = i /\ g[n].phase # "finished" BY <2>2, <2>4, CompactionShape
  <2>6. \A m \in 1 .. Len(g) : g[m].id = i => g[m].phase # "finished"
    <3> SUFFICES ASSUME NEW m \in 1 .. Len(g), g[m].id = i PROVE g[m].phase # "finished"
      OBVIOUS
    <3>1. g[m] = f[kept[m]] BY CompactionShape
    <3>2. kept[m] \notin Terminals(f) BY <3>1 DEF Terminals, LastOf
    <3>3. kept[m] \in KeptInFlight(f) BY <1>2, <3>2
    <3>4. QED BY <3>1, <3>3 DEF KeptInFlight, LastOf
  <2>7. QED BY <1>1, <2>1, <2>5, <2>6 DEF InFlightIn
<1>5. QED BY <1>3, <1>4

\* The outcomes a compaction leaves: for each command its last one, if that is new enough.
LEMMA CompactionOutcomes ==
  ASSUME NEW f \in Seq(Lines), NEW k, NEW kept, NEW g, IsCompaction(f, k, kept, g), NEW i \in Ids
  PROVE  /\ \A n \in OutcomesAt(g, i) :
              /\ OutcomesAt(f, i) # {} /\ kept[n] = Max(OutcomesAt(f, i))
              /\ kept[n] \in Newest(Terminals(f), k) /\ i \notin InFlightIn(f)
         /\ (OutcomesAt(f, i) # {} /\ Max(OutcomesAt(f, i)) \in Newest(Terminals(f), k))
              => OutcomesAt(g, i) # {}
<1>1. Len(f) \in Nat /\ Len(g) \in Nat BY CompactionShape
<1>2. ASSUME NEW n \in OutcomesAt(g, i)
      PROVE  /\ OutcomesAt(f, i) # {} /\ kept[n] = Max(OutcomesAt(f, i))
             /\ kept[n] \in Newest(Terminals(f), k) /\ i \notin InFlightIn(f)
  <2>1. n \in 1 .. Len(g) /\ g[n].id = i /\ IsOutcome(g[n]) BY DEF OutcomesAt
  <2>2. g[n] = f[kept[n]] /\ kept[n] \in Kept(f, k) BY <2>1, CompactionShape
  <2>3. kept[n] \notin KeptInFlight(f)
    BY <2>1, <2>2 DEF KeptInFlight, LastOf, IsOutcome
  <2>4. kept[n] \in Newest(Terminals(f), k) /\ kept[n] \in Terminals(f)
    BY <2>2, <2>3 DEF Kept, Newest
  <2>5. i \notin InFlightIn(f) BY <2>1, <2>2, <2>4 DEF Terminals, LastOf
  <2>6. kept[n] \in OutcomesAt(f, i)
    BY <2>1, <2>2, <2>4 DEF Terminals, LastOf, OutcomesAt
  <2>7. \A m \in OutcomesAt(f, i) : m <= kept[n]
    BY <2>1, <2>2, <2>4, <2>5 DEF Terminals, LastOf, OutcomesAt
  <2>8. OutcomesAt(f, i) \in SUBSET Nat /\ \A m \in OutcomesAt(f, i) : kept[n] >= m
    BY <1>1, <2>6, <2>7 DEF OutcomesAt
  <2>9. QED BY <2>4, <2>5, <2>6, <2>8, LastUnique
<1>3. ASSUME OutcomesAt(f, i) # {}, Max(OutcomesAt(f, i)) \in Newest(Terminals(f), k)
      PROVE  OutcomesAt(g, i) # {}
  <2>5. Max(OutcomesAt(f, i)) \in Kept(f, k) BY <1>3 DEF Kept
  <2>1. PICK n \in 1 .. Len(g) : kept[n] = Max(OutcomesAt(f, i)) BY <2>5, CompactionShape
  <2>2. g[n] = f[kept[n]] BY CompactionShape
  <2>3. n \in OutcomesAt(g, i) BY <1>3, <2>1, <2>2, OutcomePlace DEF OutcomesAt
  <2>4. QED BY <2>3
<1>4. QED BY <1>2, <1>3

LEMMA CompactionRecovers ==
  ASSUME NEW f \in Seq(Lines), NEW k, NEW kept, NEW g, IsCompaction(f, k, kept, g), NEW i \in Ids
  PROVE  /\ OutcomeIn(g, i) \in {OutcomeIn(f, i), NoAnswer}
         /\ Recovered(g, i) \in {Recovered(f, i), NoAnswer}
<1>1. ASSUME OutcomesAt(g, i) # {} PROVE OutcomeIn(g, i) = OutcomeIn(f, i)
  <2>1. g \in Seq(Lines) BY CompactionShape
  <2>2. PICK n \in OutcomesAt(g, i) : n = Max(OutcomesAt(g, i))
    BY <1>1, <2>1, OutcomePlace DEF OutcomesAt
  <2>3. OutcomesAt(f, i) # {} /\ kept[n] = Max(OutcomesAt(f, i)) BY CompactionOutcomes
  <2>4. g[n] = f[kept[n]] BY CompactionShape DEF OutcomesAt
  <2>5. QED BY <1>1, <2>2, <2>3, <2>4 DEF OutcomeIn
<1>2. OutcomeIn(g, i) \in {OutcomeIn(f, i), NoAnswer} BY <1>1 DEF OutcomeIn
<1>3. QED BY <1>2, CompactionInFlight DEF Recovered

\* Compaction drops the oldest outcomes first.
LEMMA CompactionDropsOldest ==
  ASSUME NEW f \in Seq(Lines), NEW k \in Nat, NEW kept, NEW g, IsCompaction(f, k, kept, g),
         NEW i \in Ids, NEW j \in Ids, i \notin InFlightIn(f),
         Recovered(g, i) # NoAnswer, Recovered(g, j) = NoAnswer,
         OutcomesAt(f, i) # {}, OutcomesAt(f, j) # {}
  PROVE  Max(OutcomesAt(f, i)) > Max(OutcomesAt(f, j))
<1> DEFINE T == Terminals(f)  p == Max(OutcomesAt(f, i))  q == Max(OutcomesAt(f, j))
           Above(x) == {m \in T : m > x}
<1>1. InFlightIn(g) = InFlightIn(f) BY CompactionInFlight
<1>2. g \in Seq(Lines) BY CompactionShape
<1>3. j \notin InFlightIn(f) /\ OutcomeIn(g, j) = NoAnswer
  BY <1>1 DEF Recovered, NoAnswer
<1>4. OutcomesAt(g, i) # {} BY <1>1 DEF Recovered, OutcomeIn
<1>5. p \in Newest(T, k)
  <2>1. PICK n \in OutcomesAt(g, i) : TRUE BY <1>4
  <2>2. QED BY <2>1, CompactionOutcomes
<1>6. OutcomesAt(g, j) = {}
  <2> SUFFICES ASSUME OutcomesAt(g, j) # {} PROVE FALSE OBVIOUS
  <2>1. PICK e \in Lines : IsOutcome(e) /\ OutcomeIn(g, j) = e.answer
    BY <1>2, OutcomePlace DEF OutcomeIn
  <2>2. QED BY <1>3, <2>1 DEF Lines, IsOutcome
<1>7. q \notin Newest(T, k) BY <1>6, CompactionOutcomes
<1>8. p \in 1 .. Len(f) /\ q \in 1 .. Len(f) /\ f[p].id = i /\ f[q].id = j /\ Len(f) \in Nat
  BY OutcomePlace
<1>9. i # j BY DEF Recovered
<1>10. q \in T
  <2>1. \A m \in OutcomesAt(f, j) : m <= q BY <1>8, OutcomePlace DEF OutcomesAt
  <2>2. QED BY <1>3, <1>8, <2>1, OutcomePlace DEF Terminals, LastOf, OutcomesAt
<1>11. ~(p < q)
  <2> SUFFICES ASSUME p < q PROVE FALSE OBVIOUS
  <2>1. T \in SUBSET (1 .. Len(f)) /\ IsFiniteSet(T) BY KeptPlaces
  <2>2. Above(q) \subseteq Above(p) /\ Above(p) \subseteq T BY <1>8, <2>1
  <2>3. IsFiniteSet(Above(p)) BY <2>1, <2>2, FS_Subset
  <2>4. /\ Cardinality(Above(q)) <= Cardinality(Above(p))
        /\ Cardinality(Above(q)) \in Nat /\ Cardinality(Above(p)) \in Nat
    BY <2>2, <2>3, FS_Subset, FS_CardinalityType
  <2>5. Cardinality(Above(p)) < k /\ ~(Cardinality(Above(q)) < k)
    BY <1>5, <1>7, <1>10 DEF Newest
  <2>6. QED BY <2>4, <2>5
<1>12. p # q BY <1>8, <1>9
<1>13. QED BY <1>8, <1>11, <1>12
-----------------------------------------------------------------------------
(* Types *)

DiskTyped == file \in Seq(Lines) /\ torn \in BOOLEAN /\ swallowed \subseteq Ids

MemoryTyped ==
  /\ {failClosed, retention, broken} \subseteq BOOLEAN
  /\ mode \in {"down", "recovering", "up", "failed"} /\ todo \subseteq Ids
  /\ phase \in [Ids -> {"idle", "accepted", "started", "doomed"}] /\ late \subseteq Ids
  /\ outcomes \in [Ids -> Answers \cup {NoAnswer}] /\ passed \in [Ids -> Nat]
  /\ mode # "up" => \A i \in Ids : phase[i] = "idle" /\ passed[i] = 0 /\ i \notin late

HistoryTyped ==
  /\ told \in [Ids -> Answers \cup {NoAnswer}] /\ bodies \in [Ids -> Nat]
  /\ forgotten \subseteq Ids /\ shadowed \subseteq Ids
  /\ requests \in 0 .. MaxRequests /\ incidents \in 0 .. MaxIncidents

Typed == DiskTyped /\ MemoryTyped /\ HistoryTyped

LEMMA TypedIsTypeOK == Typed => TypeOK
<1> SUFFICES ASSUME Typed PROVE TypeOK OBVIOUS
<1>1. Lines \subseteq [id : Ids, phase : Phases, answer : Answers \cup {NoAnswer}] BY DEF Lines
<1>2. \A S, T : S \subseteq T => Seq(S) \subseteq Seq(T) OBVIOUS
<1>3. file \in Seq([id : Ids, phase : Phases, answer : Answers \cup {NoAnswer}])
  BY <1>1, <1>2 DEF Typed, DiskTyped
<1>4. QED BY <1>3 DEF Typed, DiskTyped, MemoryTyped, HistoryTyped, TypeOK

LEMMA LineTypes ==
  ASSUME NEW i \in Ids, NEW ph \in Phases, NEW answer \in Answers \cup {NoAnswer},
         ph = "finished" => answer # NoAnswer
  PROVE  /\ Line(i, ph, answer) \in Lines /\ Line(i, ph, answer).id = i
         /\ Line(i, ph, answer).phase = ph /\ Line(i, ph, answer).answer = answer
BY DEF Line, Lines

LEMMA WriteTypes ==
  ASSUME DiskTyped, NEW e \in Lines, Write(e) PROVE DiskTyped'
<1>1. e.id \in Ids BY DEF Lines
<1>2. Append(file, e) \in Seq(Lines) BY AppendReads DEF DiskTyped
<1>3. QED BY <1>1, <1>2 DEF DiskTyped, Write

LEMMA AppendsTypes ==
  ASSUME DiskTyped, NEW i \in Ids, NEW ph \in {"accepted", "started"}, NEW throws,
         Appends(i, ph, throws)
  PROVE  DiskTyped'
<1>1. Line(i, ph, NoAnswer) \in Lines BY LineTypes DEF Phases
<1>2. QED BY <1>1, WriteTypes DEF Appends, disk, DiskTyped

LEMMA FinalizeTypes ==
  ASSUME DiskTyped, NEW i \in Ids, NEW answer \in Answers, NEW final, NEW throws,
         Finalize(i, answer, final, throws)
  PROVE  DiskTyped'
<1>1. \A a \in Answers : Line(i, "finished", a) \in Lines
  BY LineTypes DEF Phases, Answers, NoAnswer
<1>2. "fail" \in Answers BY DEF Answers
<1>3. QED BY <1>1, <1>2, WriteTypes DEF Finalize, disk, DiskTyped

LEMMA CompactTypes ==
  ASSUME DiskTyped, CompactNow
  PROVE  /\ file' \in Seq(Lines) /\ torn' = FALSE
         /\ \E k \in Nat : \E kept : IsCompaction(file, k, kept, file')
<1>1. PICK k \in 0 .. MaxEntries : \E kept \in Orders(Kept(file, k)) :
        file' = [n \in DOMAIN kept |-> file[kept[n]]]
  BY DEF CompactNow
<1>2. PICK kept \in Orders(Kept(file, k)) : file' = [n \in DOMAIN kept |-> file[kept[n]]]
  BY <1>1
<1>3. k \in Nat BY <1>1, JournalAssumption
<1>4. IsCompaction(file, k, kept, file') BY <1>2 DEF IsCompaction
<1>5. QED BY <1>3, <1>4, CompactionShape DEF DiskTyped, CompactNow

LEMMA TypedInit == Init => Typed
<1> SUFFICES ASSUME Init PROVE Typed OBVIOUS
<1>1. DiskTyped
  <2>1. <<>> \in Seq(Lines) OBVIOUS
  <2>2. file = <<>> /\ torn = FALSE /\ swallowed = {} BY DEF Init
  <2>3. QED BY <2>1, <2>2 DEF DiskTyped
<1>2. MemoryTyped BY DEF Init, MemoryTyped, NoAnswer
<1>3. HistoryTyped BY JournalAssumption DEF Init, HistoryTyped
<1>4. QED BY <1>1, <1>2, <1>3 DEF Typed

LEMMA TypedNext == ASSUME Typed, [Next]_vars PROVE Typed'
<1> USE DEF Typed
<1>1. CASE StartRecovery
  <2>1. file' \in Seq(Lines) /\ torn' \in BOOLEAN /\ forgotten' \subseteq Ids
    BY <1>1, CompactTypes DEF StartRecovery, CompactNow, DiskTyped, HistoryTyped
  <2>2. \A i \in Ids : Recovered(file', i) \in Answers \cup {NoAnswer}
    <3> SUFFICES ASSUME NEW i \in Ids PROVE Recovered(file', i) \in Answers \cup {NoAnswer}
      OBVIOUS
    <3>1. OutcomesAt(file', i) # {} => OutcomeIn(file', i) \in Answers \cup {NoAnswer}
      <4> SUFFICES ASSUME OutcomesAt(file', i) # {}
                   PROVE  OutcomeIn(file', i) \in Answers \cup {NoAnswer}
        OBVIOUS
      <4>1. PICK e \in Lines : OutcomeIn(file', i) = e.answer
        BY <2>1, OutcomePlace DEF OutcomeIn
      <4>2. QED BY <4>1 DEF Lines
    <3>2. QED BY <3>1 DEF Recovered, OutcomeIn, Answers
  <2>3. DiskTyped' BY <1>1, <2>1 DEF StartRecovery, DiskTyped
  <2>4. MemoryTyped' BY <1>1, <2>2 DEF StartRecovery, MemoryTyped, InFlightIn, config, arrivals
  <2>5. HistoryTyped' BY <1>1, <2>1 DEF StartRecovery, HistoryTyped, arrivals
  <2>6. QED BY <2>3, <2>4, <2>5
<1>2. CASE Compact
  <2>1. DiskTyped' /\ forgotten' \subseteq Ids
    BY <1>2, CompactTypes DEF Compact, CompactNow, DiskTyped, HistoryTyped
  <2>2. QED BY <1>2, <2>1 DEF Compact, MemoryTyped, HistoryTyped, config, arrivals
<1>3. CASE InitializationFails \/ RecoveryDone \/ Crash
  <2>1. DiskTyped'
    BY <1>3 DEF InitializationFails, RecoveryDone, Crash, disk, DiskTyped
  <2>2. incidents' \in 0 .. MaxIncidents
    <3>1. CASE Incidents(1) BY <3>1, JournalAssumption DEF Incidents, HistoryTyped
    <3>2. CASE UNCHANGED incidents BY <3>2 DEF HistoryTyped
    <3>3. QED BY <1>3, <3>1, <3>2 DEF InitializationFails, RecoveryDone, Crash
  <2>3. CASE InitializationFails
    <3>1. MemoryTyped' BY <2>3 DEF InitializationFails, MemoryTyped, config, arrivals
    <3>2. QED BY <2>1, <2>2, <2>3, <3>1 DEF InitializationFails, HistoryTyped, history, arrivals
  <2>4. CASE RecoveryDone
    <3>1. MemoryTyped' BY <2>4 DEF RecoveryDone, MemoryTyped, config, arrivals
    <3>2. QED BY <2>1, <2>4, <3>1 DEF RecoveryDone, HistoryTyped, arrivals, Answers
  <2>5. CASE Crash
    <3>1. MemoryTyped' BY <2>5 DEF Crash, MemoryTyped, config
    <3>2. QED BY <2>1, <2>2, <2>5, <3>1 DEF Crash, HistoryTyped, history
  <2>6. QED BY <1>3, <2>3, <2>4, <2>5
<1>4. ASSUME NEW i \in Ids, MarkLost(i) PROVE Typed'
  <2>1. DiskTyped'
    BY <1>4, LineTypes, WriteTypes DEF MarkLost, Phases, Answers, NoAnswer
  <2>2. QED BY <1>4, <2>1 DEF MarkLost, MemoryTyped, HistoryTyped, config, history, arrivals
<1>5. ASSUME NEW i \in Ids, RecoveryFails(i) PROVE Typed'
  <2>1. incidents' \in 0 .. MaxIncidents
    BY <1>5, JournalAssumption DEF RecoveryFails, Incidents, HistoryTyped
  <2>2. QED
    BY <1>5, <2>1
    DEF RecoveryFails, DiskTyped, MemoryTyped, HistoryTyped, disk, config, history, arrivals
<1>6. ASSUME NEW i \in Ids, Arrive(i) PROVE Typed'
  <2>1. requests' \in 0 .. MaxRequests /\ mode = "up"
    BY <1>6, JournalAssumption DEF Arrive, Request, Serving, HistoryTyped
  <2>2. passed' \in [Ids -> Nat] BY <1>6 DEF Arrive, MemoryTyped
  <2>3. QED
    BY <1>6, <2>1, <2>2 DEF Arrive, DiskTyped, MemoryTyped, HistoryTyped, disk, config, history
<1>7. ASSUME NEW i \in Ids, Admit(i) PROVE Typed'
  <2>1. PICK throws \in {0, 1} : Appends(i, "accepted", throws) /\ Incidents(throws)
    BY <1>7 DEF Admit
  <2>2. DiskTyped' BY <2>1, AppendsTypes
  <2>3. incidents' \in 0 .. MaxIncidents BY <2>1, JournalAssumption DEF Incidents, HistoryTyped
  <2>4. passed[i] > 0 /\ passed' = [passed EXCEPT ![i] = passed[i] - 1]
    BY <1>7 DEF Admit, Admissible, Reaches
  <2>5. mode = "up" /\ passed' \in [Ids -> Nat] BY <2>4 DEF MemoryTyped
  <2>6. MemoryTyped' BY <1>7, <2>5 DEF Admit, MemoryTyped, config
  <2>7. HistoryTyped' BY <1>7, <2>3 DEF Admit, HistoryTyped
  <2>8. QED BY <2>2, <2>6, <2>7
<1>8. ASSUME NEW i \in Ids, RejectUnjournaled(i) PROVE Typed'
  <2>1. PICK throws \in 0 .. 2, final \in Answers :
          /\ Finalize(i, "fail", final, throws) /\ Incidents(throws + 1)
          /\ told' = [told EXCEPT ![i] = final] /\ outcomes' = [outcomes EXCEPT ![i] = final]
    BY <1>8 DEF RejectUnjournaled, Concluded
  <2>2. DiskTyped' BY <2>1, FinalizeTypes DEF Answers
  <2>3. incidents' \in 0 .. MaxIncidents BY <2>1, JournalAssumption DEF Incidents, HistoryTyped
  <2>4. passed[i] > 0 /\ passed' = [passed EXCEPT ![i] = passed[i] - 1]
    BY <1>8 DEF RejectUnjournaled, Admissible, Reaches
  <2>5. mode = "up" /\ passed' \in [Ids -> Nat] BY <2>4 DEF MemoryTyped
  <2>6. MemoryTyped' BY <1>8, <2>1, <2>5 DEF RejectUnjournaled, MemoryTyped, config
  <2>7. HistoryTyped' BY <1>8, <2>1, <2>3 DEF RejectUnjournaled, HistoryTyped
  <2>8. QED BY <2>2, <2>6, <2>7
<1>9. ASSUME NEW i \in Ids, Start(i) \/ StartLate(i) PROVE Typed'
  <2>1. PICK throws \in {0, 1} : TaskBegins(i, throws) BY <1>9 DEF Start, StartLate
  <2>2. DiskTyped' BY <2>1, AppendsTypes DEF TaskBegins
  <2>3. incidents' \in 0 .. MaxIncidents
    BY <2>1, JournalAssumption DEF TaskBegins, Incidents, HistoryTyped
  <2>4. broken' \in BOOLEAN BY <2>1 DEF TaskBegins, BreakIfThrown, MemoryTyped
  <2>5. bodies' \in [Ids -> Nat] BY <2>1 DEF TaskBegins, HistoryTyped
  <2>6. phase' \in [Ids -> {"idle", "accepted", "started", "doomed"}] /\ late' \subseteq Ids
    BY <1>9 DEF Start, StartLate, MemoryTyped
  <2>7. MemoryTyped'
    BY <1>9, <2>4, <2>6 DEF Start, StartLate, MemoryTyped, config, arrivals
  <2>8. HistoryTyped' BY <1>9, <2>3, <2>5 DEF Start, StartLate, HistoryTyped, arrivals
  <2>9. QED BY <2>2, <2>7, <2>8
<1>10. ASSUME NEW i \in Ids, Finish(i) \/ TimeOut(i) PROVE Typed'
  <2>1. PICK answer \in {"ok", "fail"}, throws \in 0 .. 2 :
          Concluded(i, answer, throws) /\ Incidents(throws) /\ BreakIfThrown(throws)
    BY <1>10 DEF Finish, TimeOut
  <2>2. PICK final \in Answers :
          /\ Finalize(i, answer, final, throws)
          /\ told' = [told EXCEPT ![i] = final] /\ outcomes' = [outcomes EXCEPT ![i] = final]
    BY <2>1 DEF Concluded
  <2>3. DiskTyped' BY <2>2, FinalizeTypes DEF Answers
  <2>4. incidents' \in 0 .. MaxIncidents BY <2>1, JournalAssumption DEF Incidents, HistoryTyped
  <2>5. broken' \in BOOLEAN BY <2>1 DEF BreakIfThrown, MemoryTyped
  <2>6. MemoryTyped'
    BY <1>10, <2>2, <2>5 DEF Finish, TimeOut, MemoryTyped, config, arrivals
  <2>7. HistoryTyped' BY <1>10, <2>2, <2>4 DEF Finish, TimeOut, HistoryTyped, arrivals
  <2>8. QED BY <2>3, <2>6, <2>7
<1>11. ASSUME NEW i \in Ids, Refuse(i) \/ Replay(i) PROVE Typed'
  <2>1. PICK answer \in {"refused", "replayed"}, final \in Answers, throws \in 0 .. 2 :
          Finalize(i, answer, final, throws) /\ Incidents(throws) /\ BreakIfThrown(throws)
    BY <1>11 DEF Refuse, Replay
  <2>2. DiskTyped' BY <2>1, FinalizeTypes DEF Answers
  <2>3. incidents' \in 0 .. MaxIncidents BY <2>1, JournalAssumption DEF Incidents, HistoryTyped
  <2>4. broken' \in BOOLEAN BY <2>1 DEF BreakIfThrown, MemoryTyped
  <2>5. passed[i] > 0 /\ passed' = [passed EXCEPT ![i] = passed[i] - 1]
    BY <1>11 DEF Refuse, Replay, Reaches
  <2>6. mode = "up" /\ passed' \in [Ids -> Nat] BY <2>5 DEF MemoryTyped
  <2>7. MemoryTyped' BY <1>11, <2>4, <2>6 DEF Refuse, Replay, MemoryTyped, config
  <2>8. HistoryTyped' BY <1>11, <2>3 DEF Refuse, Replay, HistoryTyped
  <2>9. QED BY <2>2, <2>7, <2>8
<1>12. ASSUME NEW i \in Ids, Evict(i) PROVE Typed'
  BY <1>12 DEF Evict, DiskTyped, MemoryTyped, HistoryTyped, disk, config, arrivals
<1>13. CASE UNCHANGED vars
  BY <1>13 DEF vars, DiskTyped, MemoryTyped, HistoryTyped, disk, config, arrivals, history
<1>14. QED
  BY <1>1, <1>2, <1>3, <1>4, <1>5, <1>6, <1>7, <1>8, <1>9, <1>10, <1>11, <1>12, <1>13 DEF Next

\* A step compacts the file, or adds one line to it, or leaves it alone.
LEMMA FileSteps ==
  ASSUME Typed, [Next]_vars
  PROVE  UNCHANGED file \/ CompactNow \/ \E e \in Lines : file' = Append(file, e)
<1>1. ASSUME NEW e \in Lines, Write(e)
      PROVE  UNCHANGED file \/ \E x \in Lines : file' = Append(file, x)
  BY <1>1 DEF Write
<1>2. ASSUME NEW i \in Ids, NEW ph \in {"accepted", "started"}, NEW throws, Appends(i, ph, throws)
      PROVE  UNCHANGED file \/ \E x \in Lines : file' = Append(file, x)
  <2>1. Line(i, ph, NoAnswer) \in Lines BY LineTypes DEF Phases
  <2>2. QED BY <1>1, <1>2, <2>1 DEF Appends, disk
<1>3. ASSUME NEW i \in Ids, NEW answer \in Answers, NEW final, NEW throws,
             Finalize(i, answer, final, throws)
      PROVE  UNCHANGED file \/ \E x \in Lines : file' = Append(file, x)
  <2>1. \A a \in Answers : Line(i, "finished", a) \in Lines
    BY LineTypes DEF Phases, Answers, NoAnswer
  <2>2. "fail" \in Answers BY DEF Answers
  <2>3. QED BY <1>1, <1>3, <2>1, <2>2 DEF Finalize, disk
<1>4. CASE StartRecovery BY <1>4 DEF StartRecovery
<1>5. CASE Compact BY <1>5 DEF Compact
<1>6. CASE InitializationFails \/ RecoveryDone \/ Crash
  BY <1>6 DEF InitializationFails, RecoveryDone, Crash, disk
<1>7. ASSUME NEW i \in Ids, MarkLost(i)
      PROVE  UNCHANGED file \/ \E x \in Lines : file' = Append(file, x)
  BY <1>1, <1>7, LineTypes DEF MarkLost, Phases, Answers, NoAnswer
<1>8. ASSUME NEW i \in Ids, RecoveryFails(i) \/ Arrive(i) \/ Evict(i) PROVE UNCHANGED file
  BY <1>8 DEF RecoveryFails, Arrive, Evict, disk
<1>9. ASSUME NEW i \in Ids, Admit(i) \/ Start(i) \/ StartLate(i)
      PROVE  UNCHANGED file \/ \E x \in Lines : file' = Append(file, x)
  BY <1>2, <1>9 DEF Admit, Start, StartLate, TaskBegins
<1>10. ASSUME NEW i \in Ids, RejectUnjournaled(i) \/ Finish(i) \/ TimeOut(i) \/ Refuse(i) \/ Replay(i)
       PROVE  UNCHANGED file \/ \E x \in Lines : file' = Append(file, x)
  <2>1. PICK answer \in {"ok", "fail", "refused", "replayed"}, final \in Answers, throws \in 0 .. 2 :
          Finalize(i, answer, final, throws)
    BY <1>10 DEF RejectUnjournaled, Finish, TimeOut, Refuse, Replay, Concluded
  <2>2. QED BY <1>3, <2>1 DEF Answers
<1>11. CASE UNCHANGED vars BY <1>11 DEF vars, disk
<1>12. QED BY <1>4, <1>5, <1>6, <1>7, <1>8, <1>9, <1>10, <1>11 DEF Next

LEMMA CompactionStep == ASSUME Typed, [Next]_vars, Compacts PROVE KeepsRecovery
<1>1. file \in Seq(Lines) BY DEF Typed, DiskTyped
<1>2. \A e \in Lines : Len(Append(file, e)) = Len(file) + 1 /\ Len(file) \in Nat
  BY <1>1, AppendReads
<1>3. CompactNow BY <1>2, FileSteps DEF Compacts
<1>4. PICK k \in Nat : \E kept : IsCompaction(file, k, kept, file')
  BY <1>3, CompactTypes DEF Typed
<1>5. PICK kept : IsCompaction(file, k, kept, file') BY <1>4
<1>6. QED
  BY <1>1, <1>5, CompactionInFlight, CompactionRecovers, CompactionDropsOldest DEF KeepsRecovery

\* Whatever was appended, cut or forgotten before: a compaction changes nothing a start would
\* recover except by dropping outcomes, the oldest ones first, for any number of commands.
THEOREM CompactionKeepsRecoveryHolds == Spec => CompactionKeepsRecovery
<1>1. Spec => []Typed BY TypedInit, TypedNext, PTL DEF Spec
<1>2. Typed /\ [Next]_vars => [Compacts => KeepsRecovery]_vars BY CompactionStep
<1>3. QED BY <1>1, <1>2, PTL DEF Spec, CompactionKeepsRecovery
-----------------------------------------------------------------------------
(***************************************************************************)
(* What a start recovers agrees with what the clients were told.  The      *)
(* invariant speaks of each id by itself, so that a step about one id      *)
(* leaves it alone for the others.                                         *)
(***************************************************************************)

Busy(i) == phase[i] # "idle" => outcomes[i] = NoAnswer /\ told[i] = NoAnswer
InLane(i) == phase[i] \in {"started", "doomed"} => i \notin late
Asked(i) == mode = "recovering" /\ i \in todo => outcomes[i] = "lost"

\* A success that was told is what the file says, or was forgotten; nothing else says success.
ToldTrue(i) ==
  told[i] = "ok" => /\ i \notin InFlightIn(file) /\ i \notin late
                    /\ \/ OutcomeIn(file, i) = "ok"
                       \/ OutcomeIn(file, i) = NoAnswer /\ i \in forgotten
NoStale(i) == OutcomeIn(file, i) = "ok" /\ i \notin forgotten => told[i] = "ok"
\* An id the replay store does not know may be used: the file holds no success for it.
Free(i) ==
  (mode \in {"recovering", "up"} /\ outcomes[i] = NoAnswer /\ i \notin forgotten)
    => OutcomeIn(file, i) # "ok"
Lost(i) == mode = "recovering" /\ outcomes[i] = "lost" => told[i] # "ok"

\* A body that ran leaves a trace: in the lane, in the replay store, and in the file.
Spent(i) ==
  /\ Recovered(file, i) # NoAnswer /\ phase[i] \in {"idle", "started"}
  /\ mode \in {"recovering", "up"} /\ phase[i] = "idle" => outcomes[i] # NoAnswer
Once(i) ==
  i \notin forgotten =>
    /\ bodies[i] \in {0, 1} /\ (bodies[i] = 1 => Spent(i))
    /\ i \in late => bodies[i] = 0 /\ phase[i] = "idle" /\ outcomes[i] # NoAnswer

Clean(i) == i \notin shadowed /\ i \notin swallowed
Faith(i) ==
  /\ Busy(i) /\ InLane(i) /\ Asked(i)
  /\ failClosed /\ Clean(i) => ToldTrue(i) /\ NoStale(i) /\ Free(i) /\ Lost(i) /\ Once(i)

JournalInv == Typed /\ \A i \in Ids : Faith(i)

\* What the invariant says of an id survives a step that reads and writes nothing of it.
Untouched(i) ==
  /\ (i \in InFlightIn(file)') = (i \in InFlightIn(file)) /\ OutcomeIn(file', i) = OutcomeIn(file, i)
  /\ phase'[i] = phase[i] /\ outcomes'[i] = outcomes[i] /\ told'[i] = told[i]
  /\ bodies'[i] = bodies[i]
  /\ (i \in late') = (i \in late) /\ (i \in todo') = (i \in todo)
  /\ (i \in forgotten') = (i \in forgotten) /\ (i \in shadowed') = (i \in shadowed)
  /\ (i \in swallowed') = (i \in swallowed)

LEMMA UntouchedKeeps ==
  ASSUME NEW i \in Ids, Faith(i), Untouched(i), UNCHANGED <<mode, failClosed>>
  PROVE  Faith(i)'
<1>1. Busy(i)' /\ InLane(i)' /\ Asked(i)' BY DEF Faith, Untouched, Busy, InLane, Asked
<1>2. ASSUME failClosed', Clean(i)'
      PROVE  ToldTrue(i)' /\ NoStale(i)' /\ Free(i)' /\ Lost(i)' /\ Once(i)'
  <2>1. failClosed /\ Clean(i) BY <1>2 DEF Clean, Untouched
  <2>2. ToldTrue(i)' /\ NoStale(i)' /\ Free(i)' /\ Lost(i)'
    BY <2>1 DEF Faith, Untouched, ToldTrue, NoStale, Free, Lost
  <2>3. Once(i)' BY <2>1 DEF Faith, Untouched, Once, Spent, Recovered
  <2>4. QED BY <2>2, <2>3
<1>3. QED BY <1>1, <1>2 DEF Faith

LEMMA WriteLeaves ==
  ASSUME DiskTyped, NEW e \in Lines, Write(e), NEW j \in Ids, j # e.id
  PROVE  /\ (j \in InFlightIn(file)') = (j \in InFlightIn(file))
         /\ OutcomeIn(file', j) = OutcomeIn(file, j) /\ (j \in swallowed') = (j \in swallowed)
<1>1. CASE torn BY <1>1 DEF Write
<1>2. CASE ~torn
  <2>1. file' = Append(file, e) /\ UNCHANGED swallowed BY <1>2 DEF Write
  <2>2. InFlightIn(file') \in {InFlightIn(file) \ {e.id}, InFlightIn(file) \cup {e.id}}
    BY <2>1, AppendInFlight DEF DiskTyped
  <2>3. OutcomeIn(file', j) = OutcomeIn(file, j) BY <2>1, AppendOutcome DEF DiskTyped
  <2>4. QED BY <2>1, <2>2, <2>3
<1>3. QED BY <1>1, <1>2 DEF DiskTyped

LEMMA WriteReads ==
  ASSUME DiskTyped, NEW e \in Lines, Write(e), e.id \notin swallowed'
  PROVE  /\ (e.id \in InFlightIn(file')) = (e.phase # "finished")
         /\ OutcomeIn(file', e.id) = IF IsOutcome(e) THEN e.answer ELSE OutcomeIn(file, e.id)
         /\ e.id \notin swallowed
<1>1. ~torn /\ file' = Append(file, e) /\ e.id \notin swallowed BY DEF Write
<1>2. e.id \in Ids BY DEF Lines
<1>3. QED BY <1>1, <1>2, AppendInFlight, AppendOutcome DEF DiskTyped

\* What the file says of an id is as before.
SameReads(j) ==
  /\ (j \in InFlightIn(file)') = (j \in InFlightIn(file)) /\ OutcomeIn(file', j) = OutcomeIn(file, j)
  /\ (j \in swallowed') = (j \in swallowed)

LEMMA StillReads == ASSUME UNCHANGED disk, NEW j PROVE SameReads(j) BY DEF disk, SameReads

LEMMA AppendsReads ==
  ASSUME DiskTyped, NEW i \in Ids, NEW ph \in {"accepted", "started"}, NEW throws,
         Appends(i, ph, throws)
  PROVE  /\ \A j \in Ids \ {i} : SameReads(j)
         /\ throws = 1 => SameReads(i)
         /\ throws = 0 /\ i \notin swallowed' =>
              /\ i \in InFlightIn(file') /\ OutcomeIn(file', i) = OutcomeIn(file, i)
              /\ i \notin swallowed
<1> DEFINE e == Line(i, ph, NoAnswer)
<1>1. e \in Lines /\ e.id = i /\ e.phase # "finished" /\ ~IsOutcome(e)
  BY LineTypes DEF Phases, IsOutcome
<1> HIDE DEF e
<1>2. CASE throws = 1 BY <1>2, StillReads DEF Appends
<1>3. CASE throws = 0
  <2>1. Write(e) BY <1>3 DEF Appends, e
  <2>2. QED BY <1>1, <1>3, <2>1, WriteLeaves, WriteReads DEF SameReads
<1>4. QED BY <1>2, <1>3 DEF Appends

LEMMA FinalizeReads ==
  ASSUME DiskTyped, NEW i \in Ids, NEW answer \in Answers, NEW final, NEW throws,
         Finalize(i, answer, final, throws)
  PROVE  /\ \A j \in Ids \ {i} : SameReads(j)
         /\ (failClosed /\ i \notin swallowed') =>
              /\ i \notin swallowed
              /\ \/ /\ throws = 0 /\ final = answer /\ i \notin InFlightIn(file')
                    /\ OutcomeIn(file', i) =
                         IF answer = "replayed" THEN OutcomeIn(file, i) ELSE answer
                 \/ /\ throws = 1 /\ final = "fail" /\ i \notin InFlightIn(file')
                    /\ OutcomeIn(file', i) = "fail"
                 \/ throws = 2 /\ final = "fail" /\ SameReads(i)
<1>1. ASSUME NEW a \in Answers
      PROVE  /\ Line(i, "finished", a) \in Lines /\ Line(i, "finished", a).id = i
             /\ Line(i, "finished", a).phase = "finished"
             /\ IsOutcome(Line(i, "finished", a)) = (a # "replayed")
             /\ Line(i, "finished", a).answer = a
  BY LineTypes DEF Phases, Answers, NoAnswer, IsOutcome
<1>2. ASSUME NEW a \in Answers, Write(Line(i, "finished", a))
      PROVE  /\ \A j \in Ids \ {i} : SameReads(j)
             /\ i \notin swallowed' =>
                  /\ i \notin swallowed /\ i \notin InFlightIn(file')
                  /\ OutcomeIn(file', i) = IF a = "replayed" THEN OutcomeIn(file, i) ELSE a
  <2> DEFINE e == Line(i, "finished", a)
  <2>1. /\ e \in Lines /\ e.id = i /\ e.phase = "finished" /\ e.answer = a
        /\ IsOutcome(e) = (a # "replayed") /\ Write(e)
    BY <1>1, <1>2
  <2> HIDE DEF e
  <2>2. \A j \in Ids \ {i} : SameReads(j) BY <2>1, WriteLeaves DEF SameReads
  <2>3. ASSUME i \notin swallowed'
        PROVE  /\ i \notin swallowed /\ i \notin InFlightIn(file')
               /\ OutcomeIn(file', i) = IF a = "replayed" THEN OutcomeIn(file, i) ELSE a
    BY <2>1, <2>3, WriteReads
  <2>4. QED BY <2>2, <2>3
<1>3. CASE throws = 0 /\ final = answer /\ Write(Line(i, "finished", answer)) BY <1>2, <1>3
<1>4. CASE throws = 1 /\ final = Degraded(answer) /\ failClosed /\ Write(Line(i, "finished", "fail"))
  <2>1. "fail" \in Answers BY DEF Answers
  <2>2. QED BY <1>2, <1>4, <2>1 DEF Degraded
<1>5. CASE throws = 1 /\ ~failClosed /\ UNCHANGED disk BY <1>5, StillReads
<1>6. CASE throws = 2 /\ failClosed /\ final = Degraded(answer) /\ UNCHANGED disk
  BY <1>6, StillReads DEF Degraded, disk
<1>7. QED BY <1>3, <1>4, <1>5, <1>6 DEF Finalize
-----------------------------------------------------------------------------
(* The steps of the recovery. *)

LEMMA CompactionReads ==
  ASSUME DiskTyped, CompactNow, NEW i \in Ids
  PROVE  /\ (i \in InFlightIn(file')) = (i \in InFlightIn(file))
         /\ \/ OutcomeIn(file', i) = OutcomeIn(file, i) /\ (i \in forgotten') = (i \in forgotten)
            \/ OutcomeIn(file', i) = NoAnswer /\ i \in forgotten'
         /\ i \in forgotten => i \in forgotten'
<1>1. PICK k \in Nat : \E kept : IsCompaction(file, k, kept, file') BY CompactTypes
<1>2. PICK kept : IsCompaction(file, k, kept, file') BY <1>1
<1>3. InFlightIn(file') = InFlightIn(file) BY <1>2, CompactionInFlight DEF DiskTyped
<1>4. OutcomeIn(file', i) \in {OutcomeIn(file, i), NoAnswer}
  BY <1>2, CompactionRecovers DEF DiskTyped
<1>5. QED BY <1>3, <1>4 DEF CompactNow

\* Compaction in the middle of whatever goes on.
LEMMA CompactFaith ==
  ASSUME DiskTyped, CompactNow, NEW i \in Ids, Faith(i),
         UNCHANGED <<mode, failClosed, todo, phase, late, outcomes, told, bodies, shadowed,
                     swallowed>>
  PROVE  Faith(i)'
<1>1. Busy(i)' /\ InLane(i)' /\ Asked(i)' BY DEF Faith, Busy, InLane, Asked
<1>2. ASSUME failClosed', Clean(i)'
      PROVE  ToldTrue(i)' /\ NoStale(i)' /\ Free(i)' /\ Lost(i)' /\ Once(i)'
  <2>1. ToldTrue(i) /\ NoStale(i) /\ Free(i) /\ Lost(i) /\ Once(i)
    BY <1>2 DEF Faith, Clean
  <2>2. ToldTrue(i)' BY <2>1, CompactionReads DEF ToldTrue
  <2>3. NoStale(i)' BY <2>1, CompactionReads DEF NoStale, NoAnswer
  <2>4. Free(i)' BY <2>1, CompactionReads DEF Free, NoAnswer
  <2>5. Lost(i)' BY <2>1 DEF Lost
  <2>6. Once(i)' BY <2>1, CompactionReads DEF Once, Spent, Recovered
  <2>7. QED BY <2>2, <2>3, <2>4, <2>5, <2>6
<1>3. QED BY <1>1, <1>2 DEF Faith

LEMMA StartRecoveryFaith == ASSUME JournalInv, StartRecovery, NEW i \in Ids PROVE Faith(i)'
<1> USE DEF JournalInv, Typed
<1>1. /\ mode = "down" /\ mode' = "recovering" /\ phase'[i] = "idle" /\ i \notin late'
      /\ phase[i] = "idle" /\ i \notin late
      /\ (i \in todo') = (i \in InFlightIn(file')) /\ outcomes'[i] = Recovered(file', i)
      /\ UNCHANGED <<failClosed, told, bodies, shadowed, swallowed>>
  BY DEF StartRecovery, MemoryTyped, config
<1>2. /\ (i \in InFlightIn(file')) = (i \in InFlightIn(file))
      /\ \/ OutcomeIn(file', i) = OutcomeIn(file, i) /\ (i \in forgotten') = (i \in forgotten)
         \/ OutcomeIn(file', i) = NoAnswer /\ i \in forgotten'
      /\ i \in forgotten => i \in forgotten'
  BY CompactionReads DEF StartRecovery
<1>3. Busy(i)' /\ InLane(i)' /\ Asked(i)' BY <1>1 DEF Busy, InLane, Asked, Recovered
<1>4. ASSUME failClosed', Clean(i)'
      PROVE  ToldTrue(i)' /\ NoStale(i)' /\ Free(i)' /\ Lost(i)' /\ Once(i)'
  <2>1. ToldTrue(i) /\ NoStale(i) /\ Once(i) BY <1>1, <1>4 DEF Faith, Clean
  <2>2. ToldTrue(i)' BY <1>1, <1>2, <2>1 DEF ToldTrue
  <2>3. NoStale(i)' BY <1>1, <1>2, <2>1 DEF NoStale, NoAnswer
  <2>4. Free(i)' BY <1>1 DEF Free, Recovered, NoAnswer
  <2>5. Lost(i)' BY <1>1, <2>2 DEF Lost, ToldTrue, Recovered, NoAnswer
  <2>6. Once(i)' BY <1>1, <1>2, <2>1 DEF Once, Spent, Recovered
  <2>7. QED BY <2>2, <2>3, <2>4, <2>5, <2>6
<1>5. QED BY <1>3, <1>4 DEF Faith

LEMMA MarkLostFaith ==
  ASSUME JournalInv, NEW i \in Ids, MarkLost(i), NEW j \in Ids PROVE Faith(j)'
<1> USE DEF JournalInv, Typed
<1> DEFINE e == Line(i, "finished", "lost")
<1>1. /\ e \in Lines /\ e.id = i /\ e.phase = "finished" /\ e.answer = "lost" /\ IsOutcome(e)
      /\ Write(e)
  BY LineTypes DEF Phases, Answers, NoAnswer, IsOutcome, MarkLost
<1> HIDE DEF e
<1>2. /\ mode = "recovering" /\ i \in todo /\ todo' = todo \ {i}
      /\ UNCHANGED <<mode, failClosed, phase, late, outcomes, told, bodies, forgotten, shadowed>>
  BY DEF MarkLost, config, history
<1>3. CASE j # i
  <2>1. Untouched(j) BY <1>1, <1>2, <1>3, WriteLeaves DEF Untouched
  <2>2. QED BY <1>2, <2>1, UntouchedKeeps
<1>4. CASE j = i
  <2>1. outcomes[i] = "lost" /\ phase[i] = "idle" BY <1>2 DEF Faith, Asked, MemoryTyped
  <2>2. Busy(i)' /\ InLane(i)' /\ Asked(i)' BY <1>2, <2>1 DEF Busy, InLane, Asked
  <2>3. ASSUME failClosed', Clean(i)'
        PROVE  ToldTrue(i)' /\ NoStale(i)' /\ Free(i)' /\ Lost(i)' /\ Once(i)'
    <3>1. i \notin InFlightIn(file') /\ OutcomeIn(file', i) = "lost" /\ i \notin swallowed
      BY <1>1, <2>3, WriteReads DEF Clean
    <3>2. told[i] # "ok" /\ Once(i) BY <1>2, <2>1, <2>3, <3>1 DEF Faith, Clean, Lost
    <3>3. ToldTrue(i)' /\ NoStale(i)' /\ Free(i)' /\ Lost(i)'
      BY <1>2, <3>1, <3>2 DEF ToldTrue, NoStale, Free, Lost
    <3>4. Once(i)' BY <1>2, <2>1, <3>1, <3>2 DEF Once, Spent, Recovered, NoAnswer
    <3>5. QED BY <3>3, <3>4
  <2>4. QED BY <1>4, <2>2, <2>3 DEF Faith
<1>5. QED BY <1>3, <1>4

LEMMA RecoveryDoneFaith == ASSUME JournalInv, RecoveryDone, NEW i \in Ids PROVE Faith(i)'
<1> USE DEF JournalInv, Typed
<1>1. /\ mode = "recovering" /\ mode' = "up" /\ phase[i] = "idle"
      /\ told'[i] = IF outcomes[i] = "lost" THEN "lost" ELSE told[i]
      /\ UNCHANGED <<file, swallowed, failClosed, todo, phase, late, outcomes, bodies,
                     forgotten, shadowed>>
  BY DEF RecoveryDone, MemoryTyped, disk, config
<1>2. Busy(i)' /\ InLane(i)' /\ Asked(i)' BY <1>1 DEF Busy, InLane, Asked
<1>3. ASSUME failClosed', Clean(i)'
      PROVE  ToldTrue(i)' /\ NoStale(i)' /\ Free(i)' /\ Lost(i)' /\ Once(i)'
  <2>1. ToldTrue(i) /\ NoStale(i) /\ Free(i) /\ Lost(i) /\ Once(i)
    BY <1>1, <1>3 DEF Faith, Clean
  <2>2. ToldTrue(i)' /\ NoStale(i)' /\ Free(i)' /\ Lost(i)'
    BY <1>1, <2>1 DEF ToldTrue, NoStale, Free, Lost
  <2>3. Once(i)' BY <1>1, <2>1 DEF Once, Spent
  <2>4. QED BY <2>2, <2>3
<1>4. QED BY <1>2, <1>3 DEF Faith

\* The process dies, or its initialization fails.
LEMMA StopFaith ==
  ASSUME JournalInv, InitializationFails \/ Crash \/ \E i \in Ids : RecoveryFails(i), NEW j \in Ids
  PROVE  Faith(j)'
<1> USE DEF JournalInv, Typed
<1>1. /\ mode' \in {"down", "failed"} /\ phase'[j] = "idle" /\ j \notin late'
      /\ UNCHANGED <<file, swallowed, failClosed, told, bodies, forgotten, shadowed>>
  BY DEF InitializationFails, Crash, RecoveryFails, disk, config, history, MemoryTyped
<1>2. Busy(j)' /\ InLane(j)' /\ Asked(j)' BY <1>1 DEF Busy, InLane, Asked
<1>3. ASSUME failClosed', Clean(j)'
      PROVE  ToldTrue(j)' /\ NoStale(j)' /\ Free(j)' /\ Lost(j)' /\ Once(j)'
  <2>1. ToldTrue(j) /\ NoStale(j) /\ Once(j) BY <1>1, <1>3 DEF Faith, Clean
  <2>2. ToldTrue(j)' /\ NoStale(j)' /\ Free(j)' /\ Lost(j)'
    BY <1>1, <2>1 DEF ToldTrue, NoStale, Free, Lost
  <2>3. Once(j)' BY <1>1, <2>1 DEF Once, Spent
  <2>4. QED BY <2>2, <2>3
<1>4. QED BY <1>2, <1>3 DEF Faith
-----------------------------------------------------------------------------
(* The steps of a command. *)

\* A step that writes about one id leaves what is known of another alone.
LEMMA OtherFaith ==
  ASSUME NEW j \in Ids, Faith(j), SameReads(j), UNCHANGED <<mode, failClosed, todo>>,
         phase'[j] = phase[j], outcomes'[j] = outcomes[j], told'[j] = told[j],
         bodies'[j] = bodies[j], (j \in late') = (j \in late),
         (j \in forgotten') = (j \in forgotten), (j \in shadowed') = (j \in shadowed)
  PROVE  Faith(j)'
<1>1. Untouched(j) BY DEF Untouched, SameReads
<1>2. QED BY <1>1, UntouchedKeeps

LEMMA AdmitFaith == ASSUME JournalInv, NEW i \in Ids, Admit(i), NEW j \in Ids PROVE Faith(j)'
<1> USE DEF JournalInv, Typed
<1>1. PICK throws \in {0, 1} : Appends(i, "accepted", throws) /\ (throws = 1 => ~failClosed)
  BY DEF Admit
<1>2. /\ \A k \in Ids \ {i} : SameReads(k)
      /\ throws = 0 /\ i \notin swallowed' =>
           OutcomeIn(file', i) = OutcomeIn(file, i) /\ i \notin swallowed
  BY <1>1, AppendsReads
<1>3. /\ passed[i] > 0 /\ phase[i] = "idle" /\ outcomes[i] = NoAnswer
      /\ phase' = [phase EXCEPT ![i] = "accepted"] /\ told' = [told EXCEPT ![i] = NoAnswer]
      /\ UNCHANGED <<mode, failClosed, todo, late, outcomes, bodies, forgotten, shadowed>>
  BY DEF Admit, Admissible, Reaches, config
<1>4. mode = "up" BY <1>3 DEF MemoryTyped
<1>5. CASE j # i BY <1>2, <1>3, <1>5, OtherFaith DEF MemoryTyped, HistoryTyped
<1>6. CASE j = i
  <2>1. phase'[i] = "accepted" /\ told'[i] = NoAnswer BY <1>3 DEF MemoryTyped, HistoryTyped
  <2>2. Busy(i)' /\ InLane(i)' /\ Asked(i)'
    BY <1>3, <1>4, <2>1 DEF Busy, InLane, Asked
  <2>3. ASSUME failClosed', Clean(i)'
        PROVE  ToldTrue(i)' /\ NoStale(i)' /\ Free(i)' /\ Lost(i)' /\ Once(i)'
    <3>1. throws = 0 /\ OutcomeIn(file', i) = OutcomeIn(file, i) /\ i \notin swallowed
      BY <1>1, <1>2, <1>3, <2>3 DEF Clean
    <3>2. Free(i) /\ Once(i) BY <1>3, <2>3, <3>1 DEF Faith, Clean
    <3>3. ToldTrue(i)' /\ NoStale(i)' /\ Free(i)' /\ Lost(i)'
      BY <1>3, <1>4, <2>1, <3>1, <3>2 DEF ToldTrue, NoStale, Free, Lost, NoAnswer
    <3>4. Once(i)' BY <1>3, <1>4, <2>1, <3>2 DEF Once, Spent
    <3>5. QED BY <3>3, <3>4
  <2>4. QED BY <1>6, <2>2, <2>3 DEF Faith
<1>7. QED BY <1>5, <1>6

LEMMA RejectFaith ==
  ASSUME JournalInv, NEW i \in Ids, RejectUnjournaled(i), NEW j \in Ids PROVE Faith(j)'
<1> USE DEF JournalInv, Typed
<1>1. PICK throws \in 0 .. 2, final \in Answers :
        /\ Finalize(i, "fail", final, throws)
        /\ told' = [told EXCEPT ![i] = final] /\ outcomes' = [outcomes EXCEPT ![i] = final]
  BY DEF RejectUnjournaled, Concluded
<1>2. /\ \A k \in Ids \ {i} : SameReads(k)
      /\ failClosed /\ i \notin swallowed' =>
           /\ i \notin swallowed /\ final = "fail"
           /\ \/ i \notin InFlightIn(file') /\ OutcomeIn(file', i) = "fail"
              \/ SameReads(i)
  BY <1>1, FinalizeReads DEF Answers
<1>3. /\ passed[i] > 0 /\ phase[i] = "idle" /\ outcomes[i] = NoAnswer
      /\ UNCHANGED <<mode, failClosed, todo, phase, late, bodies, forgotten, shadowed>>
  BY DEF RejectUnjournaled, Admissible, Reaches, config
<1>4. mode = "up" BY <1>3 DEF MemoryTyped
<1>5. CASE j # i BY <1>1, <1>2, <1>3, <1>5, OtherFaith DEF MemoryTyped, HistoryTyped
<1>6. CASE j = i
  <2>1. told'[i] = final /\ outcomes'[i] = final /\ final # NoAnswer
    BY <1>1 DEF MemoryTyped, HistoryTyped, Answers, NoAnswer
  <2>2. Busy(i)' /\ InLane(i)' /\ Asked(i)'
    BY <1>3, <1>4 DEF Busy, InLane, Asked
  <2>3. ASSUME failClosed', Clean(i)'
        PROVE  ToldTrue(i)' /\ NoStale(i)' /\ Free(i)' /\ Lost(i)' /\ Once(i)'
    <3>1. /\ i \notin swallowed /\ final = "fail"
          /\ OutcomeIn(file', i) \in {"fail", OutcomeIn(file, i)}
      BY <1>2, <1>3, <2>3 DEF Clean, SameReads
    <3>2. Free(i) /\ Once(i) BY <1>3, <2>3, <3>1 DEF Faith, Clean
    <3>3. ToldTrue(i)' /\ NoStale(i)' /\ Free(i)' /\ Lost(i)'
      BY <1>3, <1>4, <2>1, <3>1, <3>2 DEF ToldTrue, NoStale, Free, Lost
    <3>4. Once(i)' BY <1>3, <1>4, <2>1, <3>2 DEF Once, Spent
    <3>5. QED BY <3>3, <3>4
  <2>4. QED BY <1>6, <2>2, <2>3 DEF Faith
<1>7. QED BY <1>5, <1>6

LEMMA BeginsReads ==
  ASSUME DiskTyped, HistoryTyped, NEW i \in Ids, NEW throws \in {0, 1}, TaskBegins(i, throws)
  PROVE  /\ \A k \in Ids \ {i} : SameReads(k) /\ bodies'[k] = bodies[k]
         /\ failClosed /\ i \notin swallowed' =>
              /\ i \notin swallowed /\ OutcomeIn(file', i) = OutcomeIn(file, i)
              /\ \/ bodies' = bodies /\ SameReads(i)
                 \/ /\ bodies' # bodies /\ bodies'[i] = bodies[i] + 1
                    /\ i \in InFlightIn(file')
<1>1. Appends(i, "started", throws) BY DEF TaskBegins
<1>2. /\ \A k \in Ids \ {i} : SameReads(k)
      /\ throws = 1 => SameReads(i)
      /\ throws = 0 /\ i \notin swallowed' =>
           /\ i \in InFlightIn(file') /\ OutcomeIn(file', i) = OutcomeIn(file, i)
           /\ i \notin swallowed
  BY <1>1, AppendsReads
<1>3. \A k \in Ids \ {i} : bodies'[k] = bodies[k] BY DEF TaskBegins, HistoryTyped
<1>4. CASE throws = 0
  <2>1. bodies'[i] = bodies[i] + 1 /\ bodies[i] \in Nat BY <1>4 DEF TaskBegins, HistoryTyped
  <2>2. bodies' # bodies BY <2>1
  <2>3. QED BY <1>2, <1>3, <1>4, <2>1, <2>2
<1>5. CASE throws = 1
  <2>1. failClosed => bodies' = bodies BY <1>5 DEF TaskBegins
  <2>2. QED BY <1>2, <1>3, <1>5, <2>1 DEF SameReads
<1>6. QED BY <1>4, <1>5

LEMMA StartFaith == ASSUME JournalInv, NEW i \in Ids, Start(i), NEW j \in Ids PROVE Faith(j)'
<1> USE DEF JournalInv, Typed
<1>1. PICK throws \in {0, 1} :
        /\ TaskBegins(i, throws)
        /\ phase' = [phase EXCEPT ![i] = IF bodies' = bodies THEN "doomed" ELSE "started"]
  BY DEF Start
<1>2. /\ mode = "up" /\ phase[i] = "accepted" /\ i \notin late
      /\ UNCHANGED <<mode, failClosed, todo, late, outcomes, told, forgotten, shadowed>>
  BY DEF Start, config
<1>3. CASE j # i
  <2>1. SameReads(j) /\ bodies'[j] = bodies[j] BY <1>1, <1>3, BeginsReads
  <2>2. phase'[j] = phase[j] BY <1>1, <1>3 DEF MemoryTyped
  <2>3. QED BY <1>2, <2>1, <2>2, OtherFaith
<1>4. CASE j = i
  <2>1. outcomes[i] = NoAnswer /\ told[i] = NoAnswer BY <1>2 DEF Faith, Busy
  <2>2. phase'[i] = IF bodies' = bodies THEN "doomed" ELSE "started" BY <1>1 DEF MemoryTyped
  <2>3. Busy(i)' /\ InLane(i)' /\ Asked(i)'
    BY <1>2, <2>1 DEF Busy, InLane, Asked
  <2>4. ASSUME failClosed', Clean(i)'
        PROVE  ToldTrue(i)' /\ NoStale(i)' /\ Free(i)' /\ Lost(i)' /\ Once(i)'
    <3>1. /\ i \notin swallowed /\ OutcomeIn(file', i) = OutcomeIn(file, i)
          /\ \/ bodies' = bodies
             \/ bodies' # bodies /\ bodies'[i] = bodies[i] + 1 /\ i \in InFlightIn(file')
      BY <1>1, <1>2, <2>4, BeginsReads DEF Clean
    <3>2. NoStale(i) /\ Free(i) /\ Once(i) BY <1>2, <2>4, <3>1 DEF Faith, Clean
    <3>3. ToldTrue(i)' /\ NoStale(i)' /\ Free(i)' /\ Lost(i)'
      BY <1>2, <2>1, <3>1, <3>2 DEF ToldTrue, NoStale, Free, Lost, NoAnswer
    <3>4. i \notin forgotten => bodies[i] = 0 BY <1>2, <3>2 DEF Once, Spent
    <3>5. Once(i)' BY <1>2, <2>2, <3>1, <3>4 DEF Once, Spent, Recovered, NoAnswer
    <3>6. QED BY <3>3, <3>5
  <2>5. QED BY <1>4, <2>3, <2>4 DEF Faith
<1>5. QED BY <1>3, <1>4

LEMMA StartLateFaith ==
  ASSUME JournalInv, NEW i \in Ids, StartLate(i), NEW j \in Ids PROVE Faith(j)'
<1> USE DEF JournalInv, Typed
<1>1. PICK throws \in {0, 1} : TaskBegins(i, throws) BY DEF StartLate
<1>2. /\ mode = "up" /\ i \in late /\ late' = late \ {i}
      /\ UNCHANGED <<mode, failClosed, todo, phase, outcomes, told, forgotten, shadowed>>
  BY DEF StartLate, config
<1>3. CASE j # i
  <2>1. SameReads(j) /\ bodies'[j] = bodies[j] BY <1>1, <1>3, BeginsReads
  <2>2. QED BY <1>2, <1>3, <2>1, OtherFaith
<1>4. CASE j = i
  <2>1. Busy(i)' /\ InLane(i)' /\ Asked(i)' BY <1>2 DEF Faith, Busy, InLane, Asked
  <2>2. ASSUME failClosed', Clean(i)'
        PROVE  ToldTrue(i)' /\ NoStale(i)' /\ Free(i)' /\ Lost(i)' /\ Once(i)'
    <3>1. /\ i \notin swallowed /\ OutcomeIn(file', i) = OutcomeIn(file, i)
          /\ \/ bodies' = bodies
             \/ bodies'[i] = bodies[i] + 1 /\ i \in InFlightIn(file')
      BY <1>1, <1>2, <2>2, BeginsReads DEF Clean
    <3>2. ToldTrue(i) /\ NoStale(i) /\ Free(i) /\ Once(i)
      BY <1>2, <2>2, <3>1 DEF Faith, Clean
    <3>3. ToldTrue(i)' /\ NoStale(i)' /\ Free(i)' /\ Lost(i)'
      BY <1>2, <3>1, <3>2 DEF ToldTrue, NoStale, Free, Lost
    <3>4. i \notin forgotten => bodies[i] = 0 /\ phase[i] = "idle" /\ outcomes[i] # NoAnswer
      BY <1>2, <3>2 DEF Once
    <3>5. Once(i)' BY <1>2, <3>1, <3>4 DEF Once, Spent, Recovered, NoAnswer
    <3>6. QED BY <3>3, <3>5
  <2>3. QED BY <1>4, <2>1, <2>2 DEF Faith
<1>5. QED BY <1>3, <1>4

LEMMA FinishFaith == ASSUME JournalInv, NEW i \in Ids, Finish(i), NEW j \in Ids PROVE Faith(j)'
<1> USE DEF JournalInv, Typed
<1>1. PICK answer \in {"ok", "fail"}, throws \in 0 .. 2, final \in Answers :
        /\ Finalize(i, answer, final, throws) /\ (phase[i] = "doomed" => answer = "fail")
        /\ told' = [told EXCEPT ![i] = final] /\ outcomes' = [outcomes EXCEPT ![i] = final]
  BY DEF Finish, Concluded
<1>2. /\ \A k \in Ids \ {i} : SameReads(k)
      /\ failClosed /\ i \notin swallowed' =>
           /\ i \notin swallowed
           /\ \/ i \notin InFlightIn(file') /\ OutcomeIn(file', i) = final
              \/ SameReads(i) /\ final = "fail"
  BY <1>1, FinalizeReads DEF Answers
<1>3. /\ mode = "up" /\ phase[i] \in {"started", "doomed"}
      /\ phase' = [phase EXCEPT ![i] = "idle"]
      /\ UNCHANGED <<mode, failClosed, todo, late, bodies, forgotten, shadowed>>
  BY DEF Finish, config
<1>4. CASE j # i BY <1>1, <1>2, <1>3, <1>4, OtherFaith DEF MemoryTyped, HistoryTyped
<1>5. CASE j = i
  <2>1. told'[i] = final /\ outcomes'[i] = final /\ phase'[i] = "idle" /\ final # NoAnswer
    BY <1>1, <1>3 DEF MemoryTyped, HistoryTyped, Answers, NoAnswer
  <2>2. i \notin late /\ told[i] = NoAnswer BY <1>3 DEF Faith, InLane, Busy
  <2>3. Busy(i)' /\ InLane(i)' /\ Asked(i)' BY <1>3, <2>1 DEF Busy, InLane, Asked
  <2>4. ASSUME failClosed', Clean(i)'
        PROVE  ToldTrue(i)' /\ NoStale(i)' /\ Free(i)' /\ Lost(i)' /\ Once(i)'
    <3>1. /\ i \notin swallowed
          /\ \/ i \notin InFlightIn(file') /\ OutcomeIn(file', i) = final
             \/ SameReads(i) /\ final = "fail"
      BY <1>2, <1>3, <2>4 DEF Clean
    <3>2. NoStale(i) /\ Once(i) BY <1>3, <2>4, <3>1 DEF Faith, Clean
    <3>3. ToldTrue(i)' BY <1>3, <2>1, <2>2, <3>1 DEF ToldTrue
    <3>4. NoStale(i)' /\ Free(i)' /\ Lost(i)'
      BY <1>3, <2>1, <2>2, <3>1, <3>2 DEF NoStale, Free, Lost, SameReads, NoAnswer
    <3>5. Once(i)'
      <4> SUFFICES ASSUME i \notin forgotten PROVE Once(i)' BY <1>3 DEF Once
      <4>1. bodies[i] \in {0, 1} /\ (bodies[i] = 1 => Recovered(file, i) # NoAnswer)
        BY <3>2 DEF Once, Spent
      <4>2. bodies[i] = 1 => Recovered(file', i) # NoAnswer
        BY <2>1, <3>1, <4>1 DEF Recovered, SameReads
      <4>3. QED BY <1>3, <2>1, <2>2, <4>1, <4>2 DEF Once, Spent
    <3>6. QED BY <3>3, <3>4, <3>5
  <2>5. QED BY <1>5, <2>3, <2>4 DEF Faith
<1>6. QED BY <1>4, <1>5

LEMMA TimeOutFaith == ASSUME JournalInv, NEW i \in Ids, TimeOut(i), NEW j \in Ids PROVE Faith(j)'
<1> USE DEF JournalInv, Typed
<1>1. PICK throws \in 0 .. 2, final \in Answers :
        /\ Finalize(i, "fail", final, throws)
        /\ told' = [told EXCEPT ![i] = final] /\ outcomes' = [outcomes EXCEPT ![i] = final]
  BY DEF TimeOut, Concluded
<1>2. /\ \A k \in Ids \ {i} : SameReads(k)
      /\ failClosed /\ i \notin swallowed' =>
           /\ i \notin swallowed /\ final = "fail"
           /\ \/ OutcomeIn(file', i) = "fail"
              \/ SameReads(i)
  BY <1>1, FinalizeReads DEF Answers
<1>3. /\ mode = "up" /\ phase[i] = "accepted" /\ i \notin late
      /\ phase' = [phase EXCEPT ![i] = "idle"] /\ late' = late \cup {i}
      /\ UNCHANGED <<mode, failClosed, todo, bodies, forgotten, shadowed>>
  BY DEF TimeOut, config
<1>4. CASE j # i BY <1>1, <1>2, <1>3, <1>4, OtherFaith DEF MemoryTyped, HistoryTyped
<1>5. CASE j = i
  <2>1. told'[i] = final /\ outcomes'[i] = final /\ phase'[i] = "idle" /\ final # NoAnswer
    BY <1>1, <1>3 DEF MemoryTyped, HistoryTyped, Answers, NoAnswer
  <2>2. told[i] = NoAnswer BY <1>3 DEF Faith, Busy
  <2>3. Busy(i)' /\ InLane(i)' /\ Asked(i)' BY <1>3, <2>1 DEF Busy, InLane, Asked
  <2>4. ASSUME failClosed', Clean(i)'
        PROVE  ToldTrue(i)' /\ NoStale(i)' /\ Free(i)' /\ Lost(i)' /\ Once(i)'
    <3>1. /\ i \notin swallowed /\ final = "fail"
          /\ OutcomeIn(file', i) \in {"fail", OutcomeIn(file, i)}
      BY <1>2, <1>3, <2>4 DEF Clean, SameReads
    <3>2. NoStale(i) /\ Once(i) BY <1>3, <2>4, <3>1 DEF Faith, Clean
    <3>3. ToldTrue(i)' /\ NoStale(i)' /\ Free(i)' /\ Lost(i)'
      BY <1>3, <2>1, <2>2, <3>1, <3>2 DEF ToldTrue, NoStale, Free, Lost, NoAnswer
    <3>4. i \notin forgotten => bodies[i] = 0 BY <1>3, <3>2 DEF Once, Spent
    <3>5. Once(i)' BY <1>3, <2>1, <3>4 DEF Once, Spent
    <3>6. QED BY <3>3, <3>5
  <2>5. QED BY <1>5, <2>3, <2>4 DEF Faith
<1>6. QED BY <1>4, <1>5

\* The record of a request that was answered without being run.
LEMMA AnsweredFaith ==
  ASSUME JournalInv, NEW i \in Ids, Refuse(i) \/ Replay(i), NEW j \in Ids PROVE Faith(j)'
<1> USE DEF JournalInv, Typed
<1>1. PICK answer \in {"refused", "replayed"}, final \in Answers, throws \in 0 .. 2 :
        /\ Finalize(i, answer, final, throws) /\ (answer = "refused" => i \in shadowed')
        /\ answer = "replayed" =>
             shadowed' = IF Shadows(i, throws) THEN shadowed \cup {i} ELSE shadowed
  BY DEF Refuse, Replay
<1>2. /\ \A k \in Ids \ {i} : SameReads(k)
      /\ failClosed /\ i \notin swallowed' =>
           /\ i \notin swallowed
           /\ \/ /\ throws = 0 /\ i \notin InFlightIn(file')
                 /\ answer = "replayed" => OutcomeIn(file', i) = OutcomeIn(file, i)
              \/ throws = 1
              \/ SameReads(i)
  BY <1>1, FinalizeReads DEF Answers
<1>3. /\ UNCHANGED <<mode, failClosed, todo, phase, late, outcomes, told, bodies, forgotten>>
      /\ \A k \in Ids \ {i} : (k \in shadowed') = (k \in shadowed)
  BY DEF Refuse, Replay, config
<1>4. CASE j # i BY <1>2, <1>3, <1>4, OtherFaith
<1>5. CASE j = i
  <2>1. Busy(i)' /\ InLane(i)' /\ Asked(i)' BY <1>3 DEF Faith, Busy, InLane, Asked
  <2>2. ASSUME failClosed', Clean(i)'
        PROVE  ToldTrue(i)' /\ NoStale(i)' /\ Free(i)' /\ Lost(i)' /\ Once(i)'
    <3>1. answer = "replayed" /\ ~Shadows(i, throws) /\ shadowed' = shadowed
      BY <1>1, <2>2 DEF Clean
    <3>2. throws # 1 /\ i \notin InFlightIn(file) BY <1>3, <2>2, <3>1 DEF Shadows
    <3>3. SameReads(i)
      <4>1. /\ i \notin swallowed /\ i \notin swallowed'
            /\ \/ /\ i \notin InFlightIn(file')
                  /\ OutcomeIn(file', i) = OutcomeIn(file, i)
               \/ SameReads(i)
        BY <1>2, <1>3, <2>2, <3>1, <3>2 DEF Clean
      <4>2. QED BY <3>2, <4>1 DEF SameReads
    <3>4. Faith(i)' BY <1>3, <3>1, <3>3, OtherFaith
    <3>5. QED BY <2>2, <3>4 DEF Faith
  <2>3. QED BY <1>5, <2>1, <2>2 DEF Faith
<1>6. QED BY <1>4, <1>5

LEMMA EvictFaith == ASSUME JournalInv, NEW i \in Ids, Evict(i), NEW j \in Ids PROVE Faith(j)'
<1> USE DEF JournalInv, Typed
<1>1. /\ mode = "up" /\ outcomes[i] # NoAnswer /\ outcomes' = [outcomes EXCEPT ![i] = NoAnswer]
      /\ forgotten' = forgotten \cup {i}
      /\ UNCHANGED <<disk, mode, failClosed, todo, phase, late, told, bodies, shadowed>>
  BY DEF Evict, config
<1>2. UNCHANGED <<file, swallowed>> BY <1>1 DEF disk
<1>3. CASE j # i BY <1>1, <1>3, StillReads, OtherFaith DEF MemoryTyped
<1>4. CASE j = i
  <2>1. Busy(i)' /\ InLane(i)' /\ Asked(i)' BY <1>1 DEF Faith, Busy, InLane, Asked
  <2>2. ASSUME failClosed', Clean(i)'
        PROVE  ToldTrue(i)' /\ NoStale(i)' /\ Free(i)' /\ Lost(i)' /\ Once(i)'
    <3>1. ToldTrue(i) BY <1>1, <1>2, <2>2 DEF Faith, Clean
    <3>2. QED
      BY <1>1, <1>2, <3>1 DEF ToldTrue, NoStale, Free, Lost, Once
  <2>3. QED BY <1>4, <2>1, <2>2 DEF Faith
<1>5. QED BY <1>3, <1>4

LEMMA JournalInit == Init => JournalInv
<1> SUFFICES ASSUME Init PROVE JournalInv OBVIOUS
<1>1. Typed BY TypedInit
<1>2. ASSUME NEW i \in Ids PROVE Faith(i)
  <2>1. /\ file = <<>> /\ mode = "down" /\ phase[i] = "idle" /\ i \notin late /\ i \notin todo
        /\ told[i] = NoAnswer /\ bodies[i] = 0
    BY DEF Init
  <2>2. OutcomesAt(file, i) = {} BY <2>1 DEF OutcomesAt
  <2>3. OutcomeIn(file, i) = NoAnswer BY <2>2 DEF OutcomeIn
  <2>4. QED
    BY <2>1, <2>3
    DEF Faith, Busy, InLane, Asked, ToldTrue, NoStale, Free, Lost, Once, Spent, NoAnswer
<1>3. QED BY <1>1, <1>2 DEF JournalInv

LEMMA JournalNext == ASSUME JournalInv, [Next]_vars PROVE JournalInv'
<1>1. Typed' BY TypedNext DEF JournalInv
<1>2. ASSUME NEW j \in Ids PROVE Faith(j)'
  <2>1. CASE StartRecovery BY <2>1, StartRecoveryFaith
  <2>2. CASE InitializationFails \/ Crash \/ \E i \in Ids : RecoveryFails(i)
    BY <2>2, StopFaith
  <2>3. CASE RecoveryDone BY <2>3, RecoveryDoneFaith
  <2>4. CASE Compact
    BY <2>4, CompactFaith DEF Compact, config, JournalInv, Typed
  <2>5. ASSUME NEW i \in Ids, Arrive(i) PROVE Faith(j)'
    BY <2>5, StillReads, OtherFaith DEF Arrive, config, history, JournalInv
  <2>6. CASE UNCHANGED vars
    <3>1. UNCHANGED disk BY <2>6 DEF vars, disk
    <3>2. QED BY <2>6, <3>1, StillReads, OtherFaith DEF vars, JournalInv
  <2>7. QED
    BY <2>1, <2>2, <2>3, <2>4, <2>5, <2>6, MarkLostFaith, AdmitFaith, RejectFaith, StartFaith,
       StartLateFaith, FinishFaith, TimeOutFaith, AnsweredFaith, EvictFaith
    DEF Next
<1>3. QED BY <1>1, <1>2 DEF JournalInv

\* Under fail_closed the file agrees with the clients at every moment: a command they were
\* told of is recovered as they were told, whatever was cut, refused, timed out, evicted or
\* compacted, for any number of commands, crashes and records.
THEOREM RecoveryFaithfulHolds == Spec => []RecoveryFaithful
<1>1. JournalInv => RecoveryFaithful
  <2> SUFFICES ASSUME JournalInv PROVE RecoveryFaithful OBVIOUS
  <2>1. TypeOK BY TypedIsTypeOK DEF JournalInv
  <2>2. ASSUME failClosed, NEW i \in Ids \ (shadowed \cup swallowed) PROVE Agrees(i)
    <3>1. ToldTrue(i) /\ NoStale(i) BY <2>2 DEF JournalInv, Faith, Clean
    <3>2. ASSUME told[i] = "ok"
          PROVE  Recovered(file, i) = "ok" \/ (Recovered(file, i) = NoAnswer /\ i \in forgotten)
      <4>1. Recovered(file, i) = OutcomeIn(file, i) BY <3>1, <3>2 DEF ToldTrue, Recovered
      <4>2. QED BY <3>1, <3>2, <4>1 DEF ToldTrue
    <3>3. (told[i] \in {"fail", "lost"} /\ i \notin forgotten) => Recovered(file, i) # "ok"
      BY <3>1 DEF NoStale, Recovered
    <3>4. QED BY <3>2, <3>3 DEF Agrees
  <2>3. QED BY <2>1, <2>2 DEF RecoveryFaithful
<1>2. QED BY <1>1, JournalInit, JournalNext, PTL DEF Spec

\* Under fail_closed no body begins twice, however often the process crashes and recovers, for
\* an id whose outcome was not forgotten and which no other request's record has touched.
THEOREM AtMostOnceDurablyHolds == Spec => []AtMostOnceDurably
<1>1. JournalInv => AtMostOnceDurably
  BY DEF JournalInv, Faith, Clean, Once, AtMostOnceDurably
<1>2. QED BY <1>1, JournalInit, JournalNext, PTL DEF Spec
-----------------------------------------------------------------------------
(***************************************************************************)
(* The lock file.  The count of a process is that of its open journals;    *)
(* a call holds its process; and a stale file that was read is either      *)
(* still the one of a dead process, or has been replaced by a later one.   *)
(***************************************************************************)

OpenOf(p) == {j \in Journals : Home[j] = p /\ acquired[j]}
Counted == \A p \in Processes : refs[p] = Cardinality(OpenOf(p))
Calling ==
  \A p \in Processes :
    /\ at[p] # "rest" => refs[p] = 0 /\ alive[p] /\ running[p] \in Journals /\ Home[running[p]] = p
    /\ running[p] = Nobody => at[p] = "rest"
    /\ ~alive[p] => refs[p] = 0
FileOwner ==
  /\ lockFile.by = Nobody => lockFile = Lock!NoFile
  /\ lockFile.born <= crashes
  /\ lockFile # Lock!NoFile /\ ~alive[lockFile.by] => lockFile.born < crashes

OwnsFile == \A j \in Journals : acquired[j] => lockFile.by = Home[j] /\ lockFile.written
StillWriting == \A p \in Processes : at[p] = "write" => lockFile.by = p /\ ~lockFile.written
Judged(p) == at[p] \in {"remove", "unlink"} /\ found[p].written
ReadStale ==
  \A p \in Processes :
    Judged(p) =>
      /\ found[p].by # p => at[p] = "remove" /\ found[p].born < crashes
      /\ found[p] = lockFile => \A j \in Journals : Home[j] = lockFile.by => ~acquired[j]
      /\ (found[p].by # p /\ lockFile.by = found[p].by /\ lockFile # Lock!NoFile /\ ~lockFile.written)
           => found[p].born # lockFile.born
Seeing == ~blind => OwnsFile /\ StillWriting /\ ReadStale

Attended ==
  (crashes = 0 /\ ~MayFail /\ lockFile # Lock!NoFile) =>
    refs[lockFile.by] > 0 \/ at[lockFile.by] \in {"write", "check", "unlink"}

LockBase == Lock!TypeOK /\ Counted /\ Calling /\ FileOwner
LockInv == LockBase /\ Seeing /\ Attended

LEMMA LockFacts ==
  /\ Home \in [Journals -> Processes] /\ Nobody \notin Journals /\ Nobody \notin Processes
  /\ MaxCrashes \in Nat /\ IsFiniteSet(Journals)
  /\ Lock!NoFile = [by |-> Nobody, written |-> FALSE, born |-> 0]
<1>1. \A S : Lock!IsFiniteSet(S) <=> IsFiniteSet(S) BY DEF IsFiniteSet, Lock!IsFiniteSet
<1>2. QED BY <1>1, SharingAssumption DEF Lock!LockAssumption, Lock!NoFile

\* A process has an open journal as long as its count is not zero.
LEMMA CountMeans ==
  ASSUME NEW p \in Processes
  PROVE  /\ IsFiniteSet(OpenOf(p)) /\ Cardinality(OpenOf(p)) \in Nat
         /\ (Cardinality(OpenOf(p)) = 0) = (OpenOf(p) = {})
<1>1. IsFiniteSet(OpenOf(p)) BY LockFacts, FS_Subset DEF OpenOf
<1>2. QED BY <1>1, FS_CardinalityType, FS_EmptySet

LEMMA OpensOne ==
  ASSUME Counted, Lock!TypeOK, NEW j \in Journals, ~acquired[j],
         acquired' = [acquired EXCEPT ![j] = TRUE],
         refs' = [refs EXCEPT ![Home[j]] = refs[Home[j]] + 1]
  PROVE  Counted'
<1> SUFFICES ASSUME NEW p \in Processes PROVE refs'[p] = Cardinality(OpenOf(p)')
  BY DEF Counted
<1>1. refs[p] = Cardinality(OpenOf(p)) /\ IsFiniteSet(OpenOf(p)) BY CountMeans DEF Counted
<1>2. /\ \A k \in Journals : acquired'[k] = IF k = j THEN TRUE ELSE acquired[k]
      /\ refs'[p] = IF p = Home[j] THEN refs[p] + 1 ELSE refs[p]
  BY LockFacts DEF Lock!TypeOK
<1>3. CASE p = Home[j]
  <2>1. OpenOf(p)' = OpenOf(p) \cup {j} /\ j \notin OpenOf(p) BY <1>2, <1>3 DEF OpenOf
  <2>2. Cardinality(OpenOf(p)') = Cardinality(OpenOf(p)) + 1 BY <1>1, <2>1, FS_AddElement
  <2>3. QED BY <1>1, <1>2, <1>3, <2>2
<1>4. CASE p # Home[j]
  <2>1. OpenOf(p)' = OpenOf(p) BY <1>2, <1>4 DEF OpenOf
  <2>2. QED BY <1>1, <1>2, <1>4, <2>1
<1>5. QED BY <1>3, <1>4

LEMMA ClosesOne ==
  ASSUME Counted, Lock!TypeOK, NEW j \in Journals, acquired[j],
         acquired' = [acquired EXCEPT ![j] = FALSE],
         refs' = [refs EXCEPT ![Home[j]] = refs[Home[j]] - 1]
  PROVE  Counted'
<1> SUFFICES ASSUME NEW p \in Processes PROVE refs'[p] = Cardinality(OpenOf(p)')
  BY DEF Counted
<1>1. refs[p] = Cardinality(OpenOf(p)) /\ IsFiniteSet(OpenOf(p)) BY CountMeans DEF Counted
<1>2. /\ \A k \in Journals : acquired'[k] <=> (k # j /\ acquired[k])
      /\ refs'[p] = IF p = Home[j] THEN refs[p] - 1 ELSE refs[p]
  BY LockFacts DEF Lock!TypeOK
<1>3. CASE p = Home[j]
  <2>1. OpenOf(p)' = OpenOf(p) \ {j} /\ j \in OpenOf(p) BY <1>2, <1>3 DEF OpenOf
  <2>2. Cardinality(OpenOf(p)') = Cardinality(OpenOf(p)) - 1 BY <1>1, <2>1, FS_RemoveElement
  <2>3. QED BY <1>1, <1>2, <1>3, <2>2
<1>4. CASE p # Home[j]
  <2>1. OpenOf(p)' = OpenOf(p) BY <1>2, <1>4 DEF OpenOf
  <2>2. QED BY <1>1, <1>2, <1>4, <2>1
<1>5. QED BY <1>3, <1>4

LEMMA SameCount == ASSUME Counted, UNCHANGED <<acquired, refs>> PROVE Counted'
BY DEF Counted, OpenOf

LEMMA LockBaseInit == Lock!Init => LockInv
<1> SUFFICES ASSUME Lock!Init PROVE LockInv OBVIOUS
<1>1. Lock!TypeOK BY LockFacts DEF Lock!Init, Lock!TypeOK, Lock!LockFiles
<1>2. Counted
  <2>1. \A p \in Processes : OpenOf(p) = {} BY DEF Lock!Init, OpenOf
  <2>2. QED BY <2>1, FS_EmptySet DEF Counted, Lock!Init
<1>3. Calling /\ FileOwner /\ Seeing /\ Attended
  BY LockFacts
  DEF Lock!Init, Calling, FileOwner, Seeing, OwnsFile, StillWriting, ReadStale, Judged, Attended
<1>4. QED BY <1>1, <1>2, <1>3 DEF LockInv, LockBase

LEMMA LockBaseNext == ASSUME LockBase, [Lock!Next]_lockVars PROVE LockBase'
<1> USE LockFacts DEF LockBase
<1> USE DEF Lock!Idle, Lock!GoTo, Lock!Return
<1>1. ASSUME NEW j \in Journals, Lock!AcquireShared(j) PROVE LockBase'
  <2>1. Counted' BY <1>1, OpensOne DEF Lock!AcquireShared
  <2>2. Lock!TypeOK' BY <1>1 DEF Lock!AcquireShared, Lock!TypeOK, Lock!LockFiles
  <2>3. Calling' BY <1>1, <2>2 DEF Lock!AcquireShared, Lock!FirstInProcess, Lock!TypeOK, Calling
  <2>4. FileOwner' BY <1>1 DEF Lock!AcquireShared, FileOwner
  <2>5. QED BY <2>1, <2>2, <2>3, <2>4
<1>2. ASSUME NEW j \in Journals, Lock!AcquireProcessLock(j) PROVE LockBase'
  <2>1. Counted' BY <1>2, SameCount DEF Lock!AcquireProcessLock
  <2>2. Lock!TypeOK' BY <1>2 DEF Lock!AcquireProcessLock, Lock!TypeOK, Lock!LockFiles
  <2>3. Calling'
    BY <1>2, <2>2 DEF Lock!AcquireProcessLock, Lock!FirstInProcess, Lock!TypeOK, Calling
  <2>4. FileOwner' BY <1>2 DEF Lock!AcquireProcessLock, FileOwner
  <2>5. QED BY <2>1, <2>2, <2>3, <2>4
<1>3. ASSUME NEW j \in Journals, Lock!ReleaseShared(j) PROVE LockBase'
  <2>1. Counted' BY <1>3, ClosesOne DEF Lock!ReleaseShared
  <2>2. Lock!TypeOK' BY <1>3 DEF Lock!ReleaseShared, Lock!TypeOK, Lock!LockFiles
  <2>3. Calling' BY <1>3, <2>2 DEF Lock!ReleaseShared, Lock!TypeOK, Calling
  <2>4. FileOwner' BY <1>3 DEF Lock!ReleaseShared, FileOwner
  <2>5. QED BY <2>1, <2>2, <2>3, <2>4
<1>4. ASSUME NEW j \in Journals, Lock!ReleaseProcessLock(j) PROVE LockBase'
  <2>0. refs' = [refs EXCEPT ![Home[j]] = refs[Home[j]] - 1] /\ refs[Home[j]] = 1
    BY <1>4 DEF Lock!ReleaseProcessLock
  <2>1. Counted' BY <1>4, <2>0, ClosesOne DEF Lock!ReleaseProcessLock
  <2>2. Lock!TypeOK' BY <1>4 DEF Lock!ReleaseProcessLock, Lock!TypeOK, Lock!LockFiles
  <2>3. Calling' BY <1>4, <2>2 DEF Lock!ReleaseProcessLock, Lock!TypeOK, Calling
  <2>4. FileOwner' BY <1>4 DEF Lock!ReleaseProcessLock, FileOwner
  <2>5. QED BY <2>1, <2>2, <2>3, <2>4
<1>5. ASSUME NEW p \in Processes, Lock!WritePayload(p) PROVE LockBase'
  <2>0. /\ refs[p] = 0 /\ running[p] \in Journals /\ Home[running[p]] = p
        /\ refs' = [refs EXCEPT ![p] = 1] /\ acquired' = [acquired EXCEPT ![running[p]] = TRUE]
    BY <1>5 DEF Lock!WritePayload, Calling
  <2>1. OpenOf(p) = {} /\ ~acquired[running[p]]
    BY <2>0, CountMeans DEF Counted, OpenOf, Lock!TypeOK
  <2>2. Counted'
    <3> DEFINE j == running[p]
    <3>1. j \in Journals /\ ~acquired[j] /\ acquired' = [acquired EXCEPT ![j] = TRUE]
      BY <2>0, <2>1
    <3>2. refs' = [refs EXCEPT ![Home[j]] = refs[Home[j]] + 1]
      <4>1. Home[j] = p /\ refs[p] + 1 = 1 BY <2>0
      <4>2. QED BY <2>0, <4>1
    <3> HIDE DEF j
    <3>3. QED BY <3>1, <3>2, OpensOne
  <2>7. /\ lockFile' \in Lock!LockFiles /\ lockFile'.by = lockFile.by
        /\ lockFile'.born = lockFile.born /\ (lockFile' = lockFile \/ lockFile.by = p)
    BY <1>5 DEF Lock!WritePayload, Lock!TypeOK, Lock!LockFiles
  <2>8. found' \in [Processes -> Lock!LockFiles]
    BY <1>5 DEF Lock!WritePayload, Lock!TypeOK, Lock!LockFiles
  <2>3. Lock!TypeOK' BY <1>5, <2>0, <2>7, <2>8 DEF Lock!WritePayload, Lock!TypeOK
  <2>4. Calling' BY <1>5, <2>0, <2>3 DEF Lock!WritePayload, Lock!TypeOK, Calling
  <2>5. FileOwner'
    <3>1. alive[p] /\ p # Nobody /\ UNCHANGED <<alive, crashes>>
      BY <1>5 DEF Lock!WritePayload, Calling
    <3>2. QED BY <2>7, <3>1 DEF FileOwner
  <2>6. QED BY <2>2, <2>3, <2>4, <2>5
<1>6. ASSUME NEW p \in Processes,
             \/ Lock!CreateFile(p) \/ Lock!WriteFails(p) \/ Lock!FileExists(p)
             \/ Lock!RefusedByOwner(p) \/ Lock!FoundStale(p) \/ Lock!RefusedAgain(p)
             \/ Lock!CheckOwner(p)
      PROVE  LockBase'
  <2>1. UNCHANGED <<refs, acquired, alive, crashes, blind>>
    BY <1>6
    DEF Lock!CreateFile, Lock!WriteFails, Lock!FileExists, Lock!RefusedByOwner, Lock!FoundStale,
        Lock!RefusedAgain, Lock!CheckOwner
  <2>2. Counted' BY <2>1, SameCount
  <2>3. Lock!TypeOK'
    <3>1. lockFile' \in Lock!LockFiles
      <4>1. lockFile' = [by |-> p, written |-> FALSE, born |-> crashes] \/ UNCHANGED lockFile
        BY <1>6
        DEF Lock!CreateFile, Lock!WriteFails, Lock!FileExists, Lock!RefusedByOwner,
            Lock!FoundStale, Lock!RefusedAgain, Lock!CheckOwner
      <4>2. crashes \in Nat /\ lockFile \in Lock!LockFiles BY DEF Lock!TypeOK
      <4>3. [by |-> p, written |-> FALSE, born |-> crashes] \in Lock!LockFiles
        BY <4>2 DEF Lock!LockFiles
      <4>4. QED BY <4>1, <4>2, <4>3
    <3>2. Lock!NoFile \in Lock!LockFiles BY DEF Lock!LockFiles
    <3>3. found' \in [Processes -> Lock!LockFiles]
      BY <1>6, <3>2
      DEF Lock!CreateFile, Lock!WriteFails, Lock!FileExists, Lock!RefusedByOwner, Lock!FoundStale,
          Lock!RefusedAgain, Lock!CheckOwner, Lock!TypeOK
    <3>4. /\ running' \in [Processes -> Journals \cup {Nobody}]
          /\ at' \in [Processes -> {"rest", "create", "write", "judge", "remove", "recreate", "check",
                                   "unlink"}]
      BY <1>6
      DEF Lock!CreateFile, Lock!WriteFails, Lock!FileExists, Lock!RefusedByOwner, Lock!FoundStale,
          Lock!RefusedAgain, Lock!CheckOwner, Lock!TypeOK
    <3>5. QED BY <2>1, <3>1, <3>3, <3>4 DEF Lock!TypeOK
  <2>4. Calling'
    BY <1>6, <2>3
    DEF Lock!CreateFile, Lock!WriteFails, Lock!FileExists, Lock!RefusedByOwner, Lock!FoundStale,
        Lock!RefusedAgain, Lock!CheckOwner, Lock!TypeOK, Calling
  <2>5. FileOwner'
    BY <1>6, <2>1
    DEF Lock!CreateFile, Lock!WriteFails, Lock!FileExists, Lock!RefusedByOwner, Lock!FoundStale,
        Lock!RefusedAgain, Lock!CheckOwner, Lock!TypeOK, FileOwner, Calling
  <2>6. QED BY <2>2, <2>3, <2>4, <2>5
<1>7. ASSUME NEW p \in Processes, Lock!RemoveStale(p) \/ Lock!Unlink(p) PROVE LockBase'
  <2>1. UNCHANGED <<refs, acquired, alive, crashes>> /\ lockFile' = Lock!NoFile
    BY <1>7 DEF Lock!RemoveStale, Lock!Unlink, Lock!Removing
  <2>2. Counted' BY <2>1, SameCount
  <2>3. Lock!TypeOK'
    <3>1. Lock!NoFile \in Lock!LockFiles BY DEF Lock!LockFiles
    <3>2. blind' \in BOOLEAN
      BY <1>7 DEF Lock!RemoveStale, Lock!Unlink, Lock!Removing, Lock!TypeOK
    <3>3. found' \in [Processes -> Lock!LockFiles]
      BY <1>7, <3>1 DEF Lock!RemoveStale, Lock!Unlink, Lock!TypeOK
    <3>4. /\ running' \in [Processes -> Journals \cup {Nobody}]
          /\ at' \in [Processes -> {"rest", "create", "write", "judge", "remove", "recreate", "check",
                                   "unlink"}]
      BY <1>7 DEF Lock!RemoveStale, Lock!Unlink, Lock!TypeOK
    <3>5. QED BY <2>1, <3>1, <3>2, <3>3, <3>4 DEF Lock!TypeOK
  <2>4. Calling'
    BY <1>7, <2>3 DEF Lock!RemoveStale, Lock!Unlink, Lock!TypeOK, Calling
  <2>5. FileOwner' BY <2>1 DEF FileOwner, Lock!TypeOK
  <2>6. QED BY <2>2, <2>3, <2>4, <2>5
<1>8. ASSUME NEW p \in Processes, Lock!Crash(p) PROVE LockBase'
  <2>1. /\ refs' = [refs EXCEPT ![p] = 0]
        /\ acquired' = [j \in Journals |-> acquired[j] /\ Home[j] # p]
    BY <1>8 DEF Lock!Crash
  <2>2. Counted'
    <3> SUFFICES ASSUME NEW q \in Processes PROVE refs'[q] = Cardinality(OpenOf(q)')
      BY DEF Counted
    <3>1. OpenOf(q)' = IF q = p THEN {} ELSE OpenOf(q) BY <2>1 DEF OpenOf
    <3>2. refs'[q] = IF q = p THEN 0 ELSE refs[q] BY <2>1 DEF Lock!TypeOK
    <3>3. QED BY <3>1, <3>2, FS_EmptySet DEF Counted
  <2>3. Lock!TypeOK' BY <1>8 DEF Lock!Crash, Lock!TypeOK, Lock!LockFiles
  <2>4. Calling' BY <1>8, <2>3 DEF Lock!Crash, Lock!TypeOK, Calling
  <2>5. FileOwner' BY <1>8 DEF Lock!Crash, Lock!TypeOK, Lock!LockFiles, FileOwner
  <2>6. QED BY <2>2, <2>3, <2>4, <2>5
<1>9. ASSUME NEW p \in Processes, Lock!Restart(p) PROVE LockBase'
  <2>1. Counted' BY <1>9, SameCount DEF Lock!Restart
  <2>2. Lock!TypeOK' /\ Calling' /\ FileOwner'
    BY <1>9 DEF Lock!Restart, Lock!TypeOK, Lock!LockFiles, Calling, FileOwner
  <2>3. QED BY <2>1, <2>2
<1>10. CASE UNCHANGED lockVars
  <2>1. Counted' BY <1>10, SameCount DEF lockVars
  <2>2. Lock!TypeOK' /\ Calling' /\ FileOwner'
    BY <1>10 DEF lockVars, Lock!TypeOK, Calling, FileOwner
  <2>3. QED BY <2>1, <2>2
<1>11. QED
  BY <1>1, <1>2, <1>3, <1>4, <1>5, <1>6, <1>7, <1>8, <1>9, <1>10 DEF Lock!Next, Lock!Step

\* A process whose count is not zero has an open journal; a closed one has none.
LEMMA CountSays ==
  ASSUME LockBase, NEW p \in Processes
  PROVE  (refs[p] = 0) = (\A j \in Journals : Home[j] = p => ~acquired[j])
<1>1. (refs[p] = 0) = (OpenOf(p) = {}) BY CountMeans DEF LockBase, Counted
<1>2. QED BY <1>1 DEF OpenOf

\* Whoever removes a file unseen leaves nobody's file removed.
LEMMA RemovesUnused ==
  ASSUME LockInv, NEW p \in Processes, at[p] \in {"remove", "unlink"}, Lock!Removing(p), ~blind'
  PROVE  /\ ~blind /\ lockFile' = Lock!NoFile /\ \A j \in Journals : ~acquired[j]
         /\ \A q \in Processes : at[q] # "write"
<1>1. /\ ~blind /\ lockFile' = Lock!NoFile
      /\ lockFile = Lock!NoFile \/ (lockFile = found[p] /\ lockFile.written)
  BY DEF Lock!Removing
<1>2. OwnsFile /\ StillWriting /\ ReadStale BY <1>1 DEF LockInv, Seeing
<1>3. CASE lockFile = Lock!NoFile
  <2>1. lockFile.by = Nobody BY <1>3, LockFacts
  <2>2. QED BY <1>1, <1>2, <2>1, LockFacts DEF OwnsFile, StillWriting
<1>4. CASE lockFile = found[p] /\ lockFile.written
  <2>1. Judged(p) BY <1>4 DEF Judged
  <2>2. \A j \in Journals : Home[j] = lockFile.by => ~acquired[j]
    BY <1>2, <1>4, <2>1 DEF ReadStale
  <2>3. QED BY <1>1, <1>2, <1>4, <2>2 DEF OwnsFile, StillWriting
<1>5. QED BY <1>1, <1>3, <1>4

LEMMA SeeingNext == ASSUME LockInv, [Lock!Next]_lockVars PROVE Seeing'
<1> SUFFICES ASSUME ~blind' PROVE (OwnsFile /\ StillWriting /\ ReadStale)' BY DEF Seeing
<1>0. LockBase /\ LockBase' /\ Lock!TypeOK /\ Calling /\ FileOwner
  BY LockBaseNext DEF LockInv, LockBase
<1> USE LockFacts DEF Lock!GoTo, Lock!Return
<1>1. ASSUME NEW j \in Journals, Lock!AcquireShared(j) PROVE (OwnsFile /\ StillWriting /\ ReadStale)'
  <2>1. /\ OwnsFile /\ StillWriting /\ ReadStale /\ refs[Home[j]] # 0
        /\ acquired' = [acquired EXCEPT ![j] = TRUE]
        /\ UNCHANGED <<lockFile, running, at, found, alive, crashes>>
    BY <1>1 DEF Lock!AcquireShared, Lock!FirstInProcess, LockInv, Seeing
  <2>2. PICK k \in Journals : Home[k] = Home[j] /\ acquired[k] BY <1>0, <2>1, CountSays
  <2>3. \A m \in Journals : acquired'[m] => acquired[m] \/ m = j
    BY <1>0, <2>1 DEF Lock!TypeOK
  <2>4. OwnsFile' BY <2>1, <2>2, <2>3 DEF OwnsFile
  <2>5. StillWriting' BY <2>1 DEF StillWriting
  <2>6. ReadStale' BY <2>1, <2>2, <2>3 DEF ReadStale, Judged
  <2>7. QED BY <2>4, <2>5, <2>6
<1>2. ASSUME NEW j \in Journals,
             \/ Lock!AcquireProcessLock(j) \/ Lock!ReleaseShared(j) \/ Lock!ReleaseProcessLock(j)
      PROVE (OwnsFile /\ StillWriting /\ ReadStale)'
  <2>1. /\ OwnsFile /\ StillWriting /\ ReadStale
        /\ UNCHANGED <<lockFile, found, alive, crashes>>
    BY <1>2 DEF Lock!AcquireProcessLock, Lock!ReleaseShared, Lock!ReleaseProcessLock, LockInv, Seeing
  <2>2. \A m \in Journals : acquired'[m] => acquired[m]
    BY <1>0, <1>2
    DEF Lock!AcquireProcessLock, Lock!ReleaseShared, Lock!ReleaseProcessLock, Lock!TypeOK
  <2>3. \A q \in Processes : at'[q] = at[q] \/ at'[q] \in {"create", "check"}
    BY <1>0, <1>2
    DEF Lock!AcquireProcessLock, Lock!ReleaseShared, Lock!ReleaseProcessLock, Lock!TypeOK
  <2>4. OwnsFile' BY <2>1, <2>2 DEF OwnsFile
  <2>5. StillWriting' BY <2>1, <2>3 DEF StillWriting
  <2>6. ReadStale' BY <2>1, <2>2, <2>3 DEF ReadStale, Judged
  <2>7. QED BY <2>4, <2>5, <2>6
<1>3. ASSUME NEW p \in Processes, Lock!CreateFile(p) PROVE (OwnsFile /\ StillWriting /\ ReadStale)'
  <2>1. /\ OwnsFile /\ StillWriting /\ ReadStale /\ lockFile = Lock!NoFile
        /\ lockFile' = [by |-> p, written |-> FALSE, born |-> crashes]
        /\ UNCHANGED <<acquired, found, crashes>> /\ at' = [at EXCEPT ![p] = "write"]
    BY <1>3 DEF Lock!CreateFile, LockInv, Seeing
  <2>2. \A q \in Processes : at'[q] = IF q = p THEN "write" ELSE at[q]
    BY <1>0, <2>1 DEF Lock!TypeOK
  <2>3. OwnsFile' BY <2>1 DEF OwnsFile
  <2>4. StillWriting' BY <2>1, <2>2 DEF StillWriting
  <2>5. ReadStale'
    <3> SUFFICES ASSUME NEW q \in Processes, Judged(q)'
                 PROVE  /\ found[q].by # q => at'[q] = "remove" /\ found[q].born < crashes
                        /\ found[q] # lockFile' /\ (found[q].by # q => found[q].born # lockFile'.born)
      BY <2>1 DEF ReadStale
    <3>1. q # p /\ Judged(q) /\ found[q].written BY <2>1, <2>2 DEF Judged
    <3>2. found[q].by # q => at[q] = "remove" /\ found[q].born < crashes
      BY <2>1, <3>1 DEF ReadStale
    <3>3. found[q] \in Lock!LockFiles /\ crashes \in Nat BY <1>0 DEF Lock!TypeOK
    <3>4. found[q].born \in Nat BY <3>3 DEF Lock!LockFiles
    <3>5. QED BY <2>1, <2>2, <3>1, <3>2, <3>3, <3>4
  <2>6. QED BY <2>3, <2>4, <2>5
<1>4. ASSUME NEW p \in Processes, Lock!WritePayload(p) PROVE (OwnsFile /\ StillWriting /\ ReadStale)'
  <2>1. /\ OwnsFile /\ StillWriting /\ ReadStale /\ lockFile.by = p /\ ~lockFile.written
        /\ lockFile' = [lockFile EXCEPT !.written = TRUE]
        /\ running[p] \in Journals /\ Home[running[p]] = p
    BY <1>0, <1>4 DEF Lock!WritePayload, LockInv, Seeing, StillWriting, Calling
  <2>2. /\ acquired' = [acquired EXCEPT ![running[p]] = TRUE] /\ at' = [at EXCEPT ![p] = "rest"]
        /\ found' = [found EXCEPT ![p] = Lock!NoFile] /\ UNCHANGED crashes
    BY <1>4 DEF Lock!WritePayload
  <2>3. lockFile'.by = p /\ lockFile'.written /\ lockFile'.born = lockFile.born
    <3>1. lockFile \in Lock!LockFiles BY <1>0 DEF Lock!TypeOK
    <3>2. QED BY <2>1, <3>1 DEF Lock!LockFiles
  <2>4. \A m \in Journals : ~acquired[m] /\ (acquired'[m] => m = running[p])
    BY <1>0, <2>1, <2>2 DEF OwnsFile, Lock!TypeOK
  <2>5. \A q \in Processes : /\ at'[q] = IF q = p THEN "rest" ELSE at[q]
                             /\ q # p => found'[q] = found[q]
    BY <1>0, <2>2 DEF Lock!TypeOK
  <2>6. OwnsFile' BY <2>1, <2>3, <2>4 DEF OwnsFile
  <2>7. StillWriting' BY <2>1, <2>5 DEF StillWriting
  <2>8. ReadStale'
    <3> SUFFICES ASSUME NEW q \in Processes, Judged(q)'
                 PROVE  /\ found'[q].by # q => at'[q] = "remove" /\ found'[q].born < crashes
                        /\ found'[q] # lockFile'
      BY <2>2, <2>3 DEF ReadStale
    <3>1. q # p /\ Judged(q) /\ found'[q] = found[q] /\ at'[q] = at[q] BY <2>5 DEF Judged
    <3>2. /\ found[q].by # q => at[q] = "remove" /\ found[q].born < crashes
          /\ found[q].by # q /\ found[q].by = p => found[q].born # lockFile.born
      BY <2>1, <3>1 DEF ReadStale
    <3>3. QED BY <2>3, <3>1, <3>2
  <2>9. QED BY <2>6, <2>7, <2>8
<1>5. ASSUME NEW p \in Processes,
             \/ Lock!WriteFails(p) \/ Lock!FileExists(p) \/ Lock!RefusedByOwner(p)
             \/ Lock!RefusedAgain(p)
      PROVE  (OwnsFile /\ StillWriting /\ ReadStale)'
  <2>1. OwnsFile /\ StillWriting /\ ReadStale /\ UNCHANGED <<lockFile, acquired, crashes>>
    BY <1>5
    DEF Lock!WriteFails, Lock!FileExists, Lock!RefusedByOwner, Lock!RefusedAgain, LockInv, Seeing
  <2>2. \A q \in Processes : \/ at'[q] = at[q] /\ found'[q] = found[q]
                             \/ at'[q] \in {"rest", "judge"}
    BY <1>0, <1>5
    DEF Lock!WriteFails, Lock!FileExists, Lock!RefusedByOwner, Lock!RefusedAgain, Lock!TypeOK
  <2>3. OwnsFile' BY <2>1 DEF OwnsFile
  <2>4. StillWriting' BY <2>1, <2>2 DEF StillWriting
  <2>5. ReadStale' BY <2>1, <2>2 DEF ReadStale, Judged
  <2>6. QED BY <2>3, <2>4, <2>5
<1>6. ASSUME NEW p \in Processes, Lock!FoundStale(p) \/ Lock!CheckOwner(p)
      PROVE  (OwnsFile /\ StillWriting /\ ReadStale)'
  <2>1. OwnsFile /\ StillWriting /\ ReadStale /\ UNCHANGED <<lockFile, acquired, crashes>>
    BY <1>6 DEF Lock!FoundStale, Lock!CheckOwner, LockInv, Seeing
  <2>2. /\ \A q \in Processes \ {p} : at'[q] = at[q] /\ found'[q] = found[q]
        /\ \/ at'[p] = "rest"
           \/ /\ found'[p] = lockFile
              /\ \/ at'[p] = "remove" /\ ~Lock!LiveOwner(p)
                 \/ at'[p] = "unlink" /\ ~Lock!SomeoneElses(p)
    BY <1>0, <1>6 DEF Lock!FoundStale, Lock!CheckOwner, Lock!TypeOK
  <2>3. refs[p] = 0 BY <1>0, <1>6 DEF Lock!FoundStale, Lock!CheckOwner, Calling
  <2>4. OwnsFile' BY <2>1 DEF OwnsFile
  <2>5. StillWriting' BY <2>1, <2>2 DEF StillWriting
  <2>6. ASSUME Judged(p)'
        PROVE  /\ found'[p] = lockFile /\ lockFile.written
               /\ lockFile.by # p => at'[p] = "remove" /\ lockFile.born < crashes
               /\ \A j \in Journals : Home[j] = lockFile.by => ~acquired[j]
    <3>1. found'[p] = lockFile /\ lockFile.written BY <2>2, <2>6 DEF Judged
    <3>2. CASE lockFile.by = p BY <1>0, <2>3, <3>1, <3>2, CountSays
    <3>3. CASE lockFile.by # p
      <4>1. at'[p] = "remove" /\ ~alive[lockFile.by]
        BY <2>2, <2>6, <3>1, <3>3 DEF Judged, Lock!LiveOwner, Lock!SomeoneElses
      <4>2. lockFile # Lock!NoFile /\ lockFile.by # Nobody
        BY <1>0, <3>1 DEF FileOwner
      <4>3. lockFile.by \in Processes
        BY <1>0, <4>2 DEF Lock!TypeOK, Lock!LockFiles
      <4>4. lockFile.born < crashes /\ refs[lockFile.by] = 0
        BY <1>0, <4>1, <4>2, <4>3 DEF FileOwner, Calling
      <4>5. QED BY <1>0, <3>1, <4>1, <4>3, <4>4, CountSays
    <3>4. QED BY <3>2, <3>3
  <2>7. ReadStale' BY <2>1, <2>2, <2>6 DEF ReadStale, Judged
  <2>8. QED BY <2>4, <2>5, <2>7
<1>7. ASSUME NEW p \in Processes, Lock!RemoveStale(p) \/ Lock!Unlink(p)
      PROVE  (OwnsFile /\ StillWriting /\ ReadStale)'
  <2>1. at[p] \in {"remove", "unlink"} /\ Lock!Removing(p) /\ UNCHANGED <<acquired, crashes>>
    BY <1>7 DEF Lock!RemoveStale, Lock!Unlink
  <2>2. /\ ~blind /\ lockFile' = Lock!NoFile /\ \A j \in Journals : ~acquired[j]
        /\ \A q \in Processes : at[q] # "write"
    BY <2>1, RemovesUnused
  <2>3. \A q \in Processes : \/ at'[q] = at[q] /\ found'[q] = found[q]
                             \/ at'[q] \in {"rest", "recreate"}
    BY <1>0, <1>7 DEF Lock!RemoveStale, Lock!Unlink, Lock!TypeOK
  <2>4. ReadStale BY <2>2 DEF LockInv, Seeing
  <2>5. OwnsFile' BY <2>1, <2>2 DEF OwnsFile
  <2>6. StillWriting' BY <2>2, <2>3 DEF StillWriting
  <2>7. ReadStale'
    <3> SUFFICES ASSUME NEW q \in Processes, Judged(q)'
                 PROVE  found'[q].by # q => at'[q] = "remove" /\ found'[q].born < crashes
      BY <2>1, <2>2 DEF ReadStale
    <3>1. Judged(q) /\ found'[q] = found[q] /\ at'[q] = at[q] BY <2>3 DEF Judged
    <3>2. QED BY <2>4, <3>1 DEF ReadStale
  <2>8. QED BY <2>5, <2>6, <2>7
<1>8. ASSUME NEW p \in Processes, Lock!Crash(p) PROVE (OwnsFile /\ StillWriting /\ ReadStale)'
  <2>1. /\ OwnsFile /\ StillWriting /\ ReadStale /\ UNCHANGED lockFile
        /\ crashes' = crashes + 1 /\ crashes \in Nat
        /\ acquired' = [j \in Journals |-> acquired[j] /\ Home[j] # p]
    BY <1>0, <1>8 DEF Lock!Crash, LockInv, Seeing, Lock!TypeOK
  <2>2. \A q \in Processes : (at'[q] = at[q] /\ found'[q] = found[q]) \/ at'[q] = "rest"
    BY <1>0, <1>8 DEF Lock!Crash, Lock!TypeOK
  <2>3. \A j \in Journals : acquired'[j] => acquired[j] BY <2>1
  <2>4. OwnsFile' BY <2>1, <2>3 DEF OwnsFile
  <2>5. StillWriting' BY <2>1, <2>2 DEF StillWriting
  <2>6. ReadStale'
    <3> SUFFICES ASSUME NEW q \in Processes, Judged(q)'
                 PROVE  /\ found'[q] = found[q] /\ Judged(q)
                        /\ found[q].by # q => at'[q] = "remove" /\ found[q].born < crashes'
      BY <2>1, <2>3 DEF ReadStale
    <3>1. Judged(q) /\ found'[q] = found[q] /\ at'[q] = at[q] BY <2>2 DEF Judged
    <3>2. found[q] \in Lock!LockFiles BY <1>0 DEF Lock!TypeOK
    <3>3. found[q].born \in Nat BY <3>2 DEF Lock!LockFiles
    <3>4. QED BY <2>1, <3>1, <3>3 DEF ReadStale
  <2>7. QED BY <2>4, <2>5, <2>6
<1>9. ASSUME NEW p \in Processes, Lock!Restart(p) PROVE (OwnsFile /\ StillWriting /\ ReadStale)'
  BY <1>9
  DEF Lock!Restart, LockInv, Seeing, OwnsFile, StillWriting, ReadStale, Judged
<1>10. CASE UNCHANGED lockVars
  BY <1>10 DEF lockVars, LockInv, Seeing, OwnsFile, StillWriting, ReadStale, Judged
<1>11. QED
  BY <1>1, <1>2, <1>3, <1>4, <1>5, <1>6, <1>7, <1>8, <1>9, <1>10 DEF Lock!Next, Lock!Step

LEMMA AttendedNext == ASSUME LockInv, [Lock!Next]_lockVars PROVE Attended'
<1> SUFFICES ASSUME crashes' = 0, ~MayFail, lockFile' # Lock!NoFile
             PROVE  \/ refs'[lockFile'.by] > 0 \/ at'[lockFile'.by] \in {"write", "check", "unlink"}
  BY DEF Attended
<1>0. LockBase /\ Lock!TypeOK /\ Calling /\ FileOwner BY DEF LockInv, LockBase
<1> DEFINE o == lockFile.by
<1> USE LockFacts DEF Lock!GoTo, Lock!Return
<1>1. ASSUME UNCHANGED <<lockFile, crashes>>
      PROVE  /\ o \in Processes /\ o = lockFile'.by
             /\ refs[o] > 0 \/ at[o] \in {"write", "check", "unlink"}
  <2>1. o # Nobody BY <1>0, <1>1 DEF FileOwner
  <2>2. o \in Processes BY <1>0, <2>1 DEF Lock!TypeOK, Lock!LockFiles
  <2>3. QED BY <1>1, <2>2 DEF LockInv, Attended
<1>2. ASSUME NEW j \in Journals,
             \/ Lock!AcquireShared(j) \/ Lock!AcquireProcessLock(j)
             \/ Lock!ReleaseShared(j) \/ Lock!ReleaseProcessLock(j)
      PROVE  refs'[lockFile'.by] > 0 \/ at'[lockFile'.by] \in {"write", "check", "unlink"}
  <2>1. UNCHANGED <<lockFile, crashes>> /\ Lock!Idle(j)
    BY <1>2
    DEF Lock!AcquireShared, Lock!AcquireProcessLock, Lock!ReleaseShared, Lock!ReleaseProcessLock
  <2>2. o \in Processes /\ o = lockFile'.by /\ refs[o] \in Nat BY <1>0, <1>1, <2>1 DEF Lock!TypeOK
  <2>3. refs[o] > 0 \/ (o # Home[j] /\ at[o] \in {"write", "check", "unlink"})
    BY <1>0, <1>1, <2>1 DEF Calling, Lock!Idle
  <2>4. QED
    BY <1>0, <1>2, <2>2, <2>3
    DEF Lock!AcquireShared, Lock!AcquireProcessLock, Lock!ReleaseShared, Lock!ReleaseProcessLock,
        Lock!FirstInProcess, Lock!TypeOK
<1>3. ASSUME NEW p \in Processes, Lock!CreateFile(p)
      PROVE  at'[lockFile'.by] = "write"
  BY <1>0, <1>3 DEF Lock!CreateFile, Lock!TypeOK
<1>4. ASSUME NEW p \in Processes, Lock!WritePayload(p)
      PROVE  refs'[lockFile'.by] > 0 \/ at'[lockFile'.by] \in {"write", "check", "unlink"}
  <2>1. /\ refs' = [refs EXCEPT ![p] = 1] /\ at' = [at EXCEPT ![p] = "rest"] /\ crashes' = crashes
        /\ lockFile' = IF o = p THEN [lockFile EXCEPT !.written = TRUE] ELSE lockFile
    BY <1>4 DEF Lock!WritePayload
  <2>2. CASE o = p
    <3>1. lockFile'.by = p BY <1>0, <2>1, <2>2 DEF Lock!TypeOK, Lock!LockFiles
    <3>2. QED BY <1>0, <2>1, <3>1 DEF Lock!TypeOK
  <2>3. CASE o # p BY <1>0, <1>1, <2>1, <2>3 DEF Lock!TypeOK
  <2>4. QED BY <2>2, <2>3
<1>5. ASSUME NEW p \in Processes,
             \/ Lock!WriteFails(p) \/ Lock!FileExists(p) \/ Lock!RefusedByOwner(p)
             \/ Lock!FoundStale(p) \/ Lock!RefusedAgain(p) \/ Lock!CheckOwner(p)
      PROVE  refs'[lockFile'.by] > 0 \/ at'[lockFile'.by] \in {"write", "check", "unlink"}
  <2>1. UNCHANGED <<lockFile, crashes, refs>>
    BY <1>5
    DEF Lock!WriteFails, Lock!FileExists, Lock!RefusedByOwner, Lock!FoundStale, Lock!RefusedAgain,
        Lock!CheckOwner
  <2>2. /\ o \in Processes /\ o = lockFile'.by
        /\ refs[o] > 0 \/ at[o] \in {"write", "check", "unlink"}
    BY <1>1, <2>1
  <2>3. CASE Lock!CheckOwner(p)
    <3>1. \/ o # p /\ at' = [at EXCEPT ![p] = "rest"]
          \/ at' = [at EXCEPT ![p] = "unlink"]
      BY <2>3 DEF Lock!CheckOwner, Lock!SomeoneElses
    <3>2. QED BY <1>0, <2>1, <2>2, <3>1 DEF Lock!TypeOK
  <2>4. CASE ~Lock!CheckOwner(p)
    <3>1. /\ at[p] \in {"create", "judge", "recreate"}
          /\ \A q \in Processes \ {p} : at'[q] = at[q]
      BY <1>0, <1>5, <2>4
      DEF Lock!WriteFails, Lock!FileExists, Lock!RefusedByOwner, Lock!FoundStale,
          Lock!RefusedAgain, Lock!TypeOK
    <3>2. o = p => refs[o] = 0 BY <1>0, <3>1 DEF Calling
    <3>3. QED BY <2>1, <2>2, <3>1, <3>2
  <2>5. QED BY <2>3, <2>4
<1>6. ASSUME NEW p \in Processes, Lock!RemoveStale(p) \/ Lock!Unlink(p) PROVE FALSE
  BY <1>6 DEF Lock!RemoveStale, Lock!Unlink, Lock!Removing
<1>7. ASSUME NEW p \in Processes, Lock!Crash(p) PROVE FALSE
  BY <1>0, <1>7 DEF Lock!Crash, Lock!TypeOK
<1>8. ASSUME NEW p \in Processes, Lock!Restart(p)
      PROVE  refs'[lockFile'.by] > 0 \/ at'[lockFile'.by] \in {"write", "check", "unlink"}
  BY <1>1, <1>8 DEF Lock!Restart
<1>9. CASE UNCHANGED lockVars BY <1>1, <1>9 DEF lockVars
<1>10. QED
  BY <1>2, <1>3, <1>4, <1>5, <1>6, <1>7, <1>8, <1>9 DEF Lock!Next, Lock!Step

\* For any number of processes, journals, crashes and full disks: until a lock file is removed
\* unseen, a process with an open journal owns the lock file, whatever its other journals
\* close; and without crashes and full disks the last one to close takes the file away.
THEOREM LockFileKeptHolds == Lock!Spec => []LockFileKept
<1>1. LockInv => LockFileKept
  <2> SUFFICES ASSUME LockInv PROVE LockFileKept OBVIOUS
  <2>1. Lock!TypeOK BY DEF LockInv, LockBase
  <2>2. Lock!OwnsItsFile BY DEF LockInv, Seeing, OwnsFile, Lock!OwnsItsFile
  <2>3. Lock!LeavesNothing
    <3> SUFFICES ASSUME crashes = 0, ~MayFail, \A p \in Processes : refs[p] = 0 /\ at[p] = "rest",
                        lockFile # Lock!NoFile
                 PROVE  FALSE
      BY DEF Lock!LeavesNothing
    <3>1. lockFile.by # Nobody BY DEF LockInv, LockBase, FileOwner
    <3>2. lockFile.by \in Processes BY <2>1, <3>1 DEF Lock!TypeOK, Lock!LockFiles
    <3>3. QED BY <3>2 DEF LockInv, Attended
  <2>4. QED BY <2>1, <2>2, <2>3 DEF LockFileKept, Lock!LockFileKept
<1>2. LockInv /\ [Lock!Next]_lockVars => LockInv'
  BY LockBaseNext, SeeingNext, AttendedNext DEF LockInv
<1>3. Lock!Spec <=> Lock!Init /\ [][Lock!Next]_lockVars BY DEF Lock!Spec, Lock!vars, lockVars
<1>4. QED BY <1>1, <1>2, <1>3, LockBaseInit, PTL
=============================================================================
