----------------------------- MODULE GuardsProofs -----------------------------
(***************************************************************************)
(* The guarantees of the guards, for every value of the constants: the     *)
(* threshold alerts, the bounded counter, the limits of the governor, and  *)
(* the way of a command from validation to its handler.  (The circuit      *)
(* breakers: CircuitBreakersProofs, the queries: QueriesProofs.)      *)
(***************************************************************************)
EXTENDS Guards, FiniteSetTheorems, SequenceTheorems, WellFoundedInduction, TLAPS

-----------------------------------------------------------------------------
(***************************************************************************)
(* Threshold alerts: what the sink remembers of a metric is the level its  *)
(* last alert had, so that a value at another level sounds.                *)
(***************************************************************************)
Remembered == [key : Keys, level : Nat, lastAlertTime : Int]
AlertTyped ==
  /\ now \in Nat /\ states \in Seq(Remembered)
  /\ level \in [Keys -> Nat] /\ sounded \in [Keys -> Nat]
Faithful == \A i \in DOMAIN states : states[i].level = sounded[states[i].key]
AlertInv == AlertTyped /\ Alerts!StatesBounded /\ Faithful /\ Alerts!NoSilentCrossing

LEMMA KnownHasState ==
  ASSUME NEW k, Alerts!Known(k)
  PROVE  Alerts!StateOf(k) \in DOMAIN states /\ states[Alerts!StateOf(k)].key = k
BY DEF Alerts!Known, Alerts!StateOf

\* One state is replaced, appended in the place of the first, or removed, and the others are
\* those of other metrics.
LEMMA StateReplaced ==
  ASSUME Alerts!AlertAssumption, AlertInv, NEW k \in Keys, NEW l \in Nat, Alerts!Known(k), Alerts!SetAlertState(k, l),
         sounded' = [sounded EXCEPT ![k] = l]
  PROVE  states' \in Seq(Remembered) /\ Alerts!StatesBounded' /\ Faithful'
<1> DEFINE i == Alerts!StateOf(k)  s == [key |-> k, level |-> l, lastAlertTime |-> now]
<1>1. /\ states \in Seq(Remembered) /\ Len(states) \in Nat /\ DOMAIN states = 1 .. Len(states)
      /\ Len(states) <= MaxStates /\ s \in Remembered
      /\ \A m, n \in DOMAIN states : states[m].key = states[n].key => m = n
  BY DEF AlertInv, AlertTyped, Alerts!StatesBounded, Remembered
<1>2. i \in DOMAIN states /\ states[i].key = k BY KnownHasState
<1>3. states' = [states EXCEPT ![i] = s] BY DEF Alerts!SetAlertState
<1> HIDE DEF i, s
<1>4. states' \in Seq(Remembered) /\ Len(states') = Len(states) /\ DOMAIN states' = DOMAIN states
  BY <1>1, <1>2, <1>3
<1>5. \A n \in DOMAIN states : states'[n] = IF n = i THEN s ELSE states[n] BY <1>1, <1>2, <1>3
<1>6. s.key = k /\ s.level = l BY DEF s
<1>7. \A n \in DOMAIN states : states'[n].key = states[n].key BY <1>2, <1>5, <1>6
<1>8. Alerts!StatesBounded' BY <1>1, <1>4, <1>7 DEF Alerts!StatesBounded
<1>9. ASSUME NEW n \in DOMAIN states PROVE states'[n].level = sounded'[states'[n].key]
  <2>0. states[n] \in Remembered BY <1>1
  <2>1. states[n].key \in Keys /\ states[n].level = sounded[states[n].key]
    BY <2>0 DEF AlertInv, Faithful, Remembered
  <2>2. CASE n = i BY <1>2, <1>5, <1>6, <2>2, <2>1 DEF AlertInv, AlertTyped
  <2>3. CASE n # i
    <3>1. states[n].key # k BY <1>1, <1>2, <2>3
    <3>2. QED BY <1>5, <2>1, <2>3, <3>1 DEF AlertInv, AlertTyped
  <2>4. QED BY <2>2, <2>3
<1>10. QED BY <1>4, <1>8, <1>9 DEF Faithful

LEMMA StateAppended ==
  ASSUME Alerts!AlertAssumption, AlertInv, NEW k \in Keys, NEW l \in Nat, ~Alerts!Known(k), Alerts!SetAlertState(k, l),
         sounded' = [sounded EXCEPT ![k] = l]
  PROVE  states' \in Seq(Remembered) /\ Alerts!StatesBounded' /\ Faithful'
<1> DEFINE kept == Alerts!Evicted(states)  s == [key |-> k, level |-> l, lastAlertTime |-> now]
<1>1. /\ states \in Seq(Remembered) /\ Len(states) \in Nat /\ DOMAIN states = 1 .. Len(states)
      /\ Len(states) <= MaxStates /\ s \in Remembered /\ MaxStates \in Nat \ {0}
      /\ \A m, n \in DOMAIN states : states[m].key = states[n].key => m = n
  BY DEF AlertInv, AlertTyped, Alerts!StatesBounded, Remembered, Alerts!AlertAssumption
<1>2. PICK d \in {0, 1} :
        /\ kept \in Seq(Remembered) /\ Len(kept) + d = Len(states) /\ Len(kept) < MaxStates
        /\ \A n \in 1 .. Len(kept) : kept[n] = states[n + d] /\ n + d \in DOMAIN states
  <2>1. CASE Len(states) >= MaxStates
    <3>1. kept = Tail(states) /\ states # <<>> BY <1>1, <2>1 DEF Alerts!Evicted
    <3>2. /\ kept \in Seq(Remembered) /\ Len(kept) = Len(states) - 1
          /\ \A n \in 1 .. Len(states) - 1 : kept[n] = states[n + 1]
      <4> HIDE DEF kept
      <4> QED BY <1>1, <3>1
    <3> HIDE DEF kept
    <3>3. /\ Len(kept) + 1 = Len(states) /\ Len(kept) < MaxStates
          /\ \A n \in 1 .. Len(kept) : kept[n] = states[n + 1] /\ n + 1 \in DOMAIN states
      BY <1>1, <2>1, <3>2
    <3>4. QED BY <3>2, <3>3
  <2>2. CASE ~(Len(states) >= MaxStates)
    <3>1. kept = states BY <2>2 DEF Alerts!Evicted
    <3> HIDE DEF kept
    <3>2. /\ Len(kept) + 0 = Len(states) /\ Len(kept) < MaxStates
          /\ \A n \in 1 .. Len(kept) : kept[n] = states[n + 0] /\ n + 0 \in DOMAIN states
      BY <1>1, <2>2, <3>1
    <3>3. QED BY <1>1, <3>1, <3>2
  <2>3. QED BY <2>1, <2>2
<1>3. states' = Append(kept, s) BY DEF Alerts!SetAlertState
<1>4. s.key = k /\ s.level = l OBVIOUS
<1> HIDE DEF kept, s
<1>5. /\ states' \in Seq(Remembered) /\ Len(states') = Len(kept) + 1
      /\ DOMAIN states' = 1 .. Len(kept) + 1 /\ states'[Len(kept) + 1] = s
      /\ \A n \in 1 .. Len(kept) : states'[n] = kept[n]
  BY <1>1, <1>2, <1>3
<1>6. Len(kept) \in Nat BY <1>2
<1>7. \A n \in DOMAIN states : states[n].key \in Keys \ {k}
  <2>1. \A n \in DOMAIN states : states[n] \in Remembered BY <1>1
  <2>2. QED BY <2>1 DEF Alerts!Known, Remembered
<1>8. \A n \in 1 .. Len(kept) : states'[n].key \in Keys \ {k} BY <1>2, <1>5, <1>7
<1>9. Alerts!StatesBounded'
  <2>1. Len(states') <= MaxStates BY <1>1, <1>2, <1>5, <1>6
  <2>2. ASSUME NEW m \in DOMAIN states', NEW n \in DOMAIN states', states'[m].key = states'[n].key
        PROVE  m = n
    <3>1. CASE m \in 1 .. Len(kept) /\ n \in 1 .. Len(kept)
      <4>1. states[m + d].key = states[n + d].key BY <1>2, <1>5, <2>2, <3>1
      <4>2. m + d = n + d BY <1>1, <1>2, <3>1, <4>1
      <4>3. QED BY <3>1, <4>2, <1>6
    <3>2. CASE m = Len(kept) + 1 BY <1>4, <1>5, <1>6, <1>8, <2>2, <3>2
    <3>3. CASE n = Len(kept) + 1 BY <1>4, <1>5, <1>6, <1>8, <2>2, <3>3
    <3>4. QED BY <1>5, <1>6, <3>1, <3>2, <3>3
  <2>3. QED BY <2>1, <2>2 DEF Alerts!StatesBounded
<1>10. ASSUME NEW n \in DOMAIN states' PROVE states'[n].level = sounded'[states'[n].key]
  <2>1. CASE n \in 1 .. Len(kept)
    <3>1. states'[n] = states[n + d] /\ n + d \in DOMAIN states BY <1>2, <1>5, <2>1
    <3>2. states[n + d].level = sounded[states[n + d].key] BY <3>1 DEF AlertInv, Faithful
    <3>3. sounded'[states[n + d].key] = sounded[states[n + d].key]
      BY <1>7, <3>1 DEF AlertInv, AlertTyped
    <3>4. QED BY <3>1, <3>2, <3>3
  <2>2. CASE n = Len(kept) + 1 BY <1>4, <1>5, <2>2 DEF AlertInv, AlertTyped
  <2>3. QED BY <1>5, <1>6, <2>1, <2>2
<1>11. QED BY <1>5, <1>9, <1>10 DEF Faithful

LEMMA StateRemoved ==
  ASSUME Alerts!AlertAssumption, AlertInv, NEW k \in Keys, Alerts!Known(k), states' = Alerts!RemoveAt(states, Alerts!StateOf(k)),
         sounded' = [sounded EXCEPT ![k] = 0]
  PROVE  states' \in Seq(Remembered) /\ Alerts!StatesBounded' /\ Faithful'
<1> DEFINE i == Alerts!StateOf(k)  n(m) == IF m < i THEN m ELSE m + 1
<1>1. /\ states \in Seq(Remembered) /\ Len(states) \in Nat /\ DOMAIN states = 1 .. Len(states)
      /\ Len(states) <= MaxStates /\ MaxStates \in Nat
      /\ \A m1, m2 \in DOMAIN states : states[m1].key = states[m2].key => m1 = m2
  BY DEF AlertInv, AlertTyped, Alerts!StatesBounded, Alerts!AlertAssumption
<1>2. i \in 1 .. Len(states) /\ states[i].key = k BY <1>1, KnownHasState
<1>3. states' = SubSeq(states, 1, i - 1) \o SubSeq(states, i + 1, Len(states))
  BY DEF Alerts!RemoveAt
<1> HIDE DEF i
<1>4. /\ states' \in Seq(Remembered) /\ Len(states') = Len(states) - 1
      /\ DOMAIN states' = 1 .. Len(states) - 1
      /\ \A m \in 1 .. Len(states) - 1 : states'[m] = states[n(m)]
  <2> DEFINE a == SubSeq(states, 1, i - 1)  b == SubSeq(states, i + 1, Len(states))
  <2>0. \A m \in 1 .. Len(states) : states[m] \in Remembered BY <1>1
  <2>1. a \in Seq(Remembered) /\ Len(a) = i - 1 /\ \A m \in 1 .. i - 1 : a[m] = states[m]
    <3>1. \A m \in 1 .. i - 1 : states[m] \in Remembered BY <1>1, <1>2, <2>0
    <3>2. /\ a \in Seq(Remembered) /\ Len(a) = IF 1 <= i - 1 THEN i - 1 - 1 + 1 ELSE 0
          /\ \A m \in 1 .. i - 1 - 1 + 1 : a[m] = states[1 + m - 1]
      BY <1>2, <3>1, SubSeqProperties
    <3> HIDE DEF a
    <3>3. QED BY <1>2, <3>2
  <2>2. /\ b \in Seq(Remembered) /\ Len(b) = Len(states) - i
        /\ \A m \in 1 .. Len(states) - i : b[m] = states[i + m]
    <3>1. \A m \in i + 1 .. Len(states) : states[m] \in Remembered BY <1>1, <1>2, <2>0
    <3>2. /\ b \in Seq(Remembered)
          /\ Len(b) = IF i + 1 <= Len(states) THEN Len(states) - (i + 1) + 1 ELSE 0
          /\ \A m \in 1 .. Len(states) - (i + 1) + 1 : b[m] = states[i + 1 + m - 1]
      BY <1>1, <1>2, <3>1, SubSeqProperties
    <3> HIDE DEF b
    <3>3. Len(b) = Len(states) - i
      <4> DEFINE len == Len(states)
      <4> HIDE DEF len
      <4>1. len \in Nat /\ i \in 1 .. len BY <1>1, <1>2 DEF len
      <4>2. Len(b) = IF i + 1 <= len THEN len - (i + 1) + 1 ELSE 0 BY <3>2 DEF len
      <4>3. Len(b) = len - i BY <4>1, <4>2
      <4>4. QED BY <4>3 DEF len
    <3>4. ASSUME NEW m \in 1 .. Len(states) - i PROVE b[m] = states[i + m]
      <4>1. m \in 1 .. Len(states) - (i + 1) + 1 /\ i + 1 + m - 1 = i + m BY <1>1, <1>2, <3>4
      <4>2. QED BY <3>2, <4>1
    <3>5. QED BY <3>2, <3>3, <3>4
  <2> HIDE DEF a, b
  <2>3. states' = a \o b BY <1>3 DEF a, b
  <2>4. /\ states' \in Seq(Remembered) /\ Len(states') = Len(states) - 1
        /\ \A m \in 1 .. Len(a) + Len(b) : states'[m] = IF m <= Len(a) THEN a[m] ELSE b[m - Len(a)]
    <3>1. states' \in Seq(Remembered) /\ Len(states') = Len(a) + Len(b)
      BY <2>1, <2>2, <2>3, ConcatProperties
    <3>2. QED BY <1>1, <1>2, <2>1, <2>2, <2>3, <3>1
  <2>5. ASSUME NEW m \in 1 .. Len(states) - 1 PROVE states'[m] = states[n(m)]
    <3>1. states'[m] = IF m <= Len(a) THEN a[m] ELSE b[m - Len(a)]
      BY <1>1, <1>2, <2>1, <2>2, <2>4, <2>5
    <3>2. CASE m < i BY <1>1, <1>2, <2>1, <2>2, <3>1, <3>2
    <3>3. CASE ~(m < i)
      <4>1. m - (i - 1) \in 1 .. Len(states) - i BY <1>1, <1>2, <2>5, <3>3
      <4>2. states'[m] = b[m - (i - 1)] BY <1>1, <1>2, <2>1, <2>5, <3>1, <3>3
      <4>3. b[m - (i - 1)] = states[i + (m - (i - 1))] BY <2>2, <4>1
      <4>4. i + (m - (i - 1)) = m + 1 BY <1>2, <2>5
      <4>5. QED BY <3>3, <4>2, <4>3, <4>4
    <3>4. QED BY <3>2, <3>3
  <2>6. DOMAIN states' = 1 .. Len(states) - 1 BY <1>1, <1>2, <2>4
  <2>7. QED BY <2>4, <2>5, <2>6
<1>5. \A m \in 1 .. Len(states) - 1 : n(m) \in DOMAIN states /\ n(m) # i BY <1>1, <1>2
<1>6. \A m1, m2 \in 1 .. Len(states) - 1 : n(m1) = n(m2) => m1 = m2 BY <1>1, <1>2
<1> HIDE DEF n
<1>7. Len(states') <= MaxStates BY <1>1, <1>4
<1>8. Alerts!StatesBounded' BY <1>1, <1>4, <1>5, <1>6, <1>7 DEF Alerts!StatesBounded
<1>9. \A m \in DOMAIN states : states[m].key \in Keys
  <2>1. \A m \in DOMAIN states : states[m] \in Remembered BY <1>1
  <2>2. QED BY <2>1 DEF Remembered
<1>10. ASSUME NEW m \in DOMAIN states' PROVE states'[m].level = sounded'[states'[m].key]
  <2>1. n(m) \in DOMAIN states /\ states'[m] = states[n(m)] /\ n(m) # i BY <1>4, <1>5
  <2>2. states[n(m)].key # k BY <1>1, <1>2, <2>1
  <2>3. states[n(m)].level = sounded[states[n(m)].key] BY <2>1 DEF AlertInv, Faithful
  <2>4. QED BY <1>9, <2>1, <2>2, <2>3 DEF AlertInv, AlertTyped
<1>11. QED BY <1>4, <1>8, <1>10 DEF Faithful

LEMMA StateSet ==
  ASSUME Alerts!AlertAssumption, AlertInv, NEW k \in Keys, NEW l \in Nat, Alerts!SetAlertState(k, l),
         sounded' = [sounded EXCEPT ![k] = l]
  PROVE  states' \in Seq(Remembered) /\ Alerts!StatesBounded' /\ Faithful'
BY StateReplaced, StateAppended

\* A value that sounds nothing is at the level that was heard last.
LEMMA QuietIsHeard ==
  ASSUME AlertInv, NEW k \in Keys, NEW l \in Nat, l # 0, Alerts!Quiet(k, l)
  PROVE  sounded[k] = l
<1>1. Alerts!PreviousLevel(k) = l BY DEF Alerts!Quiet, Alerts!Changed
<1>2. Alerts!Known(k) /\ states[Alerts!StateOf(k)].level = l BY <1>1 DEF Alerts!PreviousLevel
<1>3. QED BY <1>2, KnownHasState DEF AlertInv, Faithful

LEMMA AlertsChecked ==
  ASSUME Alerts!AlertAssumption, AlertInv, NEW k \in Keys, NEW l \in Levels \cup {0}, Alerts!CheckThreshold(k, l)
  PROVE  AlertInv'
<1>1. l \in Nat BY DEF Alerts!AlertAssumption
<1>2. now' = now /\ level' = [level EXCEPT ![k] = l] /\ level' \in [Keys -> Nat]
  BY <1>1 DEF Alerts!CheckThreshold, AlertInv, AlertTyped
<1>3. CASE Alerts!Fire(k, l) \/ Alerts!Clear(k, l)
  <2>1. Alerts!SetAlertState(k, l) /\ sounded' = [sounded EXCEPT ![k] = l]
    BY <1>3 DEF Alerts!Fire, Alerts!Clear
  <2>2. states' \in Seq(Remembered) /\ Alerts!StatesBounded' /\ Faithful' BY <1>1, <2>1, StateSet
  <2>3. Alerts!NoSilentCrossing'
    BY <1>1, <1>2, <2>1 DEF AlertInv, AlertTyped, Alerts!NoSilentCrossing
  <2>4. QED BY <1>1, <1>2, <2>1, <2>2, <2>3 DEF AlertInv, AlertTyped
<1>4. CASE Alerts!Quiet(k, l)
  <2>1. UNCHANGED <<states, sounded>> BY <1>4 DEF Alerts!Quiet
  <2>2. l # 0 => sounded[k] = l BY <1>1, <1>4, QuietIsHeard
  <2>3. Alerts!NoSilentCrossing'
    BY <1>1, <1>2, <2>1, <2>2 DEF AlertInv, AlertTyped, Alerts!NoSilentCrossing
  <2>4. QED BY <1>2, <2>1, <2>3 DEF AlertInv, AlertTyped, Alerts!StatesBounded, Faithful
<1>5. QED BY <1>3, <1>4 DEF Alerts!CheckThreshold

LEMMA AlertsRemoved ==
  ASSUME Alerts!AlertAssumption, AlertInv, NEW k \in Keys, Alerts!RemoveThreshold(k)
  PROVE  AlertInv'
<1>1. states' \in Seq(Remembered) /\ Alerts!StatesBounded' /\ Faithful'
  BY StateRemoved DEF Alerts!RemoveThreshold
<1>2. /\ level' = [level EXCEPT ![k] = 0] /\ sounded' = [sounded EXCEPT ![k] = 0] /\ now' = now
  BY DEF Alerts!RemoveThreshold
<1>3. Alerts!NoSilentCrossing' BY <1>2 DEF AlertInv, AlertTyped, Alerts!NoSilentCrossing
<1>4. QED BY <1>1, <1>2, <1>3 DEF AlertInv, AlertTyped

LEMMA AlertsBegin == Alerts!AlertAssumption /\ Alerts!Init => AlertInv
BY DEF Alerts!AlertAssumption, Alerts!Init, AlertInv, AlertTyped, Alerts!StatesBounded, Faithful,
   Alerts!NoSilentCrossing

LEMMA AlertsStep == Alerts!AlertAssumption /\ AlertInv /\ [Alerts!Next]_(Alerts!vars) => AlertInv'
<1> SUFFICES ASSUME Alerts!AlertAssumption, AlertInv, [Alerts!Next]_(Alerts!vars) PROVE AlertInv' OBVIOUS
<1>1. CASE Alerts!Tick \/ UNCHANGED Alerts!vars
  BY <1>1 DEF Alerts!Tick, Alerts!vars, AlertInv, AlertTyped, Alerts!StatesBounded, Faithful,
     Alerts!NoSilentCrossing
<1>2. ASSUME NEW k \in Keys, NEW l \in Levels \cup {0}, Alerts!CheckThreshold(k, l) PROVE AlertInv'
  BY <1>2, AlertsChecked
<1>3. ASSUME NEW k \in Keys, Alerts!RemoveThreshold(k) PROVE AlertInv' BY <1>3, AlertsRemoved
<1>4. QED BY <1>1, <1>2, <1>3 DEF Alerts!Next

\* With an onClear handler no metric crosses into a level without its alert, and each metric is
\* remembered once, within the limit, whatever is evicted, cleared and removed (checkThreshold).
THEOREM AlertsHeardHolds == Alerts!Spec => []AlertsHeard
<1> USE GuardsAssumption DEF GuardsAssumption
<1>1. Alerts!Init => AlertInv BY AlertsBegin
<1>2. AlertInv /\ [Alerts!Next]_(Alerts!vars) => AlertInv' BY AlertsStep
<1>3. AlertInv => AlertsHeard BY DEF AlertInv, AlertsHeard, Alerts!AlertsHeard
<1>4. QED BY <1>1, <1>2, <1>3, PTL DEF Alerts!Spec
-----------------------------------------------------------------------------
(***************************************************************************)
(* The bounded counter: the times of an entry are the last ones recorded   *)
(* for its key, and those before them have left the window.                *)
(***************************************************************************)
LEMMA FiniteCounter == \A S : Counter!Cardinality(S) = Cardinality(S)
BY DEF Counter!Cardinality, Cardinality

Record == [stamps : Seq(Nat), insertedAt : Int, order : Nat]
CounterTyped ==
  /\ now \in Nat /\ orderCounter \in Nat
  /\ entry \in [Keys -> Record] /\ recorded \in [Keys -> Seq(Nat)]

\* An entry has its own place in the order, and was renewed with its last time.
Placed(k) ==
  entry[k] # Counter!None =>
    /\ entry[k].order \in 1 .. orderCounter /\ entry[k].insertedAt \in 0 .. now
    /\ \A i \in 1 .. Len(entry[k].stamps) : entry[k].stamps[i] <= entry[k].insertedAt

\* s is the end of r, and what comes before it is out of the window.
EndsWith(r, s) ==
  LET d == Len(r) - Len(s) IN
  /\ d \in Nat /\ \A i \in 1 .. Len(s) : r[d + i] = s[i]
  /\ \A i \in 1 .. d : r[i] <= now - CounterWindow

CounterInv ==
  /\ CounterTyped
  /\ \A k \in Keys : Placed(k) /\ EndsWith(recorded[k], entry[k].stamps)
  /\ IsFiniteSet(Counter!Present) /\ Counter!KeysBounded /\ Counter!CounterLimit

LEMMA CounterFacts ==
  ASSUME Counter!CounterAssumption, CounterInv
  PROVE  /\ now \in Nat /\ CounterWindow \in Nat /\ Limit \in Nat \ {0} /\ MaxKeys \in Nat
         /\ orderCounter \in Nat
         /\ \A k \in Keys : /\ entry[k] \in Record /\ entry[k].stamps \in Seq(Nat)
                            /\ entry[k].insertedAt \in Int /\ entry[k].order \in Nat
                            /\ recorded[k] \in Seq(Nat)
BY DEF Counter!CounterAssumption, CounterInv, CounterTyped, Record

LEMMA RecentFinite ==
  ASSUME NEW r \in Seq(Nat)
  PROVE  IsFiniteSet(Counter!Recent(r)) /\ Cardinality(Counter!Recent(r)) \in Nat
<1>1. Len(r) \in Nat /\ DOMAIN r = 1 .. Len(r) OBVIOUS
<1>2. IsFiniteSet(1 .. Len(r)) BY <1>1, FS_Interval
<1>3. Counter!Recent(r) \subseteq 1 .. Len(r) BY <1>1 DEF Counter!Recent
<1>4. IsFiniteSet(Counter!Recent(r)) BY <1>2, <1>3, FS_Subset
<1>5. QED BY <1>4, FS_CardinalityType

\* What an entry counts is what was recorded within the window.
LEMMA EntryCounts ==
  ASSUME NEW r \in Seq(Nat), NEW s \in Seq(Nat), EndsWith(r, s), now \in Nat, CounterWindow \in Nat
  PROVE  Cardinality(Counter!Recent(r)) <= Cardinality(Counter!Recent(s))
<1> DEFINE d == Len(r) - Len(s)  f == [i \in Counter!Recent(r) |-> i - d]
<1>1. /\ Len(r) \in Nat /\ DOMAIN r = 1 .. Len(r) /\ Len(s) \in Nat /\ DOMAIN s = 1 .. Len(s)
      /\ d \in Nat /\ Len(r) = d + Len(s)
  BY DEF EndsWith
<1>2. \A i \in 1 .. Len(s) : r[d + i] = s[i] BY DEF EndsWith
<1>3. \A i \in 1 .. d : r[i] <= now - CounterWindow BY DEF EndsWith
<1>4. \A i \in 1 .. Len(r) : r[i] \in Nat OBVIOUS
<1> HIDE DEF d
<1>5. ASSUME NEW i \in Counter!Recent(r) PROVE i \in Nat /\ i - d \in Counter!Recent(s)
  <2>1. i \in 1 .. Len(r) /\ r[i] > now - CounterWindow BY <1>1 DEF Counter!Recent
  <2>2. ~(i \in 1 .. d) BY <1>3, <1>4, <2>1
  <2>3. i - d \in 1 .. Len(s) BY <1>1, <2>1, <2>2
  <2>4. s[i - d] = r[i]
    <3>1. d + (i - d) = i BY <1>1, <2>1
    <3>2. QED BY <1>2, <2>3, <3>1
  <2>5. QED BY <1>1, <2>1, <2>3, <2>4 DEF Counter!Recent
<1>6. f \in Injection(Counter!Recent(r), Counter!Recent(s))
  <2>1. f \in [Counter!Recent(r) -> Counter!Recent(s)] BY <1>5
  <2>2. \A i, j \in Counter!Recent(r) : f[i] = f[j] => i = j BY <1>1, <1>5
  <2>3. QED BY <2>1, <2>2 DEF Injection, IsInjective
<1>7. QED BY <1>6, RecentFinite, FS_Injection

\* A time recorded now counts once.
LEMMA OneMoreTime ==
  ASSUME NEW r \in Seq(Nat), now \in Nat, CounterWindow \in Nat
  PROVE  /\ Append(r, now) \in Seq(Nat)
         /\ Cardinality(Counter!Recent(Append(r, now))) <= Cardinality(Counter!Recent(r)) + 1
<1> DEFINE n == Len(r) + 1  more == Append(r, now)
<1>1. /\ Len(r) \in Nat /\ DOMAIN r = 1 .. Len(r) /\ more \in Seq(Nat) /\ DOMAIN more = 1 .. n
      /\ \A i \in 1 .. Len(r) : more[i] = r[i]
  OBVIOUS
<1> HIDE DEF more
<1>2. Counter!Recent(more) \subseteq Counter!Recent(r) \cup {n} BY <1>1 DEF Counter!Recent
<1>3. /\ IsFiniteSet(Counter!Recent(r) \cup {n})
      /\ Cardinality(Counter!Recent(r) \cup {n}) \in {Cardinality(Counter!Recent(r)), Cardinality(Counter!Recent(r)) + 1}
  BY RecentFinite, FS_AddElement
<1>4. Cardinality(Counter!Recent(more)) <= Cardinality(Counter!Recent(r) \cup {n})
  BY <1>2, <1>3, FS_Subset
<1>5. Cardinality(Counter!Recent(r)) \in Nat /\ Cardinality(Counter!Recent(more)) \in Nat
  BY <1>1, RecentFinite
<1>6. QED BY <1>1, <1>3, <1>4, <1>5 DEF more

\* When the entry of a key is missing or has expired, nothing recorded for it counts any more.
LEMMA GoneIsOld ==
  ASSUME Counter!CounterAssumption, CounterInv, NEW k \in Keys, entry[k] = Counter!None \/ Counter!Expired(k)
  PROVE  \A i \in 1 .. Len(recorded[k]) : recorded[k][i] <= now - CounterWindow
<1> DEFINE r == recorded[k]  s == entry[k].stamps  d == Len(r) - Len(s)
<1>1. /\ now \in Nat /\ CounterWindow \in Nat /\ r \in Seq(Nat) /\ s \in Seq(Nat) BY CounterFacts
<1>2. Len(r) \in Nat /\ Len(s) \in Nat BY <1>1
<1>3. d \in Nat /\ (\A i \in 1 .. Len(s) : r[d + i] = s[i]) /\ \A i \in 1 .. d : r[i] <= now - CounterWindow
  BY DEF CounterInv, EndsWith
<1>4. \A i \in 1 .. Len(s) : s[i] <= now - CounterWindow
  <2>1. CASE entry[k] = Counter!None BY <2>1 DEF Counter!None
  <2>2. CASE Counter!Expired(k)
    <3>1. /\ now - entry[k].insertedAt > 2 * CounterWindow
          /\ \A i \in 1 .. Len(s) : s[i] <= entry[k].insertedAt
      BY <2>2 DEF Counter!Expired, Counter!Ttl, CounterInv, Placed
    <3>2. entry[k].insertedAt \in Int BY CounterFacts
    <3>3. \A i \in 1 .. Len(s) : s[i] \in Nat BY <1>1
    <3>4. \A i \in 1 .. Len(s) : s[i] <= entry[k].insertedAt => s[i] <= now - CounterWindow
      <4> DEFINE t == entry[k].insertedAt
      <4>1. t \in Int /\ now - t > 2 * CounterWindow BY <3>1, <3>2
      <4> HIDE DEF t, s
      <4>2. t <= now - CounterWindow BY <1>1, <4>1
      <4>3. \A i \in 1 .. Len(s) : s[i] <= t => s[i] <= now - CounterWindow
        BY <1>1, <3>3, <4>1, <4>2
      <4>4. QED BY <4>3 DEF t
    <3>5. QED BY <3>1, <3>4
  <2>3. QED BY <2>1, <2>2
<1> HIDE DEF d
<1>5. Len(r) = d + Len(s) BY <1>2 DEF d
<1> HIDE DEF r, s
<1>6. ASSUME NEW i \in 1 .. Len(r) PROVE r[i] <= now - CounterWindow
  <2>1. CASE i \in 1 .. d BY <1>3, <2>1
  <2>2. CASE i \notin 1 .. d
    <3>1. i - d \in 1 .. Len(s) /\ d + (i - d) = i BY <1>2, <1>3, <1>5, <2>2
    <3>2. QED BY <1>3, <1>4, <3>1
  <2>3. QED BY <2>1, <2>2
<1>7. QED BY <1>6 DEF r

LEMMA NothingOldCounts ==
  ASSUME NEW r \in Seq(Nat), now \in Nat, CounterWindow \in Nat,
         \A i \in 1 .. Len(r) : r[i] <= now - CounterWindow
  PROVE  Counter!Recent(r) = {} /\ Cardinality(Counter!Recent(r)) = 0 /\ EndsWith(r, <<>>)
<1>1. /\ Len(r) \in Nat /\ DOMAIN r = 1 .. Len(r) /\ \A i \in 1 .. Len(r) : r[i] \in Nat OBVIOUS
<1>2. Counter!Recent(r) = {} BY <1>1 DEF Counter!Recent
<1>3. QED BY <1>1, <1>2, FS_EmptySet DEF EndsWith

LEMMA NothingCounts == Cardinality(Counter!Recent(<<>>)) = 0
<1>1. Counter!Recent(<<>>) = {} BY DEF Counter!Recent
<1>2. QED BY <1>1, FS_EmptySet

LEMMA EndsWithMore ==
  ASSUME NEW r \in Seq(Nat), NEW s \in Seq(Nat), EndsWith(r, s), now \in Nat, CounterWindow \in Nat
  PROVE  EndsWith(Append(r, now), Append(s, now))
<1> DEFINE d == Len(r) - Len(s)
<1>1. Len(r) \in Nat /\ Len(s) \in Nat /\ d \in Nat /\ Len(r) = d + Len(s) BY DEF EndsWith
<1>2. Len(Append(r, now)) - Len(Append(s, now)) = d BY <1>1
<1>3. /\ \A i \in 1 .. Len(r) : Append(r, now)[i] = r[i] /\ Append(r, now)[Len(r) + 1] = now
      /\ \A i \in 1 .. Len(s) : Append(s, now)[i] = s[i] /\ Append(s, now)[Len(s) + 1] = now
  OBVIOUS
<1>4. Append(r, now)[Len(r) + 1] = now /\ Append(s, now)[Len(s) + 1] = now OBVIOUS
<1>5. (\A i \in 1 .. Len(s) : r[d + i] = s[i]) /\ \A i \in 1 .. d : r[i] <= now - CounterWindow
  BY DEF EndsWith
<1> HIDE DEF d
<1>6. ASSUME NEW i \in 1 .. Len(s) + 1 PROVE Append(r, now)[d + i] = Append(s, now)[i]
  <2>1. CASE i \in 1 .. Len(s)
    <3>1. d + i \in 1 .. Len(r) BY <1>1, <2>1
    <3>2. QED BY <1>3, <1>5, <2>1, <3>1
  <2>2. CASE i = Len(s) + 1
    <3>1. d + i = Len(r) + 1 BY <1>1, <2>2
    <3>2. QED BY <1>4, <2>2, <3>1
  <2>3. i \in 1 .. Len(s) \/ i = Len(s) + 1 BY <1>1, <1>6
  <2>4. QED BY <2>1, <2>2, <2>3
<1>7. \A i \in 1 .. d : Append(r, now)[i] <= now - CounterWindow
  <2>1. \A i \in 1 .. d : i \in 1 .. Len(r) BY <1>1
  <2>2. QED BY <1>3, <1>5, <2>1
<1>8. Len(Append(s, now)) = Len(s) + 1 OBVIOUS
<1>9. QED BY <1>1, <1>2, <1>6, <1>7, <1>8 DEF EndsWith
-----------------------------------------------------------------------------
LEMMA AppendKeeps ==
  ASSUME NEW s \in Seq(Nat), NEW x \in Nat, NEW i \in 1 .. Len(s)
  PROVE  Append(s, x)[i] = s[i] /\ s[i] \in Nat
OBVIOUS

\* An update: the entry keeps its place, and one more time counts.
LEMMA RecordMoreKeeps ==
  ASSUME Counter!CounterAssumption, CounterInv, NEW k \in Keys, Counter!RecordMore(k)
  PROVE  CounterInv'
<1>0. /\ now \in Nat /\ CounterWindow \in Nat /\ Limit \in Nat \ {0}
      /\ \A j \in Keys : /\ entry[j] \in Record /\ entry[j].stamps \in Seq(Nat)
                         /\ recorded[j] \in Seq(Nat)
  BY CounterFacts
<1>1. /\ now' = now /\ orderCounter' = orderCounter /\ entry[k] # Counter!None
      /\ entry' = [entry EXCEPT ![k].stamps = Append(@, now), ![k].insertedAt = now]
      /\ recorded' = [recorded EXCEPT ![k] = Append(@, now)]
  BY DEF Counter!RecordMore, Counter!Renewed
<1>2. \A j \in Keys \ {k} : entry'[j] = entry[j] /\ recorded'[j] = recorded[j]
  BY <1>1 DEF CounterInv, CounterTyped
<1>3. /\ entry'[k].stamps = Append(entry[k].stamps, now) /\ entry'[k].insertedAt = now
      /\ entry'[k].order = entry[k].order /\ entry'[k] \in Record
      /\ recorded'[k] = Append(recorded[k], now)
  <2>1. entry'[k] = [entry[k] EXCEPT !.stamps = Append(@, now), !.insertedAt = now]
    BY <1>1 DEF CounterInv, CounterTyped
  <2>2. entry[k] \in Record /\ Append(entry[k].stamps, now) \in Seq(Nat) BY <1>0
  <2>3. /\ entry'[k].stamps = Append(entry[k].stamps, now) /\ entry'[k].insertedAt = now
        /\ entry'[k].order = entry[k].order /\ entry'[k] \in Record
    <3> DEFINE e == entry[k]  more == Append(entry[k].stamps, now)
    <3>1. e \in Record /\ more \in Seq(Nat) /\ now \in Int BY <1>0, <2>2
    <3>2. entry'[k] = [e EXCEPT !.stamps = more, !.insertedAt = now] BY <2>1
    <3> HIDE DEF e, more
    <3>3. /\ entry'[k].stamps = more /\ entry'[k].insertedAt = now
          /\ entry'[k].order = e.order /\ entry'[k] \in Record
      BY <3>1, <3>2 DEF Record
    <3>4. QED BY <3>3 DEF e, more
  <2>4. QED BY <1>1, <2>3 DEF CounterInv, CounterTyped
<1>4. CounterTyped'
  <2>1. recorded' \in [Keys -> Seq(Nat)] BY <1>0, <1>1, OneMoreTime DEF CounterInv, CounterTyped
  <2>2. entry' \in [Keys -> Record] BY <1>0, <1>1, <1>2, <1>3 DEF CounterInv, CounterTyped
  <2>3. QED BY <1>1, <2>1, <2>2 DEF CounterInv, CounterTyped
<1>5. entry[k].order \in 1 .. orderCounter /\ entry[k].insertedAt \in 0 .. now
  BY <1>1 DEF CounterInv, Placed
<1>6. entry'[k] # Counter!None BY <1>3, <1>5 DEF Counter!None
<1>7. Counter!Present' = Counter!Present BY <1>1, <1>2, <1>6 DEF Counter!Present
<1>8. \A j \in Keys : Placed(j)'
  <2>1. ASSUME NEW i \in 1 .. Len(entry'[k].stamps) PROVE entry'[k].stamps[i] <= now
    <3>1. \A m \in 1 .. Len(entry[k].stamps) : entry[k].stamps[m] <= entry[k].insertedAt
      BY <1>1 DEF CounterInv, Placed
    <3>2. i \in 1 .. Len(entry[k].stamps) \/ entry'[k].stamps[i] = now BY <1>0, <1>3
    <3>3. CASE i \in 1 .. Len(entry[k].stamps)
      <4>1. entry'[k].stamps[i] = entry[k].stamps[i] /\ entry[k].stamps[i] \in Nat
        <5> DEFINE times == entry[k].stamps
        <5>1. times \in Seq(Nat) /\ entry'[k].stamps = Append(times, now)  BY <1>0, <1>3
        <5> HIDE DEF times
        <5>2. Append(times, now)[i] = times[i] /\ times[i] \in Nat  BY <1>0, <3>3, <5>1, AppendKeeps DEF times
        <5>3. QED BY <5>1, <5>2 DEF times
      <4>2. entry[k].stamps[i] <= entry[k].insertedAt  BY <3>1, <3>3
      <4>3. \A a \in Nat, b \in 0 .. now : a <= b => a <= now  BY <1>0
      <4>4. QED BY <1>5, <4>1, <4>2, <4>3
    <3>4. QED BY <1>0, <3>2, <3>3
  <2>2. Placed(k)'
    <3>1. entry'[k].order \in 1 .. orderCounter' /\ entry'[k].insertedAt \in 0 .. now'
      BY <1>0, <1>1, <1>3, <1>5
    <3>2. \A i \in 1 .. Len(entry'[k].stamps) : entry'[k].stamps[i] <= entry'[k].insertedAt
      BY <1>3, <2>1
    <3>3. QED BY <3>1, <3>2 DEF Placed
  <2>3. \A j \in Keys \ {k} : Placed(j)' BY <1>1, <1>2 DEF CounterInv, Placed
  <2>4. QED BY <2>2, <2>3
<1>9. \A j \in Keys : EndsWith(recorded[j], entry[j].stamps)'
  <2>1. \A j \in Keys : EndsWith(recorded[j], entry[j].stamps) BY DEF CounterInv
  <2>2. \A j \in Keys : EndsWith(recorded'[j], entry'[j].stamps)
    BY <1>0, <1>2, <1>3, <2>1, EndsWithMore
  <2>3. QED BY <1>1, <2>2 DEF EndsWith
<1>10. IsFiniteSet(Counter!Present)' BY <1>7 DEF CounterInv
<1>11. Counter!KeysBounded'
  <2>1. \A j \in Counter!Present : j \in Keys /\ entry'[j].order = entry[j].order
    BY <1>2, <1>3 DEF Counter!Present
  <2>2. QED BY <1>7, <2>1, FiniteCounter DEF CounterInv, Counter!KeysBounded
<1>12. Counter!CounterLimit'
  <2>1. Counter!Count(k) = Cardinality(Counter!Recent(entry[k].stamps)) /\ Counter!Count(k) < Limit
    BY FiniteCounter DEF Counter!RecordMore, Counter!Count
  <2>2. Cardinality(Counter!Recent(recorded[k])) <= Cardinality(Counter!Recent(entry[k].stamps))
    BY <1>0, EntryCounts DEF CounterInv
  <2>3. Cardinality(Counter!Recent(recorded'[k])) <= Cardinality(Counter!Recent(recorded[k])) + 1
    BY <1>0, <1>3, OneMoreTime
  <2>4. /\ Cardinality(Counter!Recent(recorded[k])) \in Nat /\ Cardinality(Counter!Recent(entry[k].stamps)) \in Nat
        /\ Cardinality(Counter!Recent(recorded'[k])) \in Nat
    BY <1>0, <1>3, RecentFinite, OneMoreTime
  <2>5. Cardinality(Counter!Recent(recorded'[k])) <= Limit BY <1>0, <2>1, <2>2, <2>3, <2>4
  <2>6. \A j \in Keys : Cardinality(Counter!Recent(recorded'[j])) <= Limit
    BY <1>2, <2>5, FiniteCounter DEF CounterInv, Counter!CounterLimit
  <2>7. \A j \in Keys : Counter!Recent(recorded[j])' = Counter!Recent(recorded'[j])
    BY <1>1 DEF Counter!Recent
  <2>8. QED BY <2>6, <2>7, FiniteCounter DEF Counter!CounterLimit
<1>13. QED BY <1>4, <1>8, <1>9, <1>10, <1>11, <1>12 DEF CounterInv

\* Of a map that is full one key gives way: the first inserted of all, which there is.
LEMMA FirstExists ==
  ASSUME NEW left, left # {}, \A j \in left : entry[j].order \in Nat
  PROVE  \E m \in left : \A j \in left : ~(entry[j].order < entry[m].order)
<1> DEFINE Less == {p \in Nat \X Nat : p[1] < p[2]}  Orders == {entry[j].order : j \in left}
<1>1. Less = OpToRel(<, Nat) BY DEF OpToRel
<1>2. IsWellFoundedOn(Less, Nat) BY <1>1, NatLessThanWellFounded
<1>3. Orders \subseteq Nat /\ Orders # {} OBVIOUS
<1> HIDE DEF Less
<1>4. PICK t \in Orders : \A y \in Orders : ~(<<y, t>> \in Less) BY <1>2, <1>3, WFMin
<1>5. PICK m \in left : t = entry[m].order BY <1>4
<1>6. ASSUME NEW j \in left, entry[j].order < entry[m].order PROVE FALSE
  <2>1. <<entry[j].order, t>> \in Less BY <1>5, <1>6 DEF Less
  <2>2. QED BY <1>4, <2>1
<1>7. QED BY <1>6

LEMMA RoomIsMade ==
  ASSUME MaxKeys \in Nat, MaxKeys > 0, NEW left, IsFiniteSet(left), Cardinality(left) <= MaxKeys,
         \A j \in left : entry[j].order \in Nat
  PROVE  Cardinality(left \ Counter!Evicted(left)) <= MaxKeys - 1
<1>1. Cardinality(left) \in Nat BY FS_CardinalityType
<1>2. /\ IsFiniteSet(left \ Counter!Evicted(left)) /\ Cardinality(left \ Counter!Evicted(left)) <= Cardinality(left)
  BY FS_Subset
<1>3. Cardinality(left \ Counter!Evicted(left)) \in Nat BY <1>2, FS_CardinalityType
<1>4. CASE Cardinality(left) < MaxKeys BY <1>1, <1>2, <1>3, <1>4
<1>5. CASE Cardinality(left) = MaxKeys
  <2>1. left # {} BY <1>5, FS_EmptySet
  <2>2. PICK m \in left : \A j \in left : ~(entry[j].order < entry[m].order) BY <2>1, FirstExists
  <2>3. Counter!Before(left, m) = {} BY <2>2 DEF Counter!Before
  <2>4. Cardinality(Counter!Before(left, m)) <= Cardinality(left) - MaxKeys
    BY <1>5, <2>3, FS_EmptySet
  <2>5. m \in Counter!Evicted(left) BY <2>4, FiniteCounter DEF Counter!Evicted
  <2>6. IsFiniteSet(left \ {m}) /\ Cardinality(left \ {m}) = MaxKeys - 1
    BY <1>5, FS_RemoveElement
  <2>7. left \ Counter!Evicted(left) \subseteq left \ {m} BY <2>5
  <2>8. QED BY <2>6, <2>7, FS_Subset
<1>6. QED BY <1>1, <1>4, <1>5

LEMMA KeysFit ==
  ASSUME Counter!CounterAssumption, CounterInv, NEW k \in Keys,
         NEW left, left = {j \in Counter!Present : ~Counter!Expired(j)}, NEW kept, kept = left \ Counter!Evicted(left)
  PROVE  IsFiniteSet(kept \cup {k}) /\ (MaxKeys > 0 => Cardinality(kept \cup {k}) <= MaxKeys)
<1>1. /\ IsFiniteSet(Counter!Present) /\ (MaxKeys > 0 => Cardinality(Counter!Present) <= MaxKeys) /\ MaxKeys \in Nat
      /\ \A j \in left : entry[j].order \in Nat
  BY CounterFacts, FiniteCounter DEF CounterInv, Counter!KeysBounded, Counter!Present
<1>2. IsFiniteSet(left) /\ Cardinality(left) <= Cardinality(Counter!Present) BY <1>1, FS_Subset
<1>3. IsFiniteSet(kept) BY <1>2, FS_Subset
<1>4. /\ IsFiniteSet(kept \cup {k})
      /\ Cardinality(kept \cup {k}) \in {Cardinality(kept), Cardinality(kept) + 1}
  BY <1>3, FS_AddElement
<1>5. ASSUME MaxKeys > 0 PROVE Cardinality(kept \cup {k}) <= MaxKeys
  <2>1. Cardinality(left) <= MaxKeys BY <1>1, <1>2, <1>5, FS_CardinalityType
  <2>2. Cardinality(kept) <= MaxKeys - 1 BY <1>1, <1>2, <1>5, <2>1, RoomIsMade
  <2>3. Cardinality(kept) \in Nat BY <1>3, FS_CardinalityType
  <2>4. QED BY <1>1, <1>4, <2>2, <2>3
<1>6. QED BY <1>4, <1>5

\* A new entry, for a key that had none or whose entry had expired.
LEMMA RecordFirstKeeps ==
  ASSUME Counter!CounterAssumption, CounterInv, NEW k \in Keys, Counter!RecordFirst(k)
  PROVE  CounterInv'
<1> DEFINE left == {j \in Counter!Present : ~Counter!Expired(j)}  gone == Counter!Evicted(left)
           fresh == [stamps |-> <<now>>, insertedAt |-> now, order |-> orderCounter + 1]
<1>0. /\ now \in Nat /\ CounterWindow \in Nat /\ Limit \in Nat \ {0} /\ orderCounter \in Nat
      /\ MaxKeys \in Nat
      /\ \A j \in Keys : /\ entry[j] \in Record /\ entry[j].stamps \in Seq(Nat)
                         /\ recorded[j] \in Seq(Nat) /\ entry[j].order \in Nat
  BY CounterFacts
<1>1. /\ now' = now /\ orderCounter' = orderCounter + 1 /\ k \notin left
      /\ entry' = [j \in Keys |-> CASE j = k -> fresh
                                    [] j # k /\ j \in left \ gone -> entry[j]
                                    [] OTHER -> Counter!None]
      /\ recorded' = [j \in Keys |-> CASE j = k -> Append(recorded[k], now)
                                       [] j # k /\ j \in gone -> <<>>
                                       [] OTHER -> recorded[j]]
  BY DEF Counter!RecordFirst
<1>2. entry'[k] = fresh /\ recorded'[k] = Append(recorded[k], now) BY <1>1
<1>3. \A j \in Keys \ {k} : entry'[j] = IF j \in left \ gone THEN entry[j] ELSE Counter!None
  BY <1>1
<1>4. \A j \in Keys \ {k} : recorded'[j] = IF j \in gone THEN <<>> ELSE recorded[j]
  BY <1>1
<1>5. \A j \in Keys \ left : entry[j] = Counter!None \/ Counter!Expired(j) BY DEF Counter!Present
<1>6. gone \subseteq left /\ left \subseteq Counter!Present /\ Counter!Present \subseteq Keys
  BY DEF Counter!Evicted, Counter!Present
<1>7. fresh \in Record /\ fresh # Counter!None BY <1>0 DEF Record, Counter!None
<1>8. Counter!None \in Record BY DEF Counter!None, Record
<1>9. \A j \in left : entry[j] # Counter!None BY DEF Counter!Present
<1>10. left = {j \in Counter!Present : ~Counter!Expired(j)} /\ gone = Counter!Evicted(left) OBVIOUS
<1>11. fresh.stamps = <<now>> /\ fresh.insertedAt = now /\ fresh.order = orderCounter + 1 OBVIOUS
<1> HIDE DEF left, gone, fresh
<1>12. CounterTyped'
  <2>1. recorded'[k] \in Seq(Nat) BY <1>0, <1>2, OneMoreTime
  <2>2. ASSUME NEW j \in Keys PROVE recorded'[j] \in Seq(Nat)
    <3>1. <<>> \in Seq(Nat) OBVIOUS
    <3>2. QED BY <1>0, <1>4, <2>1, <3>1
  <2>3. \A j \in Keys : entry'[j] \in Record BY <1>0, <1>2, <1>3, <1>7, <1>8
  <2>4. entry' = [j \in Keys |-> entry'[j]] /\ recorded' = [j \in Keys |-> recorded'[j]] BY <1>1
  <2>5. QED BY <1>0, <1>1, <2>2, <2>3, <2>4 DEF CounterTyped
<1>13. Counter!Present' = (left \ gone) \cup {k}
  BY <1>1, <1>2, <1>3, <1>6, <1>7, <1>9 DEF Counter!Present
<1>14. IsFiniteSet(Counter!Present)' /\ (MaxKeys > 0 => Cardinality(Counter!Present') <= MaxKeys)
  BY <1>10, <1>13, KeysFit
<1>15. \A j \in Counter!Present : entry[j].order \in 1 .. orderCounter
  BY DEF CounterInv, Placed, Counter!Present
<1>16. Counter!KeysBounded'
  <2>1. ASSUME NEW i \in Counter!Present', NEW j \in Counter!Present', entry'[i].order = entry'[j].order
        PROVE  i = j
    <3>1. CASE i # k /\ j # k
      <4>1. entry'[i] = entry[i] /\ entry'[j] = entry[j] /\ i \in Counter!Present /\ j \in Counter!Present
        BY <1>3, <1>6, <1>13, <3>1
      <4>2. QED BY <2>1, <4>1 DEF CounterInv, Counter!KeysBounded
    <3>2. CASE i = k /\ j # k
      <4>1. entry'[j] = entry[j] /\ j \in Counter!Present BY <1>3, <1>6, <1>13, <3>2
      <4>2. QED BY <1>0, <1>2, <1>11, <1>15, <2>1, <3>2, <4>1
    <3>3. CASE i # k /\ j = k
      <4>1. entry'[i] = entry[i] /\ i \in Counter!Present BY <1>3, <1>6, <1>13, <3>3
      <4>2. QED BY <1>0, <1>2, <1>11, <1>15, <2>1, <3>3, <4>1
    <3>4. QED BY <3>1, <3>2, <3>3
  <2>2. QED BY <1>14, <2>1, FiniteCounter DEF Counter!KeysBounded
<1>17. ASSUME NEW j \in Keys PROVE Placed(j)'
  <2>1. CASE j = k
    <3>1. /\ entry'[k].order \in 1 .. orderCounter' /\ entry'[k].insertedAt \in 0 .. now'
          /\ \A i \in 1 .. Len(entry'[k].stamps) : entry'[k].stamps[i] <= entry'[k].insertedAt
      BY <1>0, <1>1, <1>2, <1>11
    <3>2. QED BY <2>1, <3>1 DEF Placed
  <2>2. CASE j # k /\ j \in left \ gone
    <3>1. entry'[j] = entry[j] BY <1>3, <2>2
    <3>2. Placed(j) /\ entry[j] # Counter!None BY <1>9, <2>2 DEF CounterInv
    <3>3. /\ entry[j].order \in 1 .. orderCounter + 1 /\ entry[j].insertedAt \in 0 .. now
          /\ \A i \in 1 .. Len(entry[j].stamps) : entry[j].stamps[i] <= entry[j].insertedAt
      BY <1>0, <3>2 DEF Placed
    <3>4. QED BY <1>1, <3>1, <3>3 DEF Placed
  <2>3. CASE j # k /\ j \notin left \ gone BY <1>3, <2>3 DEF Placed
  <2>4. QED BY <2>1, <2>2, <2>3
<1>18. \A j \in Keys \ left : /\ Cardinality(Counter!Recent(recorded[j])) = 0
                              /\ EndsWith(recorded[j], <<>>)
  BY <1>0, <1>5, GoneIsOld, NothingOldCounts
<1>19. ASSUME NEW j \in Keys PROVE EndsWith(recorded'[j], entry'[j].stamps)
  <2>1. CASE j = k
    <3>1. EndsWith(recorded[k], <<>>) BY <1>1, <1>18
    <3>0. <<>> \in Seq(Nat) OBVIOUS
    <3>2. EndsWith(Append(recorded[k], now), Append(<<>>, now)) BY <1>0, <3>0, <3>1, EndsWithMore
    <3>3. Append(<<>>, now) = <<now>> OBVIOUS
    <3>4. QED BY <1>2, <1>11, <2>1, <3>2, <3>3
  <2>2. CASE j # k /\ j \in left \ gone
    <3>1. entry'[j] = entry[j] /\ recorded'[j] = recorded[j] BY <1>3, <1>4, <2>2
    <3>2. QED BY <3>1 DEF CounterInv
  <2>3. CASE j # k /\ j \in gone
    <3>1. entry'[j] = Counter!None /\ recorded'[j] = <<>> BY <1>3, <1>4, <2>3
    <3>2. QED BY <3>1 DEF EndsWith, Counter!None
  <2>4. CASE j # k /\ j \notin left
    <3>1. entry'[j] = Counter!None /\ recorded'[j] = recorded[j] BY <1>3, <1>4, <1>6, <2>4
    <3>2. Counter!None.stamps = <<>> BY DEF Counter!None
    <3>3. QED BY <1>18, <2>4, <3>1, <3>2
  <2>5. QED BY <2>1, <2>2, <2>3, <2>4
<1>20. \A j \in Keys : EndsWith(recorded[j], entry[j].stamps)'
  <2>1. \A j \in Keys : EndsWith(recorded'[j], entry'[j].stamps) BY <1>19
  <2>2. now' = now BY <1>1
  <2>3. QED BY <2>1, <2>2 DEF EndsWith
<1>21. ASSUME NEW j \in Keys PROVE Cardinality(Counter!Recent(recorded'[j])) <= Limit
  <2>1. CASE j = k
    <3>1. Cardinality(Counter!Recent(recorded[k])) = 0 BY <1>1, <1>18
    <3>2. Cardinality(Counter!Recent(recorded'[k])) <= 0 + 1 BY <1>0, <1>2, <3>1, OneMoreTime
    <3>3. Cardinality(Counter!Recent(recorded'[k])) \in Nat BY <1>0, <1>2, OneMoreTime, RecentFinite
    <3>4. QED BY <1>0, <2>1, <3>2, <3>3
  <2>2. CASE j # k /\ j \in gone
    <3>1. recorded'[j] = <<>> BY <1>4, <2>2
    <3>2. Cardinality(Counter!Recent(<<>>)) = 0 BY NothingCounts
    <3>3. QED BY <1>0, <3>1, <3>2
  <2>3. CASE j # k /\ j \notin gone
    <3>1. recorded'[j] = recorded[j] BY <1>4, <2>3
    <3>2. QED BY <3>1, FiniteCounter DEF CounterInv, Counter!CounterLimit
  <2>4. QED BY <2>1, <2>2, <2>3
<1>22. Counter!CounterLimit'
  <2>1. \A j \in Keys : Counter!Recent(recorded[j])' = Counter!Recent(recorded'[j])
    BY <1>1 DEF Counter!Recent
  <2>2. QED BY <1>21, <2>1, FiniteCounter DEF Counter!CounterLimit
<1>23. QED BY <1>12, <1>14, <1>16, <1>17, <1>20, <1>22 DEF CounterInv

\* Entries that expired are dropped, and one that is deleted, with what was recorded for it.
LEMMA DropKeeps ==
  ASSUME Counter!CounterAssumption, CounterInv, NEW ks, Counter!Drop(ks), now' = now, orderCounter' = orderCounter,
         recorded' \in [Keys -> Seq(Nat)],
         \A j \in Keys : \/ recorded'[j] = recorded[j] /\ (j \in ks => Counter!Expired(j))
                         \/ recorded'[j] = <<>> /\ j \in ks
  PROVE  CounterInv'
<1>0. /\ now \in Nat /\ CounterWindow \in Nat /\ Limit \in Nat \ {0} /\ orderCounter \in Nat
      /\ MaxKeys \in Nat
      /\ \A j \in Keys : entry[j] \in Record /\ recorded[j] \in Seq(Nat)
  BY CounterFacts
<1>1. \A j \in Keys : entry'[j] = IF j \in ks THEN Counter!None ELSE entry[j] BY DEF Counter!Drop
<1>2. CounterTyped'
  <2>1. Counter!None \in Record BY DEF Counter!None, Record
  <2>2. \A j \in Keys : entry'[j] \in Record BY <1>0, <1>1, <2>1
  <2>3. entry' = [j \in Keys |-> entry'[j]] BY DEF Counter!Drop
  <2>4. QED BY <1>0, <2>2, <2>3 DEF CounterTyped
<1>3. Counter!Present' \subseteq Counter!Present BY <1>1 DEF Counter!Present
<1>4. \A j \in Counter!Present' : j \in Keys /\ j \in Counter!Present /\ entry'[j] = entry[j]
  BY <1>1 DEF Counter!Present
<1>5. /\ IsFiniteSet(Counter!Present) /\ (MaxKeys > 0 => Cardinality(Counter!Present) <= MaxKeys)
  BY FiniteCounter DEF CounterInv, Counter!KeysBounded
<1>6. IsFiniteSet(Counter!Present)' /\ Cardinality(Counter!Present') <= Cardinality(Counter!Present)
  BY <1>3, <1>5, FS_Subset
<1>7. Counter!KeysBounded'
  <2>1. MaxKeys > 0 => Cardinality(Counter!Present') <= MaxKeys
    BY <1>0, <1>5, <1>6, FS_CardinalityType
  <2>2. \A i, j \in Counter!Present' : entry'[i].order = entry'[j].order => i = j
    BY <1>4 DEF CounterInv, Counter!KeysBounded
  <2>3. QED BY <2>1, <2>2, FiniteCounter DEF Counter!KeysBounded
<1>8. \A j \in Keys : Placed(j)'
  <2>1. \A j \in Keys : Placed(j) BY DEF CounterInv
  <2>2. QED BY <1>1, <2>1 DEF Placed
<1>9. ASSUME NEW j \in Keys PROVE EndsWith(recorded'[j], entry'[j].stamps)
  <2>1. Counter!None.stamps = <<>> /\ EndsWith(<<>>, <<>>) BY DEF Counter!None, EndsWith
  <2>2. CASE recorded'[j] = recorded[j] /\ j \in ks /\ Counter!Expired(j)
    <3>1. Counter!Expired(j) BY <2>2
    <3>2. EndsWith(recorded[j], <<>>) BY <1>0, <3>1, GoneIsOld, NothingOldCounts
    <3>3. QED BY <1>1, <2>1, <2>2, <3>2
  <2>3. CASE recorded'[j] = <<>> /\ j \in ks BY <1>1, <2>1, <2>3
  <2>4. CASE j \notin ks BY <1>1, <2>4 DEF CounterInv
  <2>5. QED BY <2>2, <2>3, <2>4
<1>10. \A j \in Keys : EndsWith(recorded[j], entry[j].stamps)' BY <1>9 DEF EndsWith
<1>11. Counter!CounterLimit'
  <2>1. \A j \in Keys : Counter!Recent(recorded[j])' = Counter!Recent(recorded'[j])
    BY DEF Counter!Recent
  <2>2. Cardinality(Counter!Recent(<<>>)) <= Limit BY <1>0, NothingCounts
  <2>3. \A j \in Keys : Cardinality(Counter!Recent(recorded'[j])) <= Limit
    BY <2>2, FiniteCounter DEF CounterInv, Counter!CounterLimit
  <2>4. QED BY <2>1, <2>3, FiniteCounter DEF Counter!CounterLimit
<1>12. QED BY <1>2, <1>6, <1>7, <1>8, <1>10, <1>11 DEF CounterInv

\* As time passes what is out of the window stays out, and no more counts than before.
LEMMA TickKeeps == ASSUME Counter!CounterAssumption, CounterInv, Counter!Tick PROVE CounterInv'
<1>0. /\ now \in Nat /\ CounterWindow \in Nat /\ Limit \in Nat \ {0}
      /\ \A j \in Keys : recorded[j] \in Seq(Nat)
  BY CounterFacts
<1>1. now' = now + 1 /\ entry' = entry /\ orderCounter' = orderCounter /\ recorded' = recorded
  BY DEF Counter!Tick
<1>2. CounterTyped' BY <1>1 DEF CounterInv, CounterTyped
<1>3. Counter!Present' = Counter!Present BY <1>1 DEF Counter!Present
<1>4. IsFiniteSet(Counter!Present)' BY <1>3 DEF CounterInv
<1>5. Counter!KeysBounded' BY <1>1, <1>3, FiniteCounter DEF CounterInv, Counter!KeysBounded
<1>6. \A j \in Keys : Placed(j)' BY <1>0, <1>1 DEF CounterInv, Placed
<1>7. ASSUME NEW j \in Keys PROVE EndsWith(recorded[j], entry[j].stamps)'
  <2> DEFINE r == recorded[j]  s == entry[j].stamps  d == Len(r) - Len(s)
  <2>1. r \in Seq(Nat) /\ Len(r) \in Nat /\ \A i \in 1 .. Len(r) : r[i] \in Nat BY <1>0
  <2>2. /\ d \in Nat /\ (\A i \in 1 .. Len(s) : r[d + i] = s[i])
        /\ \A i \in 1 .. d : r[i] <= now - CounterWindow
    BY DEF CounterInv, EndsWith
  <2>3. s \in Seq(Nat) /\ Len(s) \in Nat BY CounterFacts
  <2>4. d <= Len(r)
    <3> HIDE DEF r, s
    <3>1. QED BY <2>1, <2>3
  <2> HIDE DEF d
  <2>5. \A i \in 1 .. d : r[i] <= now + 1 - CounterWindow
    <3>1. \A i \in 1 .. d : i \in 1 .. Len(r) BY <2>1, <2>2, <2>4
    <3> HIDE DEF r
    <3>2. QED BY <1>0, <2>1, <2>2, <3>1
  <2>6. recorded'[j] = r /\ entry'[j].stamps = s /\ now' = now + 1 BY <1>1
  <2> HIDE DEF r, s
  <2>7. EndsWith(recorded[j], entry[j].stamps)' <=>
          /\ Len(recorded'[j]) - Len(entry'[j].stamps) \in Nat
          /\ \A i \in 1 .. Len(entry'[j].stamps) :
               recorded'[j][Len(recorded'[j]) - Len(entry'[j].stamps) + i] = entry'[j].stamps[i]
          /\ \A i \in 1 .. Len(recorded'[j]) - Len(entry'[j].stamps) : recorded'[j][i] <= now' - CounterWindow
    BY DEF EndsWith
  <2>8. QED BY <1>0, <2>1, <2>2, <2>3, <2>5, <2>6, <2>7 DEF d
<1>8. ASSUME NEW j \in Keys PROVE Cardinality(Counter!Recent(recorded[j])') <= Limit
  <2> DEFINE r == recorded[j]
  <2>1. r \in Seq(Nat) /\ \A i \in DOMAIN r : r[i] \in Nat BY <1>0
  <2>2. recorded'[j] = r /\ now' = now + 1 BY <1>1
  <2> HIDE DEF r
  <2>3. Counter!Recent(recorded[j])' \subseteq Counter!Recent(r)
    <3> SUFFICES ASSUME NEW i \in Counter!Recent(recorded[j])' PROVE i \in Counter!Recent(r) OBVIOUS
    <3>1. i \in {m \in DOMAIN recorded'[j] : recorded'[j][m] > now' - CounterWindow}
      BY DEF Counter!Recent
    <3>2. i \in DOMAIN r /\ r[i] > now + 1 - CounterWindow BY <1>0, <2>1, <2>2, <3>1
    <3>3. QED BY <1>0, <2>1, <3>2 DEF Counter!Recent
  <2>4. IsFiniteSet(Counter!Recent(r)) /\ Cardinality(Counter!Recent(r)) \in Nat
    BY <2>1, RecentFinite
  <2>5. /\ Cardinality(Counter!Recent(recorded[j])') <= Cardinality(Counter!Recent(r))
        /\ Cardinality(Counter!Recent(recorded[j])') \in Nat
    BY <2>3, <2>4, FS_Subset, FS_CardinalityType
  <2>6. Cardinality(Counter!Recent(r)) <= Limit
    BY FiniteCounter DEF CounterInv, Counter!CounterLimit, r
  <2>7. QED BY <1>0, <2>4, <2>5, <2>6
<1>9. Counter!CounterLimit' BY <1>8, FiniteCounter DEF Counter!CounterLimit
<1>10. QED BY <1>2, <1>4, <1>5, <1>6, <1>7, <1>9 DEF CounterInv
-----------------------------------------------------------------------------
LEMMA CounterBegins == Counter!CounterAssumption /\ Counter!Init => CounterInv
<1> SUFFICES ASSUME Counter!CounterAssumption, Counter!Init PROVE CounterInv OBVIOUS
<1>0. /\ CounterWindow \in Nat /\ Limit \in Nat \ {0} /\ MaxKeys \in Nat
  BY DEF Counter!CounterAssumption
<1>1. now = 0 /\ orderCounter = 0 /\ entry = [k \in Keys |-> Counter!None] /\ recorded = [k \in Keys |-> <<>>]
  BY DEF Counter!Init
<1>2. CounterTyped BY <1>1 DEF CounterTyped, Record, Counter!None
<1>3. Counter!Present = {} BY <1>1 DEF Counter!Present
<1>4. IsFiniteSet(Counter!Present) /\ Counter!KeysBounded
  BY <1>0, <1>3, FS_EmptySet, FiniteCounter DEF Counter!KeysBounded
<1>5. \A k \in Keys : Placed(k) BY <1>1 DEF Placed
<1>6. \A k \in Keys : EndsWith(recorded[k], entry[k].stamps) BY <1>1 DEF EndsWith, Counter!None
<1>7. Counter!CounterLimit
  <2>1. Cardinality(Counter!Recent(<<>>)) = 0 BY NothingCounts
  <2>2. \A k \in Keys : Cardinality(Counter!Recent(recorded[k])) <= Limit BY <1>0, <1>1, <2>1
  <2>3. QED BY <2>2, FiniteCounter DEF Counter!CounterLimit
<1>8. QED BY <1>2, <1>4, <1>5, <1>6, <1>7 DEF CounterInv

LEMMA CounterStep == Counter!CounterAssumption /\ CounterInv /\ [Counter!Next]_(Counter!vars) => CounterInv'
<1> SUFFICES ASSUME Counter!CounterAssumption, CounterInv, [Counter!Next]_(Counter!vars) PROVE CounterInv' OBVIOUS
<1>1. ASSUME NEW k \in Keys, Counter!Delete(k) PROVE CounterInv'
  <2>1. /\ Counter!Drop({k}) /\ now' = now /\ orderCounter' = orderCounter
        /\ recorded' = [recorded EXCEPT ![k] = <<>>]
    BY <1>1 DEF Counter!Delete
  <2>2. recorded' \in [Keys -> Seq(Nat)] /\ recorded'[k] = <<>>
        /\ \A j \in Keys \ {k} : recorded'[j] = recorded[j]
    BY <2>1 DEF CounterInv, CounterTyped
  <2>3. QED BY <2>1, <2>2, DropKeeps
<1>2. CASE Counter!Cleanup
  <2>1. /\ Counter!Drop({k \in Keys : Counter!Expired(k)}) /\ now' = now /\ orderCounter' = orderCounter
        /\ recorded' = recorded
    BY <1>2 DEF Counter!Cleanup
  <2>2. QED BY <2>1, DropKeeps DEF CounterInv, CounterTyped
<1>3. CASE UNCHANGED Counter!vars
  <2>1. /\ now' = now /\ entry' = entry /\ orderCounter' = orderCounter /\ recorded' = recorded
    BY <1>3 DEF Counter!vars
  <2>2. QED BY <2>1 DEF CounterInv, CounterTyped, Placed, EndsWith, Counter!Present,
            Counter!KeysBounded,
                        Counter!CounterLimit, Counter!Recent
<1>4. QED BY <1>1, <1>2, <1>3, RecordMoreKeeps, RecordFirstKeeps, TickKeeps DEF Counter!Next

\* However keys expire, give way and come back: the counter holds no more keys than it may, gives
\* way in the order of their insertion, and allows no key more than the limit in any window.
THEOREM CounterExactHolds == Counter!Spec => []CounterExact
<1> USE GuardsAssumption DEF GuardsAssumption
<1>1. Counter!Init => CounterInv BY CounterBegins
<1>2. CounterInv /\ [Counter!Next]_(Counter!vars) => CounterInv' BY CounterStep
<1>3. CounterInv => CounterExact BY DEF CounterInv, CounterExact, Counter!CounterExact
<1>4. QED BY <1>1, <1>2, <1>3, PTL DEF Counter!Spec
-----------------------------------------------------------------------------
(***************************************************************************)
(* The governor: what ran within the window is exactly what the global     *)
(* window holds of it, and is in the window of its session as well, so     *)
(* that a check that finds room there finds it among what ran.             *)
(***************************************************************************)
LEMMA FiniteRates == \A S : Rates!Cardinality(S) = Cardinality(S)
BY DEF Rates!Cardinality, Cardinality

Dialog == "extension_ui_response"
Charges == [generation : Nat, bucket : [Rates!BucketKeys -> SUBSET Rates!Entries], global : SUBSET Rates!Entries,
            responses : [Sessions -> SUBSET Rates!Entries]]
Runs == [at : Nat, gen : Nat, key : Rates!BucketKeys, type : SentTypes]

AllFinite(g) ==
  /\ IsFiniteSet(g.global) /\ (\A k \in Rates!BucketKeys : IsFiniteSet(g.bucket[k]))
  /\ \A s \in Sessions : IsFiniteSet(g.responses[s])

\* The entry a command left in the command windows, and that of a dialog response.
Mark(r) == [at |-> r.at, gen |-> r.gen]
ReplyMark(r) == [at |-> r.at, gen |-> r.gen + 1]
Since(rs, s) == {r \in Rates!Recent(rs) : r.key = <<"data", s>> /\ r.gen > born[s].gen}

\* What a table of charges must hold of the commands in rs.
InGlobal(entries, rs) == Rates!Recent(entries) = {Mark(r) : r \in Rates!Recent(rs)}
InBuckets(bucket, rs) == \A s \in live : \A r \in Since(rs, s) : Mark(r) \in bucket[<<"data", s>>]
InResponses(responses, rs) ==
  \A s \in live : \A r \in Since(rs, s) : r.type = Dialog => ReplyMark(r) \in responses[s]
Covers(g, rs) ==
  InGlobal(g.global, rs) /\ InBuckets(g.bucket, rs) /\ InResponses(g.responses, rs)

RateTyped ==
  /\ now \in Nat /\ live \subseteq Sessions /\ charges \in Charges /\ ran \subseteq Runs
  /\ createdAt \in [Sessions -> Nat \cup {Rates!Never}]
  /\ born \in [Sessions -> [at : Int, gen : Nat]]
  /\ IsFiniteSet(ran) /\ AllFinite(charges)

\* Generations number what ran.
Numbered ==
  /\ \A r \in ran : r.gen <= charges.generation
  /\ \A r, q \in ran : r.gen = q.gen => r = q

\* The creation times kept are those of the sessions that live.
Ages ==
  /\ \A s \in live : born[s].at \in 0 .. now
  /\ \A s \in Sessions : createdAt[s] = IF s \in live THEN born[s].at ELSE Rates!Never

RateInv == RateTyped /\ Numbered /\ Covers(charges, ran) /\ Ages /\ Rates!GlobalLimit /\ Rates!SessionLimits
-----------------------------------------------------------------------------
LEMMA RateConstants ==
  ASSUME Rates!GovernorAssumption
  PROVE  /\ MaxCommands \in Nat /\ MaxGlobal \in Nat /\ MaxResponses \in Nat
         /\ RateWindow \in Nat /\ RateWindow > 0 /\ Nobody \notin Sessions
BY DEF Rates!GovernorAssumption

LEMMA RecentSubset == \A X : Rates!Recent(X) \subseteq X /\ Rates!Recent(Rates!Recent(X)) = Rates!Recent(X)
BY DEF Rates!Recent

LEMMA RecentTyped == \A X \in SUBSET Rates!Entries : Rates!Recent(X) \in SUBSET Rates!Entries
BY RecentSubset

LEMMA RecentFiniteSet == ASSUME NEW X, IsFiniteSet(X) PROVE IsFiniteSet(Rates!Recent(X))
BY RecentSubset, FS_Subset

LEMMA TargetIsKey ==
  ASSUME NEW c, NEW s \in Sessions \cup {Nobody}
  PROVE  /\ Rates!RateLimitTarget(c, s, Nobody) \in Rates!BucketKeys
         /\ Rates!Plane(c) = "data" => Rates!RateLimitTarget(c, s, Nobody) = <<"data", s>>
         /\ \A t : Rates!RateLimitTarget(c, s, Nobody) = <<"data", t>> => Rates!Plane(c) = "data" /\ t = s
BY DEF Rates!RateLimitTarget, Rates!BucketKeys, Rates!Plane

LEMMA DialogIsData == Rates!Plane(Dialog) = "data"
BY DEF Rates!Plane, Dialog, Rates!ControlPlaneCommands

\* What the windows are after each operation.
LEMMA GlobalPrunedIs ==
  ASSUME NEW g \in Charges
  PROVE  LET h == Rates!GlobalPruned(g) IN
         /\ h \in Charges /\ h.generation = g.generation /\ h.global = Rates!Recent(g.global)
         /\ h.bucket = g.bucket /\ h.responses = g.responses
BY RecentTyped DEF Rates!GlobalPruned, Charges

LEMMA PrunedIs ==
  ASSUME NEW g \in Charges, NEW key \in Rates!BucketKeys
  PROVE  LET h == Rates!Pruned(g, key) IN
         /\ h \in Charges /\ h.generation = g.generation /\ h.global = Rates!Recent(g.global)
         /\ h.bucket = [g.bucket EXCEPT ![key] = Rates!Recent(@)] /\ h.responses = g.responses
<1> DEFINE f == Rates!GlobalPruned(g)
<1>1. /\ f \in Charges /\ f.generation = g.generation /\ f.global = Rates!Recent(g.global)
      /\ f.bucket = g.bucket /\ f.responses = g.responses
  BY GlobalPrunedIs
<1>2. Rates!Pruned(g, key) = [f EXCEPT !.bucket[key] = Rates!Recent(@)] BY DEF Rates!Pruned
<1> HIDE DEF f
<1>3. Rates!Recent(f.bucket[key]) \in SUBSET Rates!Entries BY <1>1, RecentTyped DEF Charges
<1>4. QED BY <1>1, <1>2, <1>3 DEF Charges

LEMMA ResponsesPrunedIs ==
  ASSUME NEW g \in Charges, NEW s \in Sessions
  PROVE  LET h == Rates!ResponsesPruned(g, s) IN
         /\ h \in Charges /\ h.generation = g.generation /\ h.global = g.global
         /\ h.bucket = g.bucket /\ h.responses = [g.responses EXCEPT ![s] = Rates!Recent(@)]
<1>1. Rates!Recent(g.responses[s]) \in SUBSET Rates!Entries BY RecentTyped DEF Charges
<1>2. QED BY <1>1 DEF Rates!ResponsesPruned, Charges

LEMMA ChargeIs ==
  ASSUME NEW g \in Charges, NEW key \in Rates!BucketKeys, now \in Nat
  PROVE  LET h == Rates!Charge(g, key)
             e == [at |-> now, gen |-> g.generation + 1] IN
         /\ h \in Charges /\ e \in Rates!Entries
         /\ h.generation = g.generation + 1 /\ h.global = g.global \cup {e}
         /\ h.bucket = [g.bucket EXCEPT ![key] = @ \cup {e}] /\ h.responses = g.responses
<1>1. [at |-> now, gen |-> g.generation + 1] \in Rates!Entries BY DEF Rates!Entries, Charges
<1> DEFINE n == g.generation + 1  e == [at |-> now, gen |-> n]
<1>2. /\ g.bucket[key] \cup {e} \in SUBSET Rates!Entries /\ g.global \cup {e} \in SUBSET Rates!Entries
      /\ n \in Nat
  BY <1>1 DEF Charges
<1>3. Rates!Charge(g, key) = [g EXCEPT !.generation = n, !.bucket[key] = @ \cup {e},
                                       !.global = @ \cup {e}]
  BY DEF Rates!Charge, Rates!Next1
<1> HIDE DEF n, e
<1>4. LET h == Rates!Charge(g, key) IN
      /\ h \in Charges /\ h.generation = n /\ h.global = g.global \cup {e}
      /\ h.bucket = [g.bucket EXCEPT ![key] = @ \cup {e}] /\ h.responses = g.responses
  <2> DEFINE h == Rates!Charge(g, key)
  <2>1. g = [generation |-> g.generation, bucket |-> g.bucket, global |-> g.global,
             responses |-> g.responses]
    BY DEF Charges
  <2>2. h = [generation |-> n, bucket |-> [g.bucket EXCEPT ![key] = @ \cup {e}],
             global |-> g.global \cup {e}, responses |-> g.responses]
    BY <1>3, <2>1
  <2>3. [g.bucket EXCEPT ![key] = @ \cup {e}] \in [Rates!BucketKeys -> SUBSET Rates!Entries]
    BY <1>2 DEF Charges
  <2>4. g.responses \in [Sessions -> SUBSET Rates!Entries] BY DEF Charges
  <2>5. QED BY <1>2, <2>2, <2>3, <2>4 DEF Charges
<1>5. QED BY <1>1, <1>4 DEF n, e

LEMMA ChargeResponseIs ==
  ASSUME NEW g \in Charges, NEW s \in Sessions, now \in Nat
  PROVE  LET h == Rates!ChargeResponse(g, s)
             e == [at |-> now, gen |-> g.generation + 1] IN
         /\ h \in Charges /\ e \in Rates!Entries
         /\ h.generation = g.generation + 1 /\ h.global = g.global
         /\ h.bucket = g.bucket /\ h.responses = [g.responses EXCEPT ![s] = @ \cup {e}]
<1>1. [at |-> now, gen |-> g.generation + 1] \in Rates!Entries BY DEF Rates!Entries, Charges
<1> DEFINE n == g.generation + 1  e == [at |-> now, gen |-> n]
<1>2. g.responses[s] \cup {e} \in SUBSET Rates!Entries /\ n \in Nat BY <1>1 DEF Charges
<1>3. Rates!ChargeResponse(g, s) = [g EXCEPT !.generation = n, !.responses[s] = @ \cup {e}]
  BY DEF Rates!ChargeResponse, Rates!Next1
<1> HIDE DEF n, e
<1>4. LET h == Rates!ChargeResponse(g, s) IN
      /\ h \in Charges /\ h.generation = n /\ h.global = g.global
      /\ h.bucket = g.bucket /\ h.responses = [g.responses EXCEPT ![s] = @ \cup {e}]
  <2> DEFINE h == Rates!ChargeResponse(g, s)
  <2>1. g = [generation |-> g.generation, bucket |-> g.bucket, global |-> g.global,
             responses |-> g.responses]
    BY DEF Charges
  <2>2. h = [generation |-> n, bucket |-> g.bucket, global |-> g.global,
             responses |-> [g.responses EXCEPT ![s] = @ \cup {e}]]
    BY <1>3, <2>1
  <2>3. [g.responses EXCEPT ![s] = @ \cup {e}] \in [Sessions -> SUBSET Rates!Entries]
    BY <1>2 DEF Charges
  <2>4. g.bucket \in [Rates!BucketKeys -> SUBSET Rates!Entries] /\ g.global \in SUBSET Rates!Entries
    BY DEF Charges
  <2>5. QED BY <1>2, <2>2, <2>3, <2>4 DEF Charges
<1>5. QED BY <1>1, <1>4 DEF n, e

LEMMA RefundIs ==
  ASSUME NEW g \in Charges, NEW key \in Rates!BucketKeys, NEW gen \in Nat, \E e \in g.bucket[key] : e.gen = gen
  PROVE  LET h == Rates!Refund(g, key, gen) IN
         /\ h \in Charges /\ h.generation = g.generation /\ h.global = Rates!Without(g.global, gen)
         /\ h.bucket = [g.bucket EXCEPT ![key] = Rates!Without(@, gen)] /\ h.responses = g.responses
<1>1. \A X \in SUBSET Rates!Entries : Rates!Without(X, gen) \in SUBSET Rates!Entries
  BY DEF Rates!Without
<1>2. g.global \in SUBSET Rates!Entries /\ g.bucket[key] \in SUBSET Rates!Entries BY DEF Charges
<1>3. /\ Rates!Without(g.global, gen) \in SUBSET Rates!Entries
      /\ Rates!Without(g.bucket[key], gen) \in SUBSET Rates!Entries
  BY <1>1, <1>2
<1>4. QED BY <1>3 DEF Rates!Refund, Charges

LEMMA RefundResponseIs ==
  ASSUME NEW g \in Charges, NEW s \in Sessions, NEW gen \in Nat
  PROVE  LET h == Rates!RefundResponse(g, s, gen) IN
         /\ h \in Charges /\ h.generation = g.generation /\ h.global = g.global
         /\ h.bucket = g.bucket /\ h.responses = [g.responses EXCEPT ![s] = Rates!Without(@, gen)]
<1>1. \A X \in SUBSET Rates!Entries : Rates!Without(X, gen) \in SUBSET Rates!Entries
  BY DEF Rates!Without
<1>2. Rates!Without(g.responses[s], gen) \in SUBSET Rates!Entries BY <1>1 DEF Charges
<1>3. QED BY <1>2 DEF Rates!RefundResponse, Charges
-----------------------------------------------------------------------------
\* Windows that lose nothing of what ran within the window, whatever they gain or lose else.
Saves(g) ==
  /\ g \in Charges /\ AllFinite(g) /\ g.generation >= charges.generation
  /\ Rates!Recent(g.global) = Rates!Recent(charges.global)
  /\ \A k \in Rates!BucketKeys : \A e \in Rates!Recent(charges.bucket[k]) :
       e.gen <= charges.generation => e \in g.bucket[k]
  /\ \A s \in Sessions : \A e \in Rates!Recent(charges.responses[s]) :
       e.gen <= charges.generation + 1 => e \in g.responses[s]

LEMMA RateFacts ==
  ASSUME Rates!GovernorAssumption, RateInv
  PROVE  /\ now \in Nat /\ charges \in Charges /\ charges.generation \in Nat
         /\ charges.global \in SUBSET Rates!Entries /\ IsFiniteSet(charges.global)
         /\ \A k \in Rates!BucketKeys : charges.bucket[k] \in SUBSET Rates!Entries /\ IsFiniteSet(charges.bucket[k])
         /\ \A s \in Sessions : /\ charges.responses[s] \in SUBSET Rates!Entries
                                /\ IsFiniteSet(charges.responses[s])
         /\ ran \subseteq Runs /\ IsFiniteSet(ran) /\ live \subseteq Sessions
         /\ \A s \in Sessions : born[s].gen \in Nat /\ born[s].at \in Int
         /\ RateWindow \in Nat /\ RateWindow > 0
BY RateConstants DEF RateInv, RateTyped, Charges, AllFinite

LEMMA KeyOfSession == \A s \in Sessions : <<"data", s>> \in Rates!BucketKeys
BY DEF Rates!BucketKeys

LEMMA SavesCovers ==
  ASSUME Rates!GovernorAssumption, RateInv, NEW g, Saves(g)
  PROVE  Covers(g, ran)
<1>0. now \in Nat /\ RateWindow \in Nat /\ charges.generation \in Nat /\ live \subseteq Sessions
      /\ ran \subseteq Runs
  BY RateFacts
<1>1. InGlobal(g.global, ran) BY DEF RateInv, Covers, InGlobal, Saves
<1>2. ASSUME NEW s \in live, NEW r \in Since(ran, s)
      PROVE  /\ Mark(r) \in g.bucket[<<"data", s>>]
             /\ r.type = Dialog => ReplyMark(r) \in g.responses[s]
  <2>1. r \in ran /\ r.at > now - RateWindow /\ r.at \in Nat /\ r.gen \in Nat
    BY <1>0 DEF Since, Rates!Recent, Runs
  <2>2. r.gen <= charges.generation BY <2>1 DEF RateInv, Numbered
  <2>3. Mark(r) \in charges.bucket[<<"data", s>>] BY DEF RateInv, Covers, InBuckets
  <2>4. Mark(r).at = r.at /\ Mark(r).gen = r.gen BY DEF Mark
  <2>5. Mark(r) \in Rates!Recent(charges.bucket[<<"data", s>>]) BY <2>1, <2>3, <2>4 DEF Rates!Recent
  <2>6. Mark(r) \in g.bucket[<<"data", s>>] BY <1>0, <2>2, <2>4, <2>5, KeyOfSession DEF Saves
  <2>7. ASSUME r.type = Dialog PROVE ReplyMark(r) \in g.responses[s]
    <3>1. ReplyMark(r) \in charges.responses[s] BY <2>7 DEF RateInv, Covers, InResponses
    <3>2. ReplyMark(r).at = r.at /\ ReplyMark(r).gen = r.gen + 1 BY DEF ReplyMark
    <3>3. ReplyMark(r) \in Rates!Recent(charges.responses[s]) BY <2>1, <3>1, <3>2 DEF Rates!Recent
    <3>4. ReplyMark(r).gen <= charges.generation + 1 BY <1>0, <2>1, <2>2, <3>2
    <3>5. QED BY <1>0, <3>3, <3>4 DEF Saves
  <2>8. QED BY <2>6, <2>7
<1>3. QED BY <1>1, <1>2 DEF Covers, InBuckets, InResponses

LEMMA SameNowSameRecent == now' = now => \A X : Rates!Recent(X)' = Rates!Recent(X)
BY DEF Rates!Recent

\* A step that runs nothing keeps the invariant if its windows lose nothing.
LEMMA NothingRunsKeeps ==
  ASSUME Rates!GovernorAssumption, RateInv, Rates!NothingRuns, Saves(charges')
  PROVE  RateInv'
<1>1. now' = now /\ live' = live /\ createdAt' = createdAt /\ born' = born /\ ran' = ran
  BY DEF Rates!NothingRuns
<1>2. charges' \in Charges /\ AllFinite(charges') /\ charges'.generation >= charges.generation
  BY DEF Saves
<1>3. RateTyped' BY <1>1, <1>2 DEF RateInv, RateTyped, AllFinite
<1>4. Numbered'
  <2>1. charges.generation \in Nat /\ charges'.generation \in Nat /\ \A r \in ran : r.gen \in Nat
    BY <1>2, RateFacts DEF Charges, Runs
  <2>2. QED BY <1>1, <1>2, <2>1 DEF RateInv, Numbered
<1>5. Covers(charges', ran) BY SavesCovers
<1>6. \A X : Rates!Recent(X)' = Rates!Recent(X) BY <1>1, SameNowSameRecent
<1>7. Rates!Recent(ran)' = Rates!Recent(ran)
  BY <1>1 DEF Rates!Recent
<1>8. \A s : Since(ran, s)' = Since(ran, s) BY <1>1, <1>7 DEF Since
<1>9. Rates!Recent(charges.global)' = Rates!Recent(charges'.global) BY <1>1 DEF Rates!Recent
<1>10. Covers(charges, ran)'
  <2>1. InGlobal(charges.global, ran)' BY <1>5, <1>7, <1>9 DEF Covers, InGlobal, Mark
  <2>2. InBuckets(charges.bucket, ran)' BY <1>1, <1>5, <1>8 DEF Covers, InBuckets, Mark
  <2>3. InResponses(charges.responses, ran)' BY <1>1, <1>5, <1>8 DEF Covers, InResponses, ReplyMark
  <2>4. QED BY <2>1, <2>2, <2>3 DEF Covers
<1>11. Ages' BY <1>1 DEF RateInv, Ages
<1>12. Rates!GlobalLimit' BY <1>7, FiniteRates DEF RateInv, Rates!GlobalLimit
<1>13. Rates!SessionLimits'
  <2>1. \A s : Rates!RanSince(s)' = Rates!RanSince(s) BY <1>1, <1>7 DEF Rates!RanSince
  <2>2. QED BY <1>1, <2>1, FiniteRates DEF RateInv, Rates!SessionLimits
<1>14. QED BY <1>3, <1>4, <1>10, <1>11, <1>12, <1>13 DEF RateInv
-----------------------------------------------------------------------------
LEMMA GlobalPrunedSaves ==
  ASSUME Rates!GovernorAssumption, RateInv
  PROVE  Saves(Rates!GlobalPruned(charges))
<1>1. IsFiniteSet(Rates!Recent(charges.global)) BY RateFacts, RecentFiniteSet
<1>2. charges \in Charges BY RateFacts
<1>3. LET h == Rates!GlobalPruned(charges) IN
      /\ h \in Charges /\ h.generation = charges.generation /\ h.global = Rates!Recent(charges.global)
      /\ h.bucket = charges.bucket /\ h.responses = charges.responses
  BY <1>2, GlobalPrunedIs
<1>4. QED BY <1>1, <1>3, RateFacts, RecentSubset DEF Saves, AllFinite

LEMMA PrunedSaves ==
  ASSUME Rates!GovernorAssumption, RateInv, NEW key \in Rates!BucketKeys
  PROVE  Saves(Rates!Pruned(charges, key))
<1> DEFINE h == Rates!Pruned(charges, key)
<1>1. /\ h \in Charges /\ h.generation = charges.generation /\ h.global = Rates!Recent(charges.global)
      /\ h.bucket = [charges.bucket EXCEPT ![key] = Rates!Recent(@)] /\ h.responses = charges.responses
  BY RateFacts, PrunedIs
<1>2. charges.bucket \in [Rates!BucketKeys -> SUBSET Rates!Entries] BY RateFacts DEF Charges
<1> HIDE DEF h
<1>3. \A k \in Rates!BucketKeys : h.bucket[k] = IF k = key THEN Rates!Recent(charges.bucket[k]) ELSE charges.bucket[k]
  BY <1>1, <1>2
<1>4. AllFinite(h) BY <1>1, <1>3, RateFacts, RecentFiniteSet DEF AllFinite
<1>5. \A k \in Rates!BucketKeys : Rates!Recent(charges.bucket[k]) \subseteq h.bucket[k]
  BY <1>3, RecentSubset
<1>6. h.generation >= charges.generation BY <1>1, RateFacts
<1>7. QED BY <1>1, <1>4, <1>5, <1>6, RecentSubset DEF Saves, h

\* The windows after the command limits have charged a command, and the entry they charged.
Once(key) == Rates!Charge(Rates!Pruned(charges, key), key)
Ticket == [at |-> now, gen |-> charges.generation + 1]

BucketOnce(once, key, e) ==
  \A k \in Rates!BucketKeys : once.bucket[k] = IF k = key THEN Rates!Recent(charges.bucket[k]) \cup {e}
                                                          ELSE charges.bucket[k]
RepliedTwice(g, s, f) ==
  \A t \in Sessions : g.responses[t] = IF t = s THEN Rates!Recent(charges.responses[t]) \cup {f}
                                                 ELSE charges.responses[t]

LEMMA OnceIs ==
  ASSUME Rates!GovernorAssumption, RateInv, NEW key \in Rates!BucketKeys,
         NEW once, once = Once(key), NEW e, e = Ticket
  PROVE  /\ once \in Charges /\ AllFinite(once) /\ e \in Rates!Entries
         /\ once.generation = charges.generation + 1
         /\ once.global = Rates!Recent(charges.global) \cup {e}
         /\ BucketOnce(once, key, e)
         /\ once.responses = charges.responses
<1> DEFINE h == Rates!Pruned(charges, key)
<1>1. /\ h \in Charges /\ h.generation = charges.generation /\ h.global = Rates!Recent(charges.global)
      /\ h.bucket = [charges.bucket EXCEPT ![key] = Rates!Recent(@)] /\ h.responses = charges.responses
  BY RateFacts, PrunedIs
<1>2. charges.bucket \in [Rates!BucketKeys -> SUBSET Rates!Entries] /\ now \in Nat
  BY RateFacts DEF Charges
<1>3. once = Rates!Charge(h, key) BY DEF Once
<1> HIDE DEF h
<1>4. /\ once \in Charges /\ e \in Rates!Entries /\ once.generation = charges.generation + 1
      /\ once.global = Rates!Recent(charges.global) \cup {e}
      /\ once.bucket = [h.bucket EXCEPT ![key] = @ \cup {e}] /\ once.responses = charges.responses
  BY <1>1, <1>2, <1>3, ChargeIs DEF Ticket
<1>5. h.bucket[key] = Rates!Recent(charges.bucket[key]) /\ h.bucket \in [Rates!BucketKeys -> SUBSET Rates!Entries]
  BY <1>1, <1>2 DEF Charges
<1>6. \A k \in Rates!BucketKeys : once.bucket[k] = IF k = key THEN Rates!Recent(charges.bucket[k]) \cup {e}
                                             ELSE charges.bucket[k]
  <2> TAKE k \in Rates!BucketKeys
  <2>1. CASE k = key  BY <1>4, <1>5, <2>1
  <2>2. CASE k # key
    <3>1. once.bucket[k] = h.bucket[k]  BY <1>4, <1>5, <2>2
    <3>2. h.bucket[k] = charges.bucket[k]  BY <1>1, <1>2, <2>2
    <3> QED  BY <2>2, <3>1, <3>2
  <2> QED  BY <2>1, <2>2
<1>7. AllFinite(once)
  <2>1. IsFiniteSet(once.global)
    <3>1. IsFiniteSet(charges.global) BY RateFacts
    <3>2. IsFiniteSet(Rates!Recent(charges.global)) BY <3>1, RecentFiniteSet
    <3>3. QED BY <1>4, <3>2, FS_AddElement
  <2>2. ASSUME NEW k \in Rates!BucketKeys PROVE IsFiniteSet(once.bucket[k])
    <3>1. IsFiniteSet(charges.bucket[k]) BY RateFacts
    <3>2. IsFiniteSet(Rates!Recent(charges.bucket[k]) \cup {e})
      BY <3>1, RecentFiniteSet, FS_AddElement
    <3>3. QED BY <1>6, <3>1, <3>2
  <2>3. QED BY <1>4, <2>1, <2>2, RateFacts DEF AllFinite
<1>8. QED BY <1>4, <1>6, <1>7 DEF BucketOnce

LEMMA NoneNewer ==
  ASSUME Rates!GovernorAssumption, RateInv
  PROVE  \A e \in Rates!Recent(charges.global) : e.gen <= charges.generation
<1>1. ASSUME NEW e \in Rates!Recent(charges.global) PROVE e.gen <= charges.generation
  <2>1. PICK r \in Rates!Recent(ran) : e = Mark(r) BY DEF RateInv, Covers, InGlobal
  <2>2. r \in ran BY RecentSubset
  <2>3. QED BY <2>1, <2>2 DEF RateInv, Numbered, Mark
<1>2. QED BY <1>1

\* What a refused command was charged is given back, and nothing else with it.
LEMMA RefundSaves ==
  ASSUME Rates!GovernorAssumption, RateInv, NEW key \in Rates!BucketKeys,
         NEW once, once = Once(key),
         NEW g \in Charges, AllFinite(g), g.generation >= charges.generation,
         g.global = once.global, g.bucket = once.bucket,
         \A s \in Sessions : \A x \in Rates!Recent(charges.responses[s]) :
           x.gen <= charges.generation + 1 => x \in g.responses[s]
  PROVE  Saves(Rates!Refund(g, key, charges.generation + 1))
<1> DEFINE n == charges.generation + 1  h == Rates!Refund(g, key, n)
<1>e. PICK e : e = Ticket OBVIOUS
<1>0. charges.generation \in Nat /\ n \in Nat /\ e.gen = n BY <1>e, RateFacts DEF Ticket
<1>1. /\ once.global = Rates!Recent(charges.global) \cup {e}
      /\ \A k \in Rates!BucketKeys : once.bucket[k] = IF k = key THEN Rates!Recent(charges.bucket[k]) \cup {e}
                                                ELSE charges.bucket[k]
  <2>1. once.global = Rates!Recent(charges.global) \cup {e} BY <1>e, OnceIs
  <2>2. \A k \in Rates!BucketKeys : once.bucket[k] = IF k = key THEN Rates!Recent(charges.bucket[k]) \cup {e}
                                                ELSE charges.bucket[k]
    <3>1. BucketOnce(once, key, e) BY <1>e, OnceIs
    <3>2. QED BY <3>1 DEF BucketOnce
  <2>3. QED BY <2>1, <2>2
<1>2. \E x \in g.bucket[key] : x.gen = n BY <1>0, <1>1
<1>3. /\ h \in Charges /\ h.generation = g.generation /\ h.global = Rates!Without(g.global, n)
      /\ h.bucket = [g.bucket EXCEPT ![key] = Rates!Without(@, n)] /\ h.responses = g.responses
  BY <1>0, <1>2, RefundIs
<1> HIDE DEF n, h
<1>4. n = charges.generation + 1 BY DEF n
<1>5. \A k \in Rates!BucketKeys : h.bucket[k] = IF k = key THEN Rates!Without(g.bucket[k], n) ELSE g.bucket[k]
  BY <1>3 DEF Charges
<1>6. \A X : Rates!Without(X, n) \subseteq X BY DEF Rates!Without
<1>7. AllFinite(h)
  <2>1. IsFiniteSet(h.global) BY <1>3, <1>6, FS_Subset DEF AllFinite
  <2>2. ASSUME NEW k \in Rates!BucketKeys PROVE IsFiniteSet(h.bucket[k])
    <3>1. h.bucket[k] \subseteq g.bucket[k] /\ IsFiniteSet(g.bucket[k])
      BY <1>5, <1>6 DEF AllFinite
    <3>2. QED BY <3>1, FS_Subset
  <2>3. QED BY <1>3, <2>1, <2>2 DEF AllFinite
<1>8. Rates!Recent(h.global) = Rates!Recent(charges.global)
  <2>1. \A x \in Rates!Recent(charges.global) : x.gen <= charges.generation /\ x.gen \in Nat
    BY NoneNewer, RateFacts, RecentSubset DEF Rates!Entries
  <2>2. Rates!Without(Rates!Recent(charges.global) \cup {e}, n) = Rates!Recent(charges.global)
    BY <1>0, <1>4, <2>1 DEF Rates!Without
  <2>3. h.global = Rates!Recent(charges.global) BY <1>1, <1>3, <2>2
  <2>4. QED BY <2>3, RecentSubset
<1>9. ASSUME NEW k \in Rates!BucketKeys, NEW x \in Rates!Recent(charges.bucket[k]), x.gen <= charges.generation
      PROVE  x \in h.bucket[k]
  <2>1. x \in g.bucket[k] BY <1>1, RecentSubset
  <2>2. x.gen \in Nat BY RateFacts, RecentSubset DEF Rates!Entries
  <2>3. x.gen # n BY <1>0, <1>4, <1>9, <2>2
  <2>4. QED BY <1>5, <2>1, <2>3 DEF Rates!Without
<1>10. Saves(h) BY <1>3, <1>7, <1>8, <1>9 DEF Saves
<1>11. QED BY <1>10 DEF h, n
-----------------------------------------------------------------------------
\* A response that is charged, and given back.
LEMMA RefundResponseSaves ==
  ASSUME Rates!GovernorAssumption, RateInv, NEW b, Saves(b), NEW s \in Sessions,
         NEW n \in Nat, n > charges.generation + 1
  PROVE  Saves(Rates!RefundResponse(b, s, n))
<1> DEFINE h == Rates!RefundResponse(b, s, n)
<1>0. b \in Charges /\ charges.generation \in Nat BY RateFacts DEF Saves
<1>1. /\ h \in Charges /\ h.generation = b.generation /\ h.global = b.global
      /\ h.bucket = b.bucket /\ h.responses = [b.responses EXCEPT ![s] = Rates!Without(@, n)]
  BY <1>0, RefundResponseIs
<1> HIDE DEF h
<1>2. \A t \in Sessions : h.responses[t] = IF t = s THEN Rates!Without(b.responses[t], n)
                                           ELSE b.responses[t]
  BY <1>0, <1>1 DEF Charges
<1>3. AllFinite(h)
  <2>1. ASSUME NEW t \in Sessions PROVE IsFiniteSet(h.responses[t])
    <3>1. IsFiniteSet(b.responses[t]) BY DEF Saves, AllFinite
    <3>2. h.responses[t] \subseteq b.responses[t] BY <1>2 DEF Rates!Without
    <3>3. QED BY <3>1, <3>2, FS_Subset
  <2>2. QED BY <1>1, <2>1 DEF Saves, AllFinite
<1>4. ASSUME NEW t \in Sessions, NEW x \in Rates!Recent(charges.responses[t]),
             x.gen <= charges.generation + 1
      PROVE  x \in h.responses[t]
  <2>1. x \in b.responses[t] BY <1>4 DEF Saves
  <2>2. x.gen \in Nat BY RateFacts, RecentSubset DEF Rates!Entries
  <2>3. x.gen # n BY <1>0, <1>4, <2>2
  <2>4. QED BY <1>2, <2>1, <2>3 DEF Rates!Without
<1>5. Saves(h) BY <1>1, <1>3, <1>4 DEF Saves
<1>6. QED BY <1>5 DEF h

LEMMA PassedSession ==
  ASSUME NEW c, NEW s \in Sessions \cup {Nobody}, Rates!IsResponse(c, s)
  PROVE  s \in Sessions /\ c = Dialog
BY DEF Rates!IsResponse, Dialog

\* The windows after the response limit has looked at them.
LEMMA ResponsesLooked ==
  ASSUME Rates!GovernorAssumption, RateInv, NEW key \in Rates!BucketKeys, NEW s \in Sessions,
         NEW once, once = Once(key), NEW g, g = Rates!ResponsesPruned(once, s)
  PROVE  /\ g \in Charges /\ AllFinite(g) /\ g.generation = charges.generation + 1
         /\ g.global = once.global /\ g.bucket = once.bucket
         /\ \A t \in Sessions : g.responses[t] = IF t = s THEN Rates!Recent(charges.responses[t])
                                                 ELSE charges.responses[t]
<1>e. PICK e : e = Ticket OBVIOUS
<1>1. once \in Charges /\ AllFinite(once) BY <1>e, OnceIs
<1>2. once.generation = charges.generation + 1 /\ once.responses = charges.responses
  BY <1>e, OnceIs
<1>3. /\ g \in Charges /\ g.generation = once.generation /\ g.global = once.global
      /\ g.bucket = once.bucket /\ g.responses = [once.responses EXCEPT ![s] = Rates!Recent(@)]
  BY <1>1, ResponsesPrunedIs
<1>4. \A t \in Sessions : g.responses[t] = IF t = s THEN Rates!Recent(charges.responses[t])
                                           ELSE charges.responses[t]
  BY <1>2, <1>3, RateFacts DEF Charges
<1>5. ASSUME NEW t \in Sessions PROVE IsFiniteSet(g.responses[t])
  <2>1. IsFiniteSet(charges.responses[t]) BY RateFacts
  <2>2. IsFiniteSet(Rates!Recent(charges.responses[t])) BY <2>1, RecentFiniteSet
  <2>3. QED BY <1>4, <2>1, <2>2
<1>6. AllFinite(g) BY <1>1, <1>3, <1>5 DEF AllFinite
<1>7. QED BY <1>2, <1>3, <1>4, <1>6

\* The windows of a response that is charged twice.
LEMMA TwiceIs ==
  ASSUME Rates!GovernorAssumption, RateInv, NEW key \in Rates!BucketKeys, NEW s \in Sessions,
         NEW once, once = Once(key), NEW g, g = Rates!ChargeResponse(Rates!ResponsesPruned(once, s), s),
         NEW f, f = [at |-> now, gen |-> charges.generation + 2]
  PROVE  /\ g \in Charges /\ AllFinite(g) /\ g.generation = charges.generation + 2
         /\ g.global = once.global /\ g.bucket = once.bucket
         /\ RepliedTwice(g, s, f)
<1> DEFINE h == Rates!ResponsesPruned(once, s)
<1>1. /\ h \in Charges /\ AllFinite(h) /\ h.generation = charges.generation + 1
      /\ h.global = once.global /\ h.bucket = once.bucket
  BY ResponsesLooked
<1>2. \A t \in Sessions : h.responses[t] = IF t = s THEN Rates!Recent(charges.responses[t])
                                           ELSE charges.responses[t]
  BY ResponsesLooked
<1>3. g = Rates!ChargeResponse(h, s) OBVIOUS
<1> HIDE DEF h
<1>4. now \in Nat /\ charges.generation \in Nat BY RateFacts
<1>5. f = [at |-> now, gen |-> h.generation + 1] BY <1>1, <1>4
<1>6. /\ g \in Charges /\ g.generation = h.generation + 1 /\ g.global = h.global
      /\ g.bucket = h.bucket /\ g.responses = [h.responses EXCEPT ![s] = @ \cup {f}]
  BY <1>1, <1>3, <1>4, <1>5, ChargeResponseIs
<1>7. \A t \in Sessions : g.responses[t] = IF t = s THEN h.responses[t] \cup {f} ELSE h.responses[t]
  BY <1>1, <1>6 DEF Charges
<1>8. ASSUME NEW t \in Sessions PROVE IsFiniteSet(g.responses[t])
  <2>1. IsFiniteSet(h.responses[t]) BY <1>1 DEF AllFinite
  <2>2. IsFiniteSet(h.responses[t] \cup {f}) BY <2>1, FS_AddElement
  <2>3. QED BY <1>7, <2>1, <2>2
<1>9. AllFinite(g) BY <1>1, <1>6, <1>8 DEF AllFinite
<1>10. g.generation = charges.generation + 2 BY <1>1, <1>4, <1>6
<1>11. \A t \in Sessions : g.responses[t] = IF t = s THEN Rates!Recent(charges.responses[t]) \cup {f}
                                            ELSE charges.responses[t]
  BY <1>2, <1>7
<1>12. QED BY <1>1, <1>6, <1>9, <1>10, <1>11 DEF RepliedTwice

\* A refusal keeps the invariant, whichever limit refuses.
LEMMA RefusalKeeps ==
  ASSUME Rates!GovernorAssumption, RateInv, NEW c \in SentTypes, NEW s \in Sessions \cup {Nobody},
         \/ Rates!RefusedGlobally(c, s) \/ Rates!RefusedByBucket(c, s)
         \/ Rates!RefusedResponse(c, s) \/ Rates!RefusedBusy(c, s)
  PROVE  RateInv'
<1>k. PICK key \in Rates!BucketKeys : key = Rates!RateLimitTarget(c, s, Nobody) BY TargetIsKey
<1>o. PICK once : once = Once(key) OBVIOUS
<1>e. PICK e : e = Ticket OBVIOUS
<1>0. charges.generation \in Nat /\ now \in Nat /\ charges \in Charges BY RateFacts
<1>1. /\ once \in Charges /\ AllFinite(once) /\ once.generation = charges.generation + 1
      /\ once.responses = charges.responses
  BY <1>e, <1>o, OnceIs
<1>2. CASE Rates!RefusedGlobally(c, s)
  BY <1>2, GlobalPrunedSaves, NothingRunsKeeps DEF Rates!RefusedGlobally
<1>3. CASE Rates!RefusedByBucket(c, s)
  <2>1. charges' = Rates!Pruned(charges, key) /\ Rates!NothingRuns
    BY <1>3, <1>k DEF Rates!RefusedByBucket
  <2>2. Saves(charges') BY <2>1, PrunedSaves
  <2>3. QED BY <2>1, <2>2, NothingRunsKeeps
<1>4. CASE Rates!RefusedResponse(c, s)
  <2>1. s \in Sessions BY <1>4, PassedSession DEF Rates!RefusedResponse, Rates!OverResponses
  <2>2. PICK g : g = Rates!ResponsesPruned(once, s) OBVIOUS
  <2>3. /\ g \in Charges /\ AllFinite(g) /\ g.generation = charges.generation + 1
        /\ g.global = once.global /\ g.bucket = once.bucket
    BY <1>o, <2>1, <2>2, ResponsesLooked
  <2>4. \A t \in Sessions : g.responses[t] = IF t = s THEN Rates!Recent(charges.responses[t])
                                             ELSE charges.responses[t]
    BY <1>o, <2>1, <2>2, ResponsesLooked
  <2>5. charges' = Rates!Refund(g, key, charges.generation + 1) /\ Rates!NothingRuns
    BY <1>4, <1>k, <1>o, <1>1, <2>2 DEF Rates!RefusedResponse, Once
  <2>6. \A t \in Sessions : \A x \in Rates!Recent(charges.responses[t]) : x \in g.responses[t]
    BY <2>4, RecentSubset
  <2>7. g.generation >= charges.generation BY <1>0, <2>3
  <2>8. Saves(Rates!Refund(g, key, charges.generation + 1)) BY <1>o, <2>3, <2>6, <2>7, RefundSaves
  <2>9. QED BY <2>5, <2>8, NothingRunsKeeps
<1>5. CASE Rates!RefusedBusy(c, s)
  <2>1. CASE ~Rates!IsResponse(c, s)
    <3>1. charges' = Rates!Refund(once, key, charges.generation + 1) /\ Rates!NothingRuns
      BY <1>5, <1>k, <1>o, <2>1 DEF Rates!RefusedBusy, Rates!Charged, Once, Rates!Next1
    <3>2. once.generation >= charges.generation BY <1>0, <1>1
    <3>3. \A t \in Sessions : \A x \in Rates!Recent(charges.responses[t]) : x \in once.responses[t]
      BY <1>1, RecentSubset
    <3>4. Saves(Rates!Refund(once, key, charges.generation + 1))
      BY <1>o, <1>1, <3>2, <3>3, RefundSaves
    <3>5. QED BY <3>1, <3>4, NothingRunsKeeps
  <2>2. CASE Rates!IsResponse(c, s)
    <3>1. s \in Sessions BY <2>2, PassedSession
    <3>2. PICK g : g = Rates!ChargeResponse(Rates!ResponsesPruned(once, s), s) OBVIOUS
    <3>3. PICK f : f = [at |-> now, gen |-> charges.generation + 2] OBVIOUS
    <3>4. /\ g \in Charges /\ AllFinite(g) /\ g.generation = charges.generation + 2
          /\ g.global = once.global /\ g.bucket = once.bucket
      BY <1>o, <3>1, <3>2, <3>3, TwiceIs
    <3>5. \A t \in Sessions : g.responses[t] = IF t = s THEN Rates!Recent(charges.responses[t]) \cup {f}
                                               ELSE charges.responses[t]
      <4>1. RepliedTwice(g, s, f) BY <1>o, <3>1, <3>2, <3>3, TwiceIs
      <4>2. QED BY <4>1 DEF RepliedTwice
    <3>6. PICK back : back = Rates!Refund(g, key, charges.generation + 1) OBVIOUS
    <3>7. charges' = Rates!RefundResponse(back, s, charges.generation + 2) /\ Rates!NothingRuns
      <4>1. g = Rates!Charged(c, s) BY <1>k, <1>o, <2>2, <3>2 DEF Rates!Charged, Once
      <4>2. back = Rates!Refund(g, Rates!RateLimitTarget(c, s, Nobody), Rates!Next1(charges))
        BY <1>k, <3>6 DEF Rates!Next1
      <4>3. QED BY <1>5, <2>2, <3>4, <4>1, <4>2 DEF Rates!RefusedBusy
    <3>8. \A t \in Sessions : \A x \in Rates!Recent(charges.responses[t]) : x \in g.responses[t]
      BY <3>5, RecentSubset
    <3>9. g.generation >= charges.generation BY <1>0, <3>4
    <3>10. Saves(back) BY <1>o, <3>4, <3>6, <3>8, <3>9, RefundSaves
    <3>11. charges.generation + 2 \in Nat /\ charges.generation + 2 > charges.generation + 1
      BY <1>0
    <3>12. Saves(Rates!RefundResponse(back, s, charges.generation + 2))
      BY <3>1, <3>10, <3>11, RefundResponseSaves
    <3>13. QED BY <3>7, <3>12, NothingRunsKeeps
  <2>3. QED BY <2>1, <2>2
<1>6. QED BY <1>2, <1>3, <1>4, <1>5

LEMMA CleanupKeeps ==
  ASSUME Rates!GovernorAssumption, RateInv, Rates!CleanupStaleTimestamps
  PROVE  RateInv'
<1> DEFINE h == [charges EXCEPT !.global = Rates!Recent(@), !.bucket = [k \in Rates!BucketKeys |-> Rates!Recent(@[k])],
                                !.responses = [s \in Sessions |-> Rates!Recent(@[s])]]
<1>0. charges' = h /\ Rates!NothingRuns BY DEF Rates!CleanupStaleTimestamps, Rates!NothingRuns
<1>1. charges = [generation |-> charges.generation, bucket |-> charges.bucket,
                 global |-> charges.global, responses |-> charges.responses]
  BY RateFacts DEF Charges
<1>b. PICK b : b = [k \in Rates!BucketKeys |-> Rates!Recent(charges.bucket[k])] OBVIOUS
<1>r. PICK r : r = [s \in Sessions |-> Rates!Recent(charges.responses[s])] OBVIOUS
<1>2. h = [generation |-> charges.generation, bucket |-> b,
           global |-> Rates!Recent(charges.global), responses |-> r]
  <2> DEFINE G == Rates!Recent(charges.global)
  <2>1. h = [charges EXCEPT !.global = G, !.bucket = b, !.responses = r] BY <1>b, <1>r
  <2> HIDE DEF h, G
  <2>2. h = [generation |-> charges.generation, bucket |-> b, global |-> G, responses |-> r]
    BY <1>1, <2>1
  <2>3. QED BY <2>2 DEF G
<1> HIDE DEF h
<1>3. /\ b \in [Rates!BucketKeys -> SUBSET Rates!Entries] /\ r \in [Sessions -> SUBSET Rates!Entries]
      /\ Rates!Recent(charges.global) \in SUBSET Rates!Entries
  BY <1>b, <1>r, RateFacts, RecentTyped
<1>4. h \in Charges BY <1>2, <1>3, RateFacts DEF Charges
<1>5. AllFinite(h)
  <2>1. IsFiniteSet(h.global) BY <1>2, RateFacts, RecentSubset, FS_Subset
  <2>2. ASSUME NEW k \in Rates!BucketKeys PROVE IsFiniteSet(h.bucket[k])
    <3>1. IsFiniteSet(charges.bucket[k]) BY RateFacts
    <3>2. QED BY <1>2, <1>b, <1>r, <3>1, RecentFiniteSet
  <2>3. ASSUME NEW s \in Sessions PROVE IsFiniteSet(h.responses[s])
    <3>1. IsFiniteSet(charges.responses[s]) BY RateFacts
    <3>2. QED BY <1>2, <1>b, <1>r, <3>1, RecentFiniteSet
  <2>4. QED BY <2>1, <2>2, <2>3 DEF AllFinite
<1>6. Saves(h) BY <1>2, <1>b, <1>r, <1>4, <1>5, RateFacts, RecentSubset DEF Saves
<1>7. QED BY <1>0, <1>6, NothingRunsKeeps
-----------------------------------------------------------------------------
(***************************************************************************)
(* Counting: what ran is counted by the marks it left, one each.           *)
(***************************************************************************)
LEMMA MarksCount ==
  ASSUME Rates!GovernorAssumption, RateInv, NEW S \in SUBSET ran, NEW T, IsFiniteSet(T),
         \A r \in S : Mark(r) \in T
  PROVE  Cardinality(S) <= Cardinality(T)
<1> DEFINE f == [r \in S |-> Mark(r)]
<1>1. \A r, q \in S : Mark(r) = Mark(q) => r = q BY DEF Mark, RateInv, Numbered
<1>2. f \in Injection(S, T) BY <1>1 DEF Injection, IsInjective
<1>3. QED BY <1>2, FS_Injection

LEMMA ReplyMarksCount ==
  ASSUME Rates!GovernorAssumption, RateInv, NEW S \in SUBSET ran, NEW T, IsFiniteSet(T),
         \A r \in S : ReplyMark(r) \in T
  PROVE  Cardinality(S) <= Cardinality(T)
<1> DEFINE f == [r \in S |-> ReplyMark(r)]
<1>1. \A r \in S : r.gen \in Nat BY RateFacts DEF Runs
<1>2. \A r, q \in S : ReplyMark(r) = ReplyMark(q) => r = q
  BY <1>1 DEF ReplyMark, RateInv, Numbered
<1>3. f \in Injection(S, T) BY <1>2 DEF Injection, IsInjective
<1>4. QED BY <1>3, FS_Injection

LEMMA GainsOne ==
  ASSUME NEW S, IsFiniteSet(S), NEW r, NEW T \in SUBSET (S \cup {r}), NEW n \in Nat,
         Cardinality(S) < n
  PROVE  Cardinality(T) <= n
<1>1. /\ IsFiniteSet(S \cup {r})
      /\ Cardinality(S \cup {r}) = IF r \in S THEN Cardinality(S) ELSE Cardinality(S) + 1
  BY FS_AddElement
<1>2. Cardinality(S) \in Nat /\ Cardinality(T) \in Nat BY <1>1, FS_Subset, FS_CardinalityType
<1>3. Cardinality(T) <= Cardinality(S \cup {r}) BY <1>1, FS_Subset
<1>4. QED BY <1>1, <1>2, <1>3

LEMMA SmallerCount ==
  ASSUME NEW S, IsFiniteSet(S), NEW T \in SUBSET S, NEW n \in Nat, Cardinality(S) <= n
  PROVE  Cardinality(T) <= n
<1>1. Cardinality(T) <= Cardinality(S) /\ IsFiniteSet(T) BY FS_Subset
<1>2. Cardinality(S) \in Nat /\ Cardinality(T) \in Nat BY <1>1, FS_CardinalityType
<1>3. QED BY <1>1, <1>2

\* The room the limits found, among the commands that ran.
LEMMA RoomAmongRan ==
  ASSUME Rates!GovernorAssumption, RateInv, NEW c \in SentTypes, NEW s \in Sessions \cup {Nobody},
         Rates!Passes(c, s)
  PROVE  /\ Cardinality(Rates!Recent(ran)) < MaxGlobal
         /\ \A t \in live : Rates!RateLimitTarget(c, s, Nobody) = <<"data", t>> =>
              /\ Cardinality(Since(ran, t)) < MaxCommands
              /\ c = Dialog =>
                   Cardinality({r \in Since(ran, t) : r.type = Dialog}) < MaxResponses
<1>0. /\ MaxGlobal \in Nat /\ MaxCommands \in Nat /\ MaxResponses \in Nat
      /\ ran \subseteq Runs /\ now \in Nat /\ RateWindow \in Nat
  BY RateFacts, RateConstants
<1>1. ASSUME NEW S, NEW T, IsFiniteSet(S), IsFiniteSet(T), NEW n \in Nat,
             Cardinality(S) <= Cardinality(T), Cardinality(T) < n
      PROVE  Cardinality(S) < n
  <2>1. Cardinality(S) \in Nat /\ Cardinality(T) \in Nat BY <1>1, FS_CardinalityType
  <2>2. QED BY <1>1, <2>1
<1>2. Rates!Recent(ran) \subseteq ran /\ IsFiniteSet(Rates!Recent(ran))
  BY RateFacts, RecentSubset, RecentFiniteSet
<1>3. Cardinality(Rates!Recent(ran)) < MaxGlobal
  <2>1. IsFiniteSet(Rates!Recent(charges.global)) BY RateFacts, RecentFiniteSet
  <2>2. Cardinality(Rates!Recent(charges.global)) < MaxGlobal
    BY FiniteRates DEF Rates!Passes, Rates!OverGlobal, Rates!HasRoom
  <2>3. \A r \in Rates!Recent(ran) : Mark(r) \in Rates!Recent(charges.global)
    BY DEF RateInv, Covers, InGlobal
  <2>4. Cardinality(Rates!Recent(ran)) <= Cardinality(Rates!Recent(charges.global))
    BY <1>2, <2>1, <2>3, MarksCount
  <2>5. QED BY <1>0, <1>1, <1>2, <2>1, <2>2, <2>4
<1>4. ASSUME NEW t \in live, Rates!RateLimitTarget(c, s, Nobody) = <<"data", t>>
      PROVE  /\ Cardinality(Since(ran, t)) < MaxCommands
             /\ c = Dialog =>
                  Cardinality({r \in Since(ran, t) : r.type = Dialog}) < MaxResponses
  <2>0. t \in Sessions /\ <<"data", t>> \in Rates!BucketKeys BY RateFacts, KeyOfSession
  <2>1. Since(ran, t) \subseteq Rates!Recent(ran) /\ IsFiniteSet(Since(ran, t))
    BY <1>2, FS_Subset DEF Since
  <2>2. Cardinality(Since(ran, t)) < MaxCommands
    <3> DEFINE T == Rates!Recent(charges.bucket[<<"data", t>>])
    <3>1. IsFiniteSet(charges.bucket[<<"data", t>>]) BY <2>0, RateFacts
    <3>2. IsFiniteSet(T) BY <3>1, RecentFiniteSet
    <3>3. Cardinality(T) < MaxCommands
      BY <1>4, FiniteRates DEF Rates!Passes, Rates!OverBucket, Rates!HasRoom
    <3>4. ASSUME NEW r \in Since(ran, t) PROVE Mark(r) \in T
      <4>1. Mark(r) \in charges.bucket[<<"data", t>>] BY DEF RateInv, Covers, InBuckets
      <4>2. r.at > now - RateWindow BY <2>1 DEF Rates!Recent
      <4>3. QED BY <4>1, <4>2 DEF Rates!Recent, Mark
    <3> HIDE DEF T
    <3>5. Cardinality(Since(ran, t)) <= Cardinality(T)
      BY <1>2, <2>1, <3>2, <3>4, MarksCount
    <3>6. QED BY <1>0, <1>1, <2>1, <3>2, <3>3, <3>5
  <2>3. ASSUME c = Dialog
        PROVE  Cardinality({r \in Since(ran, t) : r.type = Dialog}) < MaxResponses
    <3> DEFINE T == Rates!Recent(charges.responses[t])  S == {r \in Since(ran, t) : r.type = Dialog}
    <3>1. IsFiniteSet(charges.responses[t]) BY <2>0, RateFacts
    <3>2. IsFiniteSet(T) BY <3>1, RecentFiniteSet
    <3>3. Rates!IsResponse(c, s)
      <4>1. s = t BY <1>4, TargetIsKey
      <4>2. QED BY <2>0, <2>3, <4>1, RateConstants DEF Rates!IsResponse, Dialog
    <3>4. s = t BY <1>4, TargetIsKey
    <3>5. Cardinality(T) < MaxResponses
      BY <3>3, <3>4, FiniteRates DEF Rates!Passes, Rates!OverResponses, Rates!HasRoom
    <3>6. ASSUME NEW r \in S PROVE ReplyMark(r) \in T
      <4>1. ReplyMark(r) \in charges.responses[t] BY DEF RateInv, Covers, InResponses
      <4>2. r.at > now - RateWindow BY <2>1 DEF Rates!Recent
      <4>3. QED BY <4>1, <4>2 DEF Rates!Recent, ReplyMark
    <3>7. S \subseteq ran /\ IsFiniteSet(S) BY <1>2, <2>1, FS_Subset
    <3> HIDE DEF T, S
    <3>8. Cardinality(S) <= Cardinality(T) BY <3>2, <3>6, <3>7, ReplyMarksCount
    <3>9. Cardinality(S) < MaxResponses BY <1>0, <1>1, <3>2, <3>5, <3>7, <3>8
    <3>10. QED BY <3>9 DEF S
  <2>4. QED BY <2>2, <2>3
<1>5. QED BY <1>3, <1>4
-----------------------------------------------------------------------------
\* The windows a command that is admitted leaves.
LEMMA ChargedIs ==
  ASSUME Rates!GovernorAssumption, RateInv, NEW c \in SentTypes, NEW s \in Sessions \cup {Nobody},
         NEW key \in Rates!BucketKeys, key = Rates!RateLimitTarget(c, s, Nobody),
         NEW e, e = Ticket, NEW f, f = [at |-> now, gen |-> charges.generation + 2],
         NEW g, g = Rates!Charged(c, s)
  PROVE  /\ g \in Charges /\ AllFinite(g) /\ g.generation > charges.generation
         /\ g.global = Rates!Recent(charges.global) \cup {e}
         /\ \A k \in Rates!BucketKeys : Rates!Recent(charges.bucket[k]) \subseteq g.bucket[k]
         /\ e \in g.bucket[key]
         /\ \A t \in Sessions : Rates!Recent(charges.responses[t]) \subseteq g.responses[t]
         /\ Rates!IsResponse(c, s) => f \in g.responses[s]
<1>o. PICK once : once = Once(key) OBVIOUS
<1>0. charges.generation \in Nat BY RateFacts
<1>1. /\ once \in Charges /\ AllFinite(once) /\ once.generation = charges.generation + 1
      /\ once.responses = charges.responses /\ once.global = Rates!Recent(charges.global) \cup {e}
  BY <1>o, OnceIs
<1>2. \A k \in Rates!BucketKeys : once.bucket[k] = IF k = key THEN Rates!Recent(charges.bucket[k]) \cup {e}
                                             ELSE charges.bucket[k]
  <2>1. BucketOnce(once, key, e) BY <1>o, OnceIs
  <2>2. QED BY <2>1 DEF BucketOnce
<1>3. (\A k \in Rates!BucketKeys : Rates!Recent(charges.bucket[k]) \subseteq once.bucket[k]) /\ e \in once.bucket[key]
  BY <1>2, RecentSubset
<1>4. CASE ~Rates!IsResponse(c, s)
  <2>1. g = once BY <1>o, <1>4 DEF Rates!Charged, Once
  <2>2. \A t \in Sessions : Rates!Recent(charges.responses[t]) \subseteq g.responses[t]
    BY <1>1, <2>1, RecentSubset
  <2>3. QED BY <1>0, <1>1, <1>3, <1>4, <2>1, <2>2
<1>5. CASE Rates!IsResponse(c, s)
  <2>1. s \in Sessions BY <1>5, PassedSession
  <2>2. g = Rates!ChargeResponse(Rates!ResponsesPruned(once, s), s)
    BY <1>o, <1>5 DEF Rates!Charged, Once
  <2>3. /\ g \in Charges /\ AllFinite(g) /\ g.generation = charges.generation + 2
        /\ g.global = once.global /\ g.bucket = once.bucket
    BY <1>o, <2>1, <2>2, TwiceIs
  <2>4. \A t \in Sessions : g.responses[t] = IF t = s THEN Rates!Recent(charges.responses[t]) \cup {f}
                                             ELSE charges.responses[t]
    <3>1. RepliedTwice(g, s, f) BY <1>o, <2>1, <2>2, TwiceIs
    <3>2. QED BY <3>1 DEF RepliedTwice
  <2>5. \A t \in Sessions : Rates!Recent(charges.responses[t]) \subseteq g.responses[t]
    BY <2>4, RecentSubset
  <2>6. f \in g.responses[s] BY <2>1, <2>4
  <2>7. QED BY <1>0, <1>1, <1>3, <2>3, <2>5, <2>6
<1>6. QED BY <1>4, <1>5
LEMMA AdmittedKeeps ==
  ASSUME Rates!GovernorAssumption, RateInv, NEW c \in SentTypes, NEW s \in Sessions \cup {Nobody},
         Rates!Admitted(c, s)
  PROVE  RateInv'
<1>k. PICK key \in Rates!BucketKeys : key = Rates!RateLimitTarget(c, s, Nobody) BY TargetIsKey
<1>e. PICK e : e = Ticket OBVIOUS
<1>f. PICK f : f = [at |-> now, gen |-> charges.generation + 2] OBVIOUS
<1>r. PICK r : r = [at |-> now, gen |-> charges.generation + 1, key |-> key, type |-> c] OBVIOUS
<1>0. /\ charges.generation \in Nat /\ now \in Nat /\ RateWindow \in Nat /\ RateWindow > 0
      /\ live \subseteq Sessions /\ ran \subseteq Runs /\ IsFiniteSet(ran)
      /\ MaxGlobal \in Nat /\ MaxCommands \in Nat /\ MaxResponses \in Nat
  BY RateFacts, RateConstants
<1>1. now' = now /\ live' = live /\ born' = born /\ ran' = ran \cup {r}
  BY <1>k, <1>r DEF Rates!Admitted, Rates!Next1
<1>2. /\ charges' \in Charges /\ AllFinite(charges') /\ charges'.generation > charges.generation
      /\ charges'.global = Rates!Recent(charges.global) \cup {e}
  BY <1>k, <1>e, <1>f, ChargedIs DEF Rates!Admitted
<1>3. /\ \A k \in Rates!BucketKeys : Rates!Recent(charges.bucket[k]) \subseteq charges'.bucket[k]
      /\ e \in charges'.bucket[key]
  BY <1>k, <1>e, <1>f, ChargedIs DEF Rates!Admitted
<1>4. /\ \A t \in Sessions : Rates!Recent(charges.responses[t]) \subseteq charges'.responses[t]
      /\ Rates!IsResponse(c, s) => f \in charges'.responses[s]
  BY <1>k, <1>e, <1>f, ChargedIs DEF Rates!Admitted
<1>5. r \in Runs BY <1>0, <1>r DEF Runs
<1>6. /\ Mark(r) = e /\ ReplyMark(r) = f BY <1>0, <1>e, <1>f, <1>r DEF Mark, ReplyMark, Ticket
<1>7. createdAt' = createdAt
  <2>1. CASE s \in live /\ Rates!Plane(c) = "data"
    <3>1. createdAt \in [Sessions -> Nat \cup {Rates!Never}] /\ s \in Sessions
      BY <1>0, <2>1 DEF RateInv, RateTyped
    <3>2. createdAt[s] = born[s].at /\ born[s].at \in 0 .. now
      BY <1>0, <2>1 DEF RateInv, Ages
    <3>3. createdAt[s] # Rates!Never BY <1>0, <3>2 DEF Rates!Never
    <3>4. createdAt' = [createdAt EXCEPT ![s] = createdAt[s]]
      BY <2>1, <3>1, <3>3 DEF Rates!Admitted, Rates!Heartbeat, Rates!KeepsFirst
    <3>5. QED BY <3>1, <3>4
  <2>2. QED BY <2>1 DEF Rates!Admitted
<1>8. RateTyped'
  <2>1. IsFiniteSet(ran \cup {r}) BY <1>0, FS_AddElement
  <2>2. QED BY <1>0, <1>1, <1>2, <1>5, <1>7, <2>1 DEF RateInv, RateTyped, AllFinite
<1>9. \A q \in ran : q.gen \in Nat /\ q.gen <= charges.generation
  BY <1>0 DEF RateInv, Numbered, Runs
<1>10. Numbered'
  <2>1. charges'.generation \in Nat /\ charges'.generation >= charges.generation + 1
    BY <1>0, <1>2 DEF Charges
  <2>2. r.gen = charges.generation + 1 BY <1>r
  <2>3. QED BY <1>0, <1>1, <1>9, <2>1, <2>2 DEF RateInv, Numbered
<1>11. \A X : Rates!Recent(X)' = Rates!Recent(X) BY <1>1, SameNowSameRecent
<1>12. Rates!Recent(ran)' = Rates!Recent(ran) \cup {r}
  <2>1. r.at > now - RateWindow BY <1>0, <1>r
  <2>2. QED BY <1>1, <2>1 DEF Rates!Recent
<1>13. \A t : Since(ran, t)' = Since(ran, t) \cup {q \in {r} : q.key = <<"data", t>> /\ q.gen > born[t].gen}
  BY <1>1, <1>12 DEF Since
<1>14. InGlobal(charges.global, ran)'
  <2>1. e.at > now - RateWindow BY <1>0, <1>e DEF Ticket
  <2>2. Rates!Recent(charges.global)' = Rates!Recent(charges.global) \cup {e}
    BY <1>1, <1>2, <2>1 DEF Rates!Recent
  <2>3. Rates!Recent(charges.global) = {Mark(q) : q \in Rates!Recent(ran)}
    BY DEF RateInv, Covers, InGlobal
  <2>4. Rates!Recent(charges.global)' \subseteq {Mark(q) : q \in Rates!Recent(ran)'}
    BY <1>6, <1>12, <2>2, <2>3
  <2>5. {Mark(q) : q \in Rates!Recent(ran)'} \subseteq Rates!Recent(charges.global)'
    BY <1>6, <1>12, <2>2, <2>3
  <2>6. QED BY <2>4, <2>5 DEF InGlobal, Mark
<1>15. InBuckets(charges.bucket, ran)'
  <2>1. ASSUME NEW t \in live, NEW q \in Since(ran, t)'
        PROVE  Mark(q) \in charges'.bucket[<<"data", t>>]
    <3>0. <<"data", t>> \in Rates!BucketKeys BY <1>0, KeyOfSession
    <3>1. CASE q = r
      <4>1. key = <<"data", t>> BY <1>1, <1>r, <3>1 DEF Since
      <4>2. QED BY <1>3, <1>6, <3>1, <4>1
    <3>2. CASE q # r
      <4>1. q \in Since(ran, t) BY <1>13, <3>2
      <4>2. Mark(q) \in charges.bucket[<<"data", t>>] BY <4>1 DEF RateInv, Covers, InBuckets
      <4>3. q.at > now - RateWindow BY <4>1 DEF Since, Rates!Recent
      <4>4. Mark(q) \in Rates!Recent(charges.bucket[<<"data", t>>])
        BY <4>2, <4>3 DEF Rates!Recent, Mark
      <4>5. QED BY <1>3, <3>0, <4>4
    <3>3. QED BY <3>1, <3>2
  <2>2. QED BY <1>1, <2>1 DEF InBuckets, Mark
<1>16. InResponses(charges.responses, ran)'
  <2>1. ASSUME NEW t \in live, NEW q \in Since(ran, t)', q.type = Dialog
        PROVE  ReplyMark(q) \in charges'.responses[t]
    <3>0. t \in Sessions BY <1>0
    <3>1. CASE q = r
      <4>1. key = <<"data", t>> /\ c = Dialog BY <1>1, <1>r, <2>1, <3>1 DEF Since
      <4>2. s = t
        <5>1. Rates!RateLimitTarget(c, s, Nobody) = <<"data", t>> BY <1>k, <4>1
        <5>2. QED BY <5>1, TargetIsKey
      <4>3. Rates!IsResponse(c, s) BY <3>0, <4>1, <4>2, RateConstants DEF Rates!IsResponse, Dialog
      <4>4. QED BY <1>4, <1>6, <3>1, <4>2, <4>3
    <3>2. CASE q # r
      <4>1. q \in Since(ran, t) BY <1>13, <3>2
      <4>2. ReplyMark(q) \in charges.responses[t]
        BY <2>1, <4>1 DEF RateInv, Covers, InResponses
      <4>3. q.at > now - RateWindow BY <4>1 DEF Since, Rates!Recent
      <4>4. ReplyMark(q) \in Rates!Recent(charges.responses[t])
        BY <4>2, <4>3 DEF Rates!Recent, ReplyMark
      <4>5. QED BY <1>4, <3>0, <4>4
    <3>3. QED BY <3>1, <3>2
  <2>2. QED BY <1>1, <2>1 DEF InResponses, ReplyMark
<1>17. Ages' BY <1>1, <1>7 DEF RateInv, Ages
<1>18. Rates!Passes(c, s) BY DEF Rates!Admitted
<1>19. IsFiniteSet(Rates!Recent(ran)) BY <1>0, RecentFiniteSet
<1>20. Rates!GlobalLimit'
  <2>1. Cardinality(Rates!Recent(ran)) < MaxGlobal BY <1>18, RoomAmongRan
  <2>2. Cardinality(Rates!Recent(ran)') <= MaxGlobal BY <1>0, <1>12, <1>19, <2>1, GainsOne
  <2>3. QED BY <2>2, FiniteRates DEF Rates!GlobalLimit
<1>21. Rates!SessionLimits'
  <2>0. \A t : Rates!RanSince(t) = Since(ran, t) /\ Rates!RanSince(t)' = Since(ran, t)'
    BY DEF Rates!RanSince, Since
  <2>1. ASSUME NEW t \in live
        PROVE  /\ Cardinality(Since(ran, t)') <= MaxCommands
               /\ Cardinality({q \in Since(ran, t)' : q.type = Dialog}) <= MaxResponses
    <3> DEFINE S == Since(ran, t)  S1 == Since(ran, t)'
               D == {q \in S : q.type = Dialog}  D1 == {q \in S1 : q.type = Dialog}
    <3>1. IsFiniteSet(S) BY <1>19, FS_Subset DEF Since
    <3>2. IsFiniteSet(D) BY <3>1, FS_Subset
    <3>3. S1 \subseteq S \cup {r} BY <1>13
    <3>4. r \notin S1 => S1 \subseteq S BY <3>3
    <3>5. r \in S1 => key = <<"data", t>> BY <1>1, <1>r DEF Since
    <3>6. Cardinality(S) <= MaxCommands /\ Cardinality(D) <= MaxResponses
      BY <2>0, FiniteRates DEF RateInv, Rates!SessionLimits, Dialog
    <3>7. key = <<"data", t>> => /\ Cardinality(S) < MaxCommands
                                 /\ c = Dialog => Cardinality(D) < MaxResponses
      BY <1>k, <1>18, RoomAmongRan
    <3>8. D1 \subseteq D \cup {r} /\ (r.type # Dialog => D1 \subseteq D) /\ (r \notin S1 => D1 \subseteq D)
      BY <3>3
    <3>9. r.type = c BY <1>r
    <3> HIDE DEF S, S1, D, D1
    <3>10. CASE r \notin S1 BY <1>0, <3>1, <3>2, <3>4, <3>6, <3>8, <3>10, SmallerCount DEF S1, D1
    <3>11. CASE r \in S1
      <4>1. Cardinality(S1) <= MaxCommands BY <1>0, <3>1, <3>3, <3>5, <3>7, <3>11, GainsOne
      <4>2. CASE c = Dialog
        <5>1. Cardinality(D1) <= MaxResponses
          BY <1>0, <3>2, <3>5, <3>7, <3>8, <3>11, <4>2, GainsOne
        <5>2. QED BY <4>1, <5>1 DEF S1, D1
      <4>3. CASE c # Dialog
        <5>1. D1 \subseteq D BY <3>8, <3>9, <4>3
        <5>2. Cardinality(D1) <= MaxResponses BY <1>0, <3>2, <3>6, <5>1, SmallerCount
        <5>3. QED BY <4>1, <5>2 DEF S1, D1
      <4>4. QED BY <4>2, <4>3
    <3>12. QED BY <3>10, <3>11
  <2>2. QED BY <1>1, <2>0, <2>1, FiniteRates DEF Rates!SessionLimits, Dialog
<1>22. QED BY <1>8, <1>10, <1>14, <1>15, <1>16, <1>17, <1>20, <1>21 DEF RateInv, Covers
-----------------------------------------------------------------------------
\* The sessions that go away, and the windows that go with them: those of the others stay.
LEMMA StaleKeeps ==
  ASSUME Rates!GovernorAssumption, RateInv, NEW ids \in SUBSET live,
         charges' = Rates!Stale(charges, ids), Rates!Forgotten(ids), live' = ids,
         now' = now, ran' = ran, born' \in [Sessions -> [at : Int, gen : Nat]],
         \A s \in ids : born'[s] = born[s]
  PROVE  RateInv'
<1>0. ids \subseteq Sessions /\ charges.generation \in Nat /\ charges \in Charges BY RateFacts
<1>1. charges = [generation |-> charges.generation, bucket |-> charges.bucket,
                 global |-> charges.global, responses |-> charges.responses]
  BY <1>0 DEF Charges
<1>b. PICK b : b = [k \in Rates!BucketKeys |-> IF k[1] = "data" /\ k[2] \in ids THEN charges.bucket[k] ELSE {}]
  OBVIOUS
<1>r. PICK r : r = [s \in Sessions |-> IF s \in ids THEN charges.responses[s] ELSE {}] OBVIOUS
<1>2. charges' = [generation |-> charges.generation, bucket |-> b, global |-> charges.global,
                  responses |-> r]
  <2>1. charges' = [charges EXCEPT !.bucket = b, !.responses = r] BY <1>b, <1>r DEF Rates!Stale
  <2>2. QED BY <1>1, <2>1
<1>3. /\ charges'.generation = charges.generation /\ charges'.global = charges.global
      /\ \A s \in ids : /\ charges'.bucket[<<"data", s>>] = charges.bucket[<<"data", s>>]
                        /\ charges'.responses[s] = charges.responses[s]
  <2>1. charges'.generation = charges.generation /\ charges'.global = charges.global
    BY <1>2
  <2>2. ASSUME NEW s \in ids
        PROVE  /\ charges'.bucket[<<"data", s>>] = charges.bucket[<<"data", s>>]
               /\ charges'.responses[s] = charges.responses[s]
    <3>1. <<"data", s>> \in Rates!BucketKeys /\ s \in Sessions BY <1>0, KeyOfSession
    <3>2. b[<<"data", s>>] = charges.bucket[<<"data", s>>] BY <1>b, <3>1
    <3>3. r[s] = charges.responses[s] BY <1>r, <3>1
    <3>4. QED BY <1>2, <3>2, <3>3
  <2>3. QED BY <2>1, <2>2
<1>4. charges' \in Charges
  <2>1. b \in [Rates!BucketKeys -> SUBSET Rates!Entries] BY <1>0, <1>b DEF Charges
  <2>2. r \in [Sessions -> SUBSET Rates!Entries] BY <1>0, <1>r DEF Charges
  <2>3. QED BY <1>0, <1>2, <2>1, <2>2 DEF Charges
<1>5. AllFinite(charges')
  <2>0. IsFiniteSet({}) BY FS_EmptySet
  <2>1. ASSUME NEW k \in Rates!BucketKeys PROVE IsFiniteSet(charges'.bucket[k])
    <3>1. charges'.bucket[k] = charges.bucket[k] \/ charges'.bucket[k] = {} BY <1>2, <1>b
    <3>2. QED BY <2>0, <3>1, RateFacts
  <2>2. ASSUME NEW s \in Sessions PROVE IsFiniteSet(charges'.responses[s])
    <3>1. charges'.responses[s] = charges.responses[s] \/ charges'.responses[s] = {}
      BY <1>2, <1>r
    <3>2. QED BY <2>0, <3>1, RateFacts
  <2>3. QED BY <1>3, <2>1, <2>2, RateFacts DEF AllFinite
<1>6. createdAt' = [s \in Sessions |-> IF s \in ids THEN createdAt[s] ELSE Rates!Never]
  BY DEF Rates!Forgotten
<1>7. RateTyped'
  <2>1. createdAt' \in [Sessions -> Nat \cup {Rates!Never}] BY <1>6 DEF RateInv, RateTyped
  <2>2. QED BY <1>0, <1>4, <1>5, <2>1 DEF RateInv, RateTyped, AllFinite
<1>8. Numbered' BY <1>3 DEF RateInv, Numbered
<1>9. Rates!Recent(ran)' = Rates!Recent(ran) /\ Rates!Recent(charges.global)' = Rates!Recent(charges.global)
  BY <1>3 DEF Rates!Recent
<1>10. \A s \in ids : Since(ran, s)' = Since(ran, s) BY <1>9 DEF Since
<1>11. Covers(charges, ran)'
  <2>1. InGlobal(charges.global, ran)' BY <1>9 DEF RateInv, Covers, InGlobal, Mark
  <2>2. InBuckets(charges.bucket, ran)' BY <1>3, <1>10 DEF RateInv, Covers, InBuckets, Mark
  <2>3. InResponses(charges.responses, ran)'
    BY <1>3, <1>10 DEF RateInv, Covers, InResponses, ReplyMark
  <2>4. QED BY <2>1, <2>2, <2>3 DEF Covers
<1>12. Ages' BY <1>0, <1>6 DEF RateInv, Ages
<1>13. Rates!GlobalLimit' BY <1>9, FiniteRates DEF RateInv, Rates!GlobalLimit
<1>14. Rates!SessionLimits'
  <2>1. \A s \in ids : Rates!RanSince(s)' = Rates!RanSince(s) BY <1>9 DEF Rates!RanSince
  <2>2. QED BY <2>1, FiniteRates DEF RateInv, Rates!SessionLimits
<1>15. QED BY <1>7, <1>8, <1>11, <1>12, <1>13, <1>14 DEF RateInv

LEMMA CreateKeeps ==
  ASSUME Rates!GovernorAssumption, RateInv, NEW s \in Sessions, Rates!CreateSession(s)
  PROVE  RateInv'
<1>0. /\ s \notin live /\ live' = live \cup {s} /\ now' = now /\ charges' = charges /\ ran' = ran
      /\ born' = [born EXCEPT ![s] = [at |-> now, gen |-> charges.generation]]
  BY DEF Rates!CreateSession
<1>1. charges.generation \in Nat /\ now \in Nat /\ live \subseteq Sessions /\ ran \subseteq Runs
  BY RateFacts
<1>2. createdAt \in [Sessions -> Nat \cup {Rates!Never}] /\ born \in [Sessions -> [at : Int, gen : Nat]]
  BY DEF RateInv, RateTyped
<1>3. createdAt[s] = Rates!Never BY <1>0 DEF RateInv, Ages
<1>4. createdAt' = [createdAt EXCEPT ![s] = now] BY <1>3 DEF Rates!CreateSession, Rates!Heartbeat
<1>5. \A t \in Sessions : born'[t] = IF t = s THEN [at |-> now, gen |-> charges.generation]
                                     ELSE born[t]
  BY <1>0, <1>2
<1>6. RateTyped'
  <2>1. born' \in [Sessions -> [at : Int, gen : Nat]] BY <1>0, <1>1, <1>2
  <2>2. createdAt' \in [Sessions -> Nat \cup {Rates!Never}] BY <1>1, <1>2, <1>4
  <2>3. QED BY <1>0, <1>1, <2>1, <2>2 DEF RateInv, RateTyped, AllFinite
<1>7. Numbered' BY <1>0 DEF RateInv, Numbered
<1>8. Rates!Recent(ran)' = Rates!Recent(ran) /\ Rates!Recent(charges.global)' = Rates!Recent(charges.global)
  BY <1>0 DEF Rates!Recent
<1>9. \A t \in live : Since(ran, t)' = Since(ran, t) BY <1>0, <1>1, <1>5, <1>8 DEF Since
<1>10. Since(ran, s)' = {}
  <2>1. born'[s].gen = charges.generation BY <1>5
  <2>2. \A r \in Rates!Recent(ran) : r.gen \in Nat /\ r.gen <= charges.generation
    BY <1>1, RecentSubset DEF RateInv, Numbered, Runs
  <2>3. QED BY <1>1, <1>8, <2>1, <2>2 DEF Since
<1>11. Covers(charges, ran)'
  <2>1. InGlobal(charges.global, ran)' BY <1>8 DEF RateInv, Covers, InGlobal, Mark
  <2>2. InBuckets(charges.bucket, ran)'
    BY <1>0, <1>9, <1>10 DEF RateInv, Covers, InBuckets, Mark
  <2>3. InResponses(charges.responses, ran)'
    BY <1>0, <1>9, <1>10 DEF RateInv, Covers, InResponses, ReplyMark
  <2>4. QED BY <2>1, <2>2, <2>3 DEF Covers
<1>12. Ages'
  <2>1. \A t \in live' : born'[t].at \in 0 .. now' BY <1>0, <1>1, <1>5 DEF RateInv, Ages
  <2>2. \A t \in Sessions : createdAt'[t] = IF t \in live' THEN born'[t].at ELSE Rates!Never
    BY <1>0, <1>1, <1>2, <1>4, <1>5 DEF RateInv, Ages
  <2>3. QED BY <2>1, <2>2 DEF Ages
<1>13. Rates!GlobalLimit' BY <1>8, FiniteRates DEF RateInv, Rates!GlobalLimit
<1>14. Rates!SessionLimits'
  <2>0. \A t : Rates!RanSince(t) = Since(ran, t) /\ Rates!RanSince(t)' = Since(ran, t)'
    BY DEF Rates!RanSince, Since
  <2>1. \A t \in live : /\ Cardinality(Since(ran, t)) <= MaxCommands
                        /\ Cardinality({r \in Since(ran, t) : r.type = Dialog}) <= MaxResponses
    BY <2>0, FiniteRates DEF RateInv, Rates!SessionLimits, Dialog
  <2>2. Cardinality({}) = 0 /\ {r \in {} : r.type = Dialog} = {} BY FS_EmptySet
  <2>3. \A t \in live' : /\ Cardinality(Since(ran, t)') <= MaxCommands
                         /\ Cardinality({r \in Since(ran, t)' : r.type = Dialog}) <= MaxResponses
    <3>1. ASSUME NEW t \in live'
          PROVE  /\ Cardinality(Since(ran, t)') <= MaxCommands
                 /\ Cardinality({r \in Since(ran, t)' : r.type = Dialog}) <= MaxResponses
      <4>1. CASE t = s
        <5>1. MaxCommands \in Nat /\ MaxResponses \in Nat BY RateConstants
        <5>2. Since(ran, t)' = {} BY <1>10, <4>1
        <5>3. QED BY <2>2, <5>1, <5>2
      <4>2. CASE t # s
        <5>1. t \in live BY <1>0, <4>2
        <5>2. Since(ran, t)' = Since(ran, t) BY <1>9, <5>1
        <5>3. QED BY <2>1, <5>1, <5>2
      <4>3. QED BY <4>1, <4>2
    <3>2. QED BY <3>1
  <2>4. QED BY <2>0, <2>3, FiniteRates DEF Rates!SessionLimits, Dialog
<1>15. QED BY <1>6, <1>7, <1>11, <1>12, <1>13, <1>14 DEF RateInv
-----------------------------------------------------------------------------
\* Windows only shrink as time passes, that of what ran with them.
LEMMA RatesTickKeeps ==
  ASSUME Rates!GovernorAssumption, RateInv, Rates!Tick
  PROVE  RateInv'
<1>0. /\ now' = now + 1 /\ charges' = charges /\ live' = live /\ createdAt' = createdAt
      /\ born' = born /\ ran' = ran
  BY DEF Rates!Tick
<1>1. /\ now \in Nat /\ RateWindow \in Nat /\ charges.global \in SUBSET Rates!Entries /\ ran \subseteq Runs
      /\ MaxGlobal \in Nat /\ MaxCommands \in Nat /\ MaxResponses \in Nat
      /\ live \subseteq Sessions
  BY RateFacts, RateConstants
<1>2. Rates!Recent(ran)' = {r \in Rates!Recent(ran) : r.at > now + 1 - RateWindow}
  BY <1>0, <1>1 DEF Rates!Recent, Runs
<1>3. Rates!Recent(charges.global)' = {e \in Rates!Recent(charges.global) : e.at > now + 1 - RateWindow}
  BY <1>0, <1>1 DEF Rates!Recent, Rates!Entries
<1>4. \A s : Since(ran, s)' \subseteq Since(ran, s) BY <1>0, <1>2 DEF Since
<1>5. RateTyped' BY <1>0, <1>1 DEF RateInv, RateTyped, AllFinite
<1>6. Numbered' BY <1>0 DEF RateInv, Numbered
<1>7. InGlobal(charges.global, ran)'
  <2>1. Rates!Recent(charges.global) = {Mark(r) : r \in Rates!Recent(ran)}
    BY DEF RateInv, Covers, InGlobal
  <2>2. Rates!Recent(charges.global)' \subseteq {Mark(r) : r \in Rates!Recent(ran)'}
    <3>1. ASSUME NEW e \in Rates!Recent(charges.global)' PROVE \E r \in Rates!Recent(ran)' : e = Mark(r)
      <4>1. e \in Rates!Recent(charges.global) /\ e.at > now + 1 - RateWindow BY <1>3
      <4>2. PICK r \in Rates!Recent(ran) : e = Mark(r) BY <2>1, <4>1
      <4>3. r.at = e.at BY <4>2 DEF Mark
      <4>4. r \in Rates!Recent(ran)' BY <1>2, <4>1, <4>3
      <4>5. QED BY <4>2, <4>4
    <3>2. QED BY <3>1
  <2>3. {Mark(r) : r \in Rates!Recent(ran)'} \subseteq Rates!Recent(charges.global)'
    <3>1. ASSUME NEW r \in Rates!Recent(ran)' PROVE Mark(r) \in Rates!Recent(charges.global)'
      <4>1. r \in Rates!Recent(ran) /\ r.at > now + 1 - RateWindow BY <1>2
      <4>2. Mark(r) \in Rates!Recent(charges.global) BY <2>1, <4>1
      <4>3. Mark(r).at = r.at BY DEF Mark
      <4>4. QED BY <1>3, <4>1, <4>2, <4>3
    <3>2. QED BY <3>1
  <2>4. QED BY <2>2, <2>3 DEF InGlobal, Mark
<1>8. InBuckets(charges.bucket, ran)' BY <1>0, <1>4 DEF RateInv, Covers, InBuckets, Mark
<1>9. InResponses(charges.responses, ran)'
  BY <1>0, <1>4 DEF RateInv, Covers, InResponses, ReplyMark
<1>10. Ages' BY <1>0, <1>1 DEF RateInv, Ages
<1>11. IsFiniteSet(Rates!Recent(ran)) BY RateFacts, RecentFiniteSet
<1>12. Rates!GlobalLimit'
  <2>1. Rates!Recent(ran)' \subseteq Rates!Recent(ran) BY <1>2
  <2>2. Cardinality(Rates!Recent(ran)) <= MaxGlobal BY FiniteRates DEF RateInv, Rates!GlobalLimit
  <2>3. Cardinality(Rates!Recent(ran)') <= MaxGlobal BY <1>1, <1>11, <2>1, <2>2, SmallerCount
  <2>4. QED BY <2>3, FiniteRates DEF Rates!GlobalLimit
<1>13. Rates!SessionLimits'
  <2>0. \A t : Rates!RanSince(t) = Since(ran, t) /\ Rates!RanSince(t)' = Since(ran, t)'
    BY DEF Rates!RanSince, Since
  <2>1. ASSUME NEW t \in live
        PROVE  /\ Cardinality(Since(ran, t)') <= MaxCommands
               /\ Cardinality({r \in Since(ran, t)' : r.type = Dialog}) <= MaxResponses
    <3> DEFINE S == Since(ran, t)  S1 == Since(ran, t)'
               D == {r \in S : r.type = Dialog}  D1 == {r \in S1 : r.type = Dialog}
    <3>1. IsFiniteSet(S) BY <1>11, FS_Subset DEF Since
    <3>2. IsFiniteSet(D) BY <3>1, FS_Subset
    <3>3. S1 \subseteq S BY <1>4
    <3>4. D1 \subseteq D BY <3>3
    <3>5. Cardinality(S) <= MaxCommands /\ Cardinality(D) <= MaxResponses
      BY <2>0, FiniteRates DEF RateInv, Rates!SessionLimits, Dialog
    <3> HIDE DEF S, S1, D, D1
    <3>6. Cardinality(S1) <= MaxCommands BY <1>1, <3>1, <3>3, <3>5, SmallerCount
    <3>7. Cardinality(D1) <= MaxResponses BY <1>1, <3>2, <3>4, <3>5, SmallerCount
    <3>8. QED BY <3>6, <3>7 DEF S1, D1
  <2>2. QED BY <1>0, <2>0, <2>1, FiniteRates DEF Rates!SessionLimits, Dialog
<1>14. QED BY <1>5, <1>6, <1>7, <1>8, <1>9, <1>10, <1>12, <1>13 DEF RateInv, Covers

LEMMA RatesInit == ASSUME Rates!GovernorAssumption, Rates!Init PROVE RateInv
<1>0. IsFiniteSet({}) /\ Cardinality({}) = 0 BY FS_EmptySet
<1>1. RateTyped
  <2>1. charges \in Charges BY DEF Rates!Init, Charges
  <2>2. AllFinite(charges) BY <1>0 DEF Rates!Init, AllFinite
  <2>3. QED BY <1>0, <2>1, <2>2 DEF Rates!Init, RateTyped, Rates!Unborn, Rates!Never
<1>2. Numbered BY DEF Rates!Init, Numbered
<1>3. Rates!Recent(ran) = {} /\ Rates!Recent(charges.global) = {} BY DEF Rates!Init, Rates!Recent
<1>4. Covers(charges, ran) BY <1>3 DEF Rates!Init, Covers, InGlobal, InBuckets, InResponses
<1>5. Ages BY DEF Rates!Init, Ages
<1>6. Rates!GlobalLimit BY <1>0, <1>3, FiniteRates, RateConstants DEF Rates!GlobalLimit
<1>7. Rates!SessionLimits BY DEF Rates!Init, Rates!SessionLimits
<1>8. QED BY <1>1, <1>2, <1>4, <1>5, <1>6, <1>7 DEF RateInv

LEMMA RatesStep == ASSUME Rates!GovernorAssumption, RateInv, [Rates!Next]_(Rates!vars) PROVE RateInv'
<1>1. CASE Rates!Next
  <2>1. ASSUME NEW c \in SentTypes, NEW s \in Sessions \cup {Nobody}, Rates!Arrive(c, s) PROVE RateInv'
    BY <2>1, RefusalKeeps, AdmittedKeeps DEF Rates!Arrive
  <2>2. ASSUME NEW s \in Sessions, Rates!CreateSession(s) PROVE RateInv' BY <2>2, CreateKeeps
  <2>3. ASSUME NEW s \in Sessions, Rates!DeleteSession(s) PROVE RateInv'
    <3>0. live' = live \ {s} BY <2>3 DEF Rates!DeleteSession
    <3>1. PICK ids \in SUBSET live : ids = live \ {s} OBVIOUS
    <3>2. charges' = Rates!Stale(charges, ids) /\ Rates!Forgotten(ids) /\ live' = ids
      BY <2>3, <3>0, <3>1 DEF Rates!DeleteSession
    <3>3. /\ now' = now /\ ran' = ran /\ born' = [born EXCEPT ![s] = Rates!Unborn]
      BY <2>3 DEF Rates!DeleteSession
    <3>4. born \in [Sessions -> [at : Int, gen : Nat]] /\ live \subseteq Sessions
      BY DEF RateInv, RateTyped
    <3>5. Rates!Unborn \in [at : Int, gen : Nat] BY DEF Rates!Unborn, Rates!Never
    <3>6. born' \in [Sessions -> [at : Int, gen : Nat]] BY <3>3, <3>4, <3>5
    <3>7. \A t \in ids : born'[t] = born[t] BY <3>1, <3>3, <3>4
    <3>8. QED BY <3>2, <3>3, <3>6, <3>7, StaleKeeps
  <2>4. CASE Rates!CreateFails
    <3>1. PICK ids \in SUBSET live : ids = live OBVIOUS
    <3>2. charges' = Rates!Stale(charges, ids) /\ Rates!Forgotten(ids) /\ live' = ids
      BY <2>4, <3>1 DEF Rates!CreateFails
    <3>3. now' = now /\ ran' = ran /\ born' = born BY <2>4 DEF Rates!CreateFails
    <3>4. born' \in [Sessions -> [at : Int, gen : Nat]] BY <3>3 DEF RateInv, RateTyped
    <3>5. QED BY <3>2, <3>3, <3>4, StaleKeeps
  <2>5. CASE Rates!CleanupStaleTimestamps BY <2>5, CleanupKeeps
  <2>6. CASE Rates!Tick BY <2>6, RatesTickKeeps
  <2>7. QED BY <1>1, <2>1, <2>2, <2>3, <2>4, <2>5, <2>6 DEF Rates!Next
<1>2. CASE UNCHANGED Rates!vars
  <2>1. charges' = charges /\ Rates!NothingRuns BY <1>2 DEF Rates!vars, Rates!NothingRuns
  <2>2. Saves(charges') BY <2>1, RateFacts, RecentSubset DEF Saves, RateInv, RateTyped
  <2>3. QED BY <2>1, <2>2, NothingRunsKeeps
<1>3. QED BY <1>1, <1>2

LEMMA RateInvImplies == ASSUME Rates!GovernorAssumption, RateInv PROVE WithinLimits
<1>1. Rates!TypeOK BY DEF RateInv, RateTyped, Rates!TypeOK, Charges, Runs
<1>2. Rates!RefusalsAreFree
  <2>1. Rates!Recent(charges.global) = {Mark(r) : r \in Rates!Recent(ran)}
    BY DEF RateInv, Covers, InGlobal
  <2>2. {e.gen : e \in Rates!Recent(charges.global)} \subseteq {r.gen : r \in Rates!Recent(ran)}
    BY <2>1 DEF Mark
  <2>3. {r.gen : r \in Rates!Recent(ran)} \subseteq {e.gen : e \in Rates!Recent(charges.global)}
    <3>1. ASSUME NEW r \in Rates!Recent(ran) PROVE r.gen \in {e.gen : e \in Rates!Recent(charges.global)}
      <4>1. Mark(r) \in Rates!Recent(charges.global) /\ Mark(r).gen = r.gen BY <2>1 DEF Mark
      <4>2. QED BY <4>1
    <3>2. QED BY <3>1
  <2>4. QED BY <2>2, <2>3 DEF Rates!RefusalsAreFree
<1>3. Rates!ExpireOnTime
  <2>1. live \subseteq Sessions /\ now \in Nat BY RateFacts
  <2>2. ASSUME NEW s \in Sessions
        PROVE  (createdAt[s] # Rates!Never /\ Lifetime > 0 /\ now - createdAt[s] > Lifetime)
               <=> (s \in live /\ Lifetime > 0 /\ now - born[s].at > Lifetime)
    BY <2>1 DEF RateInv, Ages, Rates!Never
  <2>3. QED BY <2>1, <2>2 DEF Rates!ExpireOnTime, Rates!Expired
<1>4. QED BY <1>1, <1>2, <1>3 DEF RateInv, Rates!WithinLimits, WithinLimits

\* For every number of sessions, every limit, window and lifetime: commands and dialog
\* responses keep to their limits in every window, whatever is refused, refunded, cleaned up,
\* created or deleted in between, what is refused costs nothing, and sessions expire by their
\* own age (canExecuteCommand, refundCommand, cleanupStaleData, isSessionExpired).
THEOREM WithinLimitsHolds == Rates!Spec => []WithinLimits
<1> USE GuardsAssumption DEF GuardsAssumption
<1>1. Rates!Init => RateInv BY RatesInit
<1>2. RateInv /\ [Rates!Next]_(Rates!vars) => RateInv' BY RatesStep
<1>3. RateInv => WithinLimits BY RateInvImplies
<1>4. QED BY <1>1, <1>2, <1>3, PTL DEF Rates!Spec

-----------------------------------------------------------------------------
(***************************************************************************)
(* Dispatch: the tables of validation, routing and classification agree,   *)
(* and what follows from it for every sequence of commands.  The lemmas    *)
(* compare the tables, the theorems carry them through the stages.         *)
(* Clients may send any types.                                             *)
(***************************************************************************)
\* Each type validation knows has a handler.
LEMMA TablesCovered ==
  /\ SERVER_COMMANDS \subseteq ServerHandlers
  /\ SESSION_COMMANDS \subseteq ServerHandlers \cup SessionCommandHandlers
BY DEF SERVER_COMMANDS, SESSION_COMMANDS, ServerHandlers, RegistryHandlers, ServerReads,
       SessionCommandHandlers, Changing, Talks, Settings, Compactions, Shells, Branches,
       SessionReads, Discovery

\* Validation looks at each field a handler takes for granted, and wants it there.
LEMMA RulesCoverNeeds ==
  ASSUME NEW c, NEW f \in Needs(c)
  PROVE  f \in DOMAIN FieldRules(c) /\ FieldRules(c)[f] \cap {"absent", "wrong", "empty"} = {}
<1> USE DEF Needs, FieldRules, NonEmpty, Strings, Shapes
<1>1. CASE c \in {"prompt", "steer", "follow_up"}  BY <1>1 DEF MessageRule
<1>2. CASE c = "set_model"  BY <1>2
<1>3. CASE c = "set_thinking_level"  BY <1>3
<1>4. CASE c \in {"set_auto_compaction", "set_auto_retry"}  BY <1>4
<1>5. CASE c = "bash"  BY <1>5
<1>6. CASE c = "set_session_name"  BY <1>6
<1>7. CASE c \in {"switch_session_file", "load_session"}  BY <1>7 DEF PathRule
<1>8. CASE c = "fork"  BY <1>8
<1>9. CASE c = "navigate_tree"  BY <1>9 DEF TreeRule
<1>10. CASE c = "extension_ui_response"  BY <1>10 DEF UIResponseRule
<1> QED  BY <1>1, <1>2, <1>3, <1>4, <1>5, <1>6, <1>7, <1>8, <1>9, <1>10

\* What changes a session counts as a mutation, and what the server answers itself does not.
LEMMA ChangesCount ==
  /\ \A c \in Changing : IsMutation(c)
  /\ \A c \in ServerHandlers \ RegistryHandlers : ~IsMutation(c)
BY DEF IsMutation, ReadOnlyCommands, SpecialSessionCommands, Changing, Talks, Settings,
       Compactions, Shells, Branches, ServerHandlers, RegistryHandlers, ServerReads
-----------------------------------------------------------------------------
\* A command that got past validation is a valid one.
Validated == stage \in {"admitted", "running"} => ValidationErrors(request) = {}
Routed == Validated /\ AdmittedIsRouted

LEMMA ValidatedInit == Init => Routed
BY DEF Init, Routed, Validated, AdmittedIsRouted

LEMMA ValidatedType ==
  ASSUME Validated, stage \in {"admitted", "running"}
  PROVE  request.type \in SESSION_COMMANDS \cup SERVER_COMMANDS
BY DEF Validated, ValidationErrors

LEMMA ValidatedStep == ASSUME Routed, [Next]_vars PROVE Routed'
<1>1. CASE UNCHANGED vars
  BY <1>1 DEF vars, Routed, Validated, AdmittedIsRouted
<1>2. ASSUME NEW r \in Requests, Receive(r) PROVE Routed'
  BY <1>2 DEF Receive, Routed, Validated, AdmittedIsRouted
<1>3. CASE Validate
  BY <1>3 DEF Validate, Refused, Routed, Validated, AdmittedIsRouted
<1>4. CASE NotStarted \/ NoSession \/ BreakerOpen \/ Fails
  BY <1>4 DEF NotStarted, NoSession, BreakerOpen, Fails, Refused, Routed, Validated,
              AdmittedIsRouted
<1>5. CASE Unrouted
  BY <1>5, ValidatedType, TablesCovered DEF Unrouted, IsServer, Routed
<1>6. CASE Enter
  BY <1>6 DEF Enter, Routed, Validated, AdmittedIsRouted
<1>7. CASE FailsWithSession
  BY <1>7 DEF FailsWithSession, Routed, Validated, AdmittedIsRouted
<1>8. CASE RegistryEnds \/ ReadEnds \/ SessionEnds
  BY <1>8 DEF RegistryEnds, ReadEnds, SessionEnds, Succeed, Routed, Validated, AdmittedIsRouted
<1> QED  BY <1>1, <1>2, <1>3, <1>4, <1>5, <1>6, <1>7, <1>8 DEF Next

LEMMA AlwaysRouted == Spec => []Routed
BY ValidatedInit, ValidatedStep, PTL DEF Spec

\* Whatever clients send, validation refuses what no handler would take.
LEMMA AdmittedIsRoutedHolds == Spec => []AdmittedIsRouted
<1>1. Routed => AdmittedIsRouted  BY DEF Routed
<1> QED  BY <1>1, AlwaysRouted, PTL

\* A handler runs only with the fields it takes for granted, whatever clients send.
LEMMA HandlersHaveTheirFieldsHolds == Spec => []HandlersHaveTheirFields
<1>1. Routed => HandlersHaveTheirFields
  <2> SUFFICES ASSUME Routed, stage = "running"
               PROVE  /\ \A f \in Needs(request.type) :
                           request.body[f] \notin {"absent", "wrong", "empty"}
                      /\ request.type \in SESSION_COMMANDS \cup {"delete_session", "switch_session"}
                           => request.sessionId \in NonBlank
    BY DEF HandlersHaveTheirFields
  <2>1. ValidationErrors(request) = {}
    BY DEF Routed, Validated
  <2>2. ASSUME NEW f \in Needs(request.type)
        PROVE  request.body[f] \notin {"absent", "wrong", "empty"}
    <3>1. f \in DOMAIN FieldRules(request.type)
          /\ FieldRules(request.type)[f] \cap {"absent", "wrong", "empty"} = {}
      BY <2>2, RulesCoverNeeds
    <3>2. request.body[f] \in FieldRules(request.type)[f]
      BY <2>1, <3>1 DEF ValidationErrors, BodyErrors
    <3> QED  BY <3>1, <3>2
  <2>3. request.sessionId \in SessionIdRule(request.type)
    BY <2>1 DEF ValidationErrors
  <2> QED  BY <2>2, <2>3 DEF SessionIdRule, SESSION_COMMANDS
<1> QED  BY <1>1, AlwaysRouted, PTL
-----------------------------------------------------------------------------
\* A session that a command entered is there until the command ends.
Entered == stage = "running" => IsServer \/ HasSession

LEMMA EnteredInit == Init => Entered
BY DEF Init, Entered

LEMMA EnteredStep == ASSUME Entered, [Next]_vars PROVE Entered'
BY DEF Entered, IsServer, HasSession, session, vars, Next, Receive, Validate, NotStarted, NoSession,
       BreakerOpen, Unrouted, Enter, Fails, FailsWithSession, Refused, RegistryEnds, ReadEnds,
       SessionEnds, Succeed

\* What clients were told of a session lies in its past, and the last of it is its present.
Told ==
  /\ content \in Nat /\ version \in Nat \cup {None} /\ alive \in BOOLEAN
  /\ told \subseteq Nat \X Nat
  /\ IF alive THEN version # None ELSE version \in {None, 0}
  /\ \A p \in told : alive /\ p[1] <= version /\ (p[1] = version => p[2] = content)
  /\ \A p, q \in told : p[1] = q[1] => p[2] = q[2]

LEMMA ToldInit == Init => Told
BY DEF Init, Told, None

\* A refusal leaves the session alone.
LEMMA ToldSame == ASSUME Told, UNCHANGED <<session, told>> PROVE Told'
BY DEF Told, session

\* A command on the session that succeeds advances the version when it changes the content.
LEMMA ToldNext ==
  ASSUME Told, alive, UNCHANGED alive, content' \in Nat,
         \/ version' = version + 1
         \/ version' = version /\ content' = content,
         told' = told \cup {<<version', content'>>}
  PROVE  Told'
<1>1. version \in Nat /\ version' \in Nat  BY DEF Told
<1>2. \A p \in told : p \in Nat \X Nat /\ p[1] <= version /\ (p[1] = version => p[2] = content)
  BY DEF Told
<1>3. \A p \in told' : p \in Nat \X Nat /\ p[1] <= version' /\ (p[1] = version' => p[2] = content')
  BY <1>1, <1>2
<1>4. \A p, q \in told' : p[1] = q[1] => p[2] = q[2]
  BY <1>1, <1>2, <1>3 DEF Told
<1> QED  BY <1>1, <1>3, <1>4 DEF Told, None

LEMMA VersionSteps ==
  ASSUME NEW r
  PROVE  /\ r.type = "delete_session" => NextVersion(r) = None
         /\ r.type \in {"create_session", "load_session"} /\ r.sessionId = "good"
              => NextVersion(r) = 0
         /\ r.type \in {"create_session", "load_session"} /\ r.sessionId # "good"
              => NextVersion(r) = version
         /\ r.type \notin RegistryHandlers
              => NextVersion(r) = IF r.sessionId = "good"
                                  THEN Current + (IF IsMutation(r.type) THEN 1 ELSE 0)
                                  ELSE version
BY DEF NextVersion, RegistryHandlers

LEMMA ToldStep == ASSUME Told, Entered, [Next]_vars PROVE Told'
<1>1. CASE UNCHANGED vars
  BY <1>1, ToldSame DEF vars
<1>2. CASE \E r \in Requests : Receive(r)
  BY <1>2, ToldSame DEF Receive
<1>3. CASE Validate \/ NotStarted \/ NoSession \/ BreakerOpen \/ Unrouted \/ Enter \/ Fails
  BY <1>3, ToldSame DEF Validate, NotStarted, NoSession, BreakerOpen, Unrouted, Enter, Fails,
                        Refused, session
<1>4. CASE FailsWithSession
  BY <1>4 DEF FailsWithSession, Told, None
<1>5. CASE RegistryEnds
  <2>1. CASE request.type = "delete_session"
    <3>1. alive /\ alive' = FALSE
      BY <1>5, <2>1 DEF RegistryEnds, HasSession
    <3>2. version' = None
      BY <1>5, <2>1, VersionSteps DEF RegistryEnds, Succeed
    <3>3. content' = 0 /\ told' = {}
      BY <1>5, <3>1 DEF RegistryEnds
    <3> QED  BY <3>1, <3>2, <3>3 DEF Told
  <2>2. CASE request.type # "delete_session" /\ request.sessionId = "good"
    <3>1. request.type \in {"create_session", "load_session"}
      BY <1>5, <2>2 DEF RegistryEnds, RegistryHandlers
    <3>2. ~alive /\ alive' = TRUE
      BY <1>5, <2>2 DEF RegistryEnds
    <3>3. version' = 0
      BY <1>5, <2>2, <3>1, VersionSteps DEF RegistryEnds, Succeed
    <3>4. content' = 0 /\ told' = {<<0, 0>>}
      BY <1>5, <3>2 DEF RegistryEnds
    <3> QED  BY <3>2, <3>3, <3>4 DEF Told, None
  <2>3. CASE request.type # "delete_session" /\ request.sessionId # "good"
    <3>1. request.type \in {"create_session", "load_session"}
      BY <1>5, <2>3 DEF RegistryEnds, RegistryHandlers
    <3> QED  BY <1>5, <2>3, <3>1, ToldSame, VersionSteps
             DEF RegistryEnds, Succeed, session
  <2> QED  BY <2>1, <2>2, <2>3
<1>6. CASE ReadEnds
  <2>1. /\ request.type \notin {"create_session", "load_session", "delete_session"}
        /\ ~IsMutation(request.type)
    BY <1>6, ChangesCount DEF ReadEnds, RegistryHandlers
  <2>2. version' = IF request.sessionId = "good" THEN Current ELSE version
    <3>1. version' = IF request.sessionId = "good" THEN Current + 0 ELSE version
      BY <1>6, <2>1, VersionSteps DEF ReadEnds, Succeed, RegistryHandlers
    <3> QED  BY <3>1 DEF Current, Told, None
  <2>3. UNCHANGED <<alive, content>>
    BY <1>6 DEF ReadEnds
  <2>4. CASE HasSession
    <3>1. version' = version
      BY <2>2, <2>4 DEF Current, HasSession, Told
    <3> QED  BY <1>6, <2>3, <2>4, <3>1, ToldNext DEF ReadEnds, HasSession, Told
  <2>5. CASE ~HasSession /\ alive
    <3>1. version' = version
      BY <2>2, <2>5 DEF HasSession
    <3> QED  BY <1>6, <2>3, <2>5, <3>1, ToldSame DEF ReadEnds, session
  <2>6. CASE ~alive
    <3>1. version' \in {None, 0}
      BY <2>2, <2>6 DEF Current, Told
    <3>2. told' = {}
      BY <1>6, <2>6 DEF ReadEnds, HasSession, Told
    <3> QED  BY <2>3, <2>6, <3>1, <3>2 DEF Told, None
  <2> QED  BY <2>4, <2>5, <2>6
<1>7. CASE SessionEnds
  <2>1. request.type \notin RegistryHandlers
    BY <1>7 DEF SessionEnds, IsServer, ServerHandlers
  <2>2. HasSession /\ UNCHANGED alive /\ content' \in Nat
    BY <1>7 DEF SessionEnds, Entered, IsServer, Told
  <2>3. version' = version + (IF IsMutation(request.type) THEN 1 ELSE 0)
    BY <1>7, <2>1, <2>2, VersionSteps DEF SessionEnds, Succeed, HasSession, Current, Told
  <2>4. content' = content \/ IsMutation(request.type)
    BY <1>7, ChangesCount DEF SessionEnds
  <2>5. version \in Nat  BY <2>2 DEF Told, HasSession
  <2>6. version' = version + 1 \/ (version' = version /\ content' = content)
    BY <2>3, <2>4, <2>5
  <2>7. alive /\ told' = told \cup {<<version', content'>>}
    BY <1>7, <2>2 DEF SessionEnds, HasSession
  <2> QED  BY <2>2, <2>6, <2>7, ToldNext
<1> QED  BY <1>1, <1>2, <1>3, <1>4, <1>5, <1>6, <1>7 DEF Next

LEMMA AlwaysTold == Spec => [](Told /\ Entered)
<1>1. Init => Told /\ Entered  BY ToldInit, EnteredInit
<1>2. (Told /\ Entered) /\ [Next]_vars => (Told /\ Entered)'  BY ToldStep, EnteredStep
<1> QED  BY <1>1, <1>2, PTL DEF Spec

\* Versions tell the states of a session apart in every sequence of commands.
LEMMA SameVersionSameSessionHolds == Spec => []SameVersionSameSession
<1>1. Told /\ Entered => SameVersionSameSession  BY DEF Told, SameVersionSameSession
<1> QED  BY <1>1, AlwaysTold, PTL

\* A session that lives has a version that did not go back; one that is gone leaves none of its own.
LEMMA VersionsOfThisLifeHolds == Spec => []VersionsOfThisLife
<1>1. Told /\ Entered => VersionsOfThisLife  BY DEF Told, VersionsOfThisLife
<1> QED  BY <1>1, AlwaysTold, PTL

\* Dispatch is total, whatever types and fields clients send.
THEOREM DispatchTotalHolds == Spec => []DispatchTotal
<1>1. AdmittedIsRouted /\ HandlersHaveTheirFields => DispatchTotal  BY DEF DispatchTotal
<1> QED  BY <1>1, AdmittedIsRoutedHolds, HandlersHaveTheirFieldsHolds, PTL

\* Versions tell what a client has seen, for any number of changes.
THEOREM VersionsTellHolds == Spec => []VersionsTell
<1>1. SameVersionSameSession /\ VersionsOfThisLife => VersionsTell  BY DEF VersionsTell
<1> QED  BY <1>1, SameVersionSameSessionHolds, VersionsOfThisLifeHolds, PTL

=============================================================================
