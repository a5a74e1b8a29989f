--------------------------- MODULE ThresholdAlerts ---------------------------
(***************************************************************************)
(* ThresholdAlertSink: what it remembers of the metrics it watches, and    *)
(* the alerts it fires.  A metric with its tags is a key; a value counts   *)
(* by the level it reaches, 0 for below every threshold.                   *)
(***************************************************************************)
EXTENDS Integers, FiniteSets, SequencesExt

CONSTANTS Keys, Levels,        \* info, warn, critical: 1 .. 3, or fewer
          Clears,              \* there is an onClear handler
          MaxStates,           \* maxAlertStates
          RealertAfter, MaxTime

AlertAssumption ==
  /\ Levels \subseteq Nat \ {0} /\ Clears \in BOOLEAN
  /\ MaxStates \in Nat \ {0} /\ {RealertAfter, MaxTime} \subseteq Nat

VARIABLES now,
          states,      \* alertStates, in the order of the Map: [key, level, lastAlertTime]
          level,       \* history: the level of the last value of each key
          sounded      \* history: the last alert fired for a key and not cleared since

vars == <<now, states, level, sounded>>

Known(k) == \E i \in DOMAIN states : states[i].key = k
StateOf(k) == CHOOSE i \in DOMAIN states : states[i].key = k
PreviousLevel(k) == IF Known(k) THEN states[StateOf(k)].level ELSE 0

Init ==
  /\ now = 0 /\ states = <<>>
  /\ level = [k \in Keys |-> 0] /\ sounded = [k \in Keys |-> 0]
-----------------------------------------------------------------------------
Evicted(seq) == IF Len(seq) >= MaxStates THEN Tail(seq) ELSE seq

\* setAlertState: a known key keeps its place, a new one displaces the first.
SetAlertState(k, l) ==
  LET s == [key |-> k, level |-> l, lastAlertTime |-> now] IN
  states' = IF Known(k) THEN [states EXCEPT ![StateOf(k)] = s] ELSE Append(Evicted(states), s)

OnlyHigher(k, l) == l > PreviousLevel(k)          \* fault: an alert only when it gets worse
Changed(k, l) == l # PreviousLevel(k)
MustRealert(k, l) ==
  l # 0 /\ Known(k) /\ now - states[StateOf(k)].lastAlertTime >= RealertAfter

Fire(k, l) ==
  /\ l # 0 /\ (Changed(k, l) \/ MustRealert(k, l))
  /\ SetAlertState(k, l) /\ sounded' = [sounded EXCEPT ![k] = l]

Clear(k, l) ==
  /\ l = 0 /\ Clears /\ Changed(k, l)
  /\ SetAlertState(k, 0) /\ sounded' = [sounded EXCEPT ![k] = 0]

\* Without onClear the state of a metric that has dropped stays as it was.
Quiet(k, l) ==
  /\ ~(l # 0 /\ (Changed(k, l) \/ MustRealert(k, l))) /\ ~(l = 0 /\ Clears /\ Changed(k, l))
  /\ UNCHANGED <<states, sounded>>

\* checkThreshold, for a value of level l.
CheckThreshold(k, l) ==
  /\ Fire(k, l) \/ Clear(k, l) \/ Quiet(k, l)
  /\ level' = [level EXCEPT ![k] = l] /\ UNCHANGED now

RemoveThreshold(k) ==                             \* and is set again later
  /\ Known(k) /\ states' = RemoveAt(states, StateOf(k))
  /\ level' = [level EXCEPT ![k] = 0] /\ sounded' = [sounded EXCEPT ![k] = 0]
  /\ UNCHANGED now

Tick == now < MaxTime /\ now' = now + 1 /\ UNCHANGED <<states, level, sounded>>

Next ==
  \/ \E k \in Keys : (\E l \in Levels \cup {0} : CheckThreshold(k, l)) \/ RemoveThreshold(k)
  \/ Tick

Spec == Init /\ [][Next]_vars
-----------------------------------------------------------------------------
\* The sink remembers a bounded number of metrics, each once.
StatesBounded ==
  /\ Len(states) <= MaxStates
  /\ \A i, j \in DOMAIN states : states[i].key = states[j].key => i = j

\* A metric at some level has had its alert of that level: with a clear handler neither
\* eviction nor a drop in between makes a crossing silent (checkThreshold).
NoSilentCrossing == Clears => \A k \in Keys : level[k] # 0 => sounded[k] = level[k]

\* Alerts are heard, although only a bounded number of metrics is remembered.
AlertsHeard == StatesBounded /\ NoSilentCrossing
=============================================================================
