---------------------------- MODULE BoundedCounter ----------------------------
(***************************************************************************)
(* BoundedMap with the BoundedCounter built on it: timestamps per key that *)
(* expire as a whole, some time after the last of them, and give way, the  *)
(* first inserted first, when there are too many keys.                     *)
(***************************************************************************)
EXTENDS Integers, FiniteSets, Sequences

CONSTANTS Keys, Limit,     \* what checkAndRecord is called with
          MaxSize,         \* maxKeys; 0 is no bound
          Window, MaxTime, MaxOrder

CounterAssumption ==
  Limit \in Nat \ {0} /\ {MaxSize, Window, MaxTime, MaxOrder} \subseteq Nat

VARIABLES now,
          entry,       \* the entry of each key: its timestamps, insertedAt and order
          orderCounter,
          recorded     \* history: when a key was recorded since it last gave way or was deleted

vars == <<now, entry, orderCounter, recorded>>

None == [stamps |-> <<>>, insertedAt |-> -1, order |-> 0]
Ttl == 2 * Window

Init ==
  /\ now = 0 /\ orderCounter = 0
  /\ entry = [k \in Keys |-> None] /\ recorded = [k \in Keys |-> <<>>]

Present == {k \in Keys : entry[k] # None}
Expired(k) == entry[k] # None /\ Ttl > 0 /\ now - entry[k].insertedAt > Ttl
Recent(stamps) == {i \in DOMAIN stamps : stamps[i] > now - Window}
Drop(ks) == entry' = [k \in Keys |-> IF k \in ks THEN None ELSE entry[k]]
-----------------------------------------------------------------------------
\* countInWindow: get drops an entry that has expired.  A key at its limit is refused, and
\* nothing changes.
Count(k) == IF Expired(k) THEN 0 ELSE Cardinality(Recent(entry[k].stamps))

SameAge(k) == entry[k].insertedAt                 \* fault: an update does not renew the entry
Renewed(k) == now

\* set: an entry that is there keeps its order, and starts its time anew.
RecordMore(k) ==
  /\ Count(k) < Limit /\ entry[k] # None /\ ~Expired(k)
  /\ entry' = [entry EXCEPT ![k].stamps = Append(@, now), ![k].insertedAt = Renewed(k)]
  /\ recorded' = [recorded EXCEPT ![k] = Append(@, now)]
  /\ UNCHANGED <<now, orderCounter>>

\* evictOldest, of the keys that are left: the first inserted, however much used.
Before(left, k) == {j \in left : entry[j].order < entry[k].order}
Evicted(left) ==
  {k \in left : MaxSize > 0 /\ Cardinality(Before(left, k)) <= Cardinality(left) - MaxSize}

\* set, for a key without an entry: evictExpired, then evictOldest if there is no room.
RecordFirst(k) ==
  LET left == {j \in Present : ~Expired(j)}
      gone == Evicted(left)
  IN
  /\ Count(k) < Limit /\ k \notin left /\ orderCounter < MaxOrder
  /\ orderCounter' = orderCounter + 1
  /\ entry' = [j \in Keys |->
                 CASE j = k -> [stamps |-> <<now>>, insertedAt |-> now, order |-> orderCounter + 1]
                   [] j # k /\ j \in left \ gone -> entry[j]
                   [] OTHER -> None]
  /\ recorded' = [j \in Keys |-> CASE j = k -> Append(recorded[k], now)
                                   [] j # k /\ j \in gone -> <<>>
                                   [] OTHER -> recorded[j]]
  /\ UNCHANGED now

Cleanup == Drop({k \in Keys : Expired(k)}) /\ UNCHANGED <<now, orderCounter, recorded>>

Delete(k) ==
  /\ entry[k] # None /\ Drop({k})
  /\ recorded' = [recorded EXCEPT ![k] = <<>>] /\ UNCHANGED <<now, orderCounter>>

Tick == now < MaxTime /\ now' = now + 1 /\ UNCHANGED <<entry, orderCounter, recorded>>

Next ==
  \/ \E k \in Keys : RecordMore(k) \/ RecordFirst(k) \/ Delete(k)
  \/ Cleanup \/ Tick

Spec == Init /\ [][Next]_vars
-----------------------------------------------------------------------------
\* There are never more keys than the bound allows, and no two have the same place in the
\* order they give way in.
KeysBounded ==
  /\ MaxSize > 0 => Cardinality(Present) <= MaxSize
  /\ \A j, k \in Present : entry[j].order = entry[k].order => j = k

\* No key is recorded more often within a window than the limit, unless it gave way to other
\* keys or was deleted: expiry, cleanup and updates never lose a count that still matters.
CounterLimit == \A k \in Keys : Cardinality(Recent(recorded[k])) <= Limit

\* The counter is exact within its bounds: it forgets neither keys nor times too early.
CounterExact == KeysBounded /\ CounterLimit
=============================================================================
