--------------------------- MODULE CircuitBreakers ---------------------------
(***************************************************************************)
(* CircuitBreaker, CircuitBreakerManager and BashCircuitBreaker as the     *)
(* command handlers use them: an LLM command asks the breaker of its       *)
(* provider, a bash command the one of its session and then the global     *)
(* one.  Between the check and the report of the outcome the call runs, as *)
(* long as it takes.                                                       *)
(***************************************************************************)
EXTENDS Integers, FiniteSets, Sequences

CONSTANTS Calls,              \* calls that may run at a time
          Providers, Sessions, Global, Nothing,
          Threshold,          \* failureThreshold of each breaker
          SuccessThreshold, HalfOpenMaxCalls,
          FailureWindow, RecoveryTimeout, StaleTimeout, MaxTime

Breakers == Providers \cup Sessions \cup {Global}

BreakerAssumption ==
  /\ Global \notin Providers \cup Sessions /\ Providers \cap Sessions = {}
  /\ Nothing \notin Breakers /\ IsFiniteSet(Calls)
  /\ Threshold \in [Breakers -> Nat \ {0}]
  /\ SuccessThreshold \in Nat \ {0} /\ HalfOpenMaxCalls \in Nat
  /\ SuccessThreshold <= HalfOpenMaxCalls
  /\ {FailureWindow, RecoveryTimeout, StaleTimeout, MaxTime} \subseteq Nat

VARIABLES now,
          breaker,     \* state, failures (times), lastStateChange, lastAccessTime,
                       \* halfOpenSuccesses and halfOpenCalls of each breaker
          running,     \* the provider or session of each call that runs
          orphans,     \* LLM calls whose breaker was removed: they report to the old object
          tests        \* history: calls let through by a breaker since it became half-open

vars == <<now, breaker, running, orphans, tests>>

Fresh == [state |-> "closed", failures |-> <<>>, lastStateChange |-> now, lastAccessTime |-> now,
          successes |-> 0, trials |-> 0]

Init ==
  /\ now = 0 /\ breaker = [b \in Breakers |-> Fresh]
  /\ running = [c \in Calls |-> Nothing] /\ orphans = {}
  /\ tests = [b \in Breakers |-> 0]
-----------------------------------------------------------------------------
ToClosed(k) ==
  [k EXCEPT !.state = "closed", !.lastStateChange = now, !.failures = <<>>,
            !.successes = 0, !.trials = 0]
ToOpen(k) == [k EXCEPT !.state = "open", !.lastStateChange = now]
ToHalfOpen(k) ==
  [k EXCEPT !.state = "half_open", !.lastStateChange = now, !.successes = 0, !.trials = 0]

\* The failures are in the order of their times: those within the window are the last ones.
Old(times) == {i \in DOMAIN times : times[i] <= now - FailureWindow}
Pruned(k) == [k EXCEPT !.failures = SubSeq(@, Cardinality(Old(@)) + 1, Len(@))]
Accessed(k) == [k EXCEPT !.lastAccessTime = now]

Recovered(k) == now - k.lastStateChange >= RecoveryTimeout
Allowed(k) ==
  CASE k.state = "closed" -> TRUE
    [] k.state = "open" -> Recovered(k)
    [] k.state = "half_open" -> k.trials < HalfOpenMaxCalls

NotCounted(k) == k                                \* fault: test calls are not counted
Tried(k) == [k EXCEPT !.trials = @ + 1]
\* canExecute: the call that makes a circuit half-open is not counted among its test calls.
Checked(k) ==
  LET seen == Pruned(Accessed(k)) IN
  CASE k.state = "open" /\ Recovered(k) -> ToHalfOpen(seen)
    [] k.state = "half_open" /\ Allowed(k) -> Tried(seen)
    [] OTHER -> seen

Failed(b, k) ==
  LET noted == Pruned([Accessed(k) EXCEPT !.failures = Append(@, now)]) IN
  IF k.state = "half_open" \/ (k.state = "closed" /\ Len(noted.failures) >= Threshold[b])
  THEN ToOpen(noted) ELSE noted

\* A slow call counts as a failure, in a half-open circuit too.
Slow(b, k) == Failed(b, k)

Succeeded(b, k) ==
  LET seen == Accessed(k) IN
  CASE k.state = "half_open" /\ k.successes + 1 >= SuccessThreshold -> ToClosed(seen)
    [] k.state = "half_open" /\ k.successes + 1 < SuccessThreshold ->
         [seen EXCEPT !.successes = @ + 1]
    [] k.state = "closed" -> Pruned(seen)
    [] OTHER -> seen

Counted(b) ==                                     \* a call was let through by b
  IF breaker[b].state = "half_open" THEN tests[b] + 1 ELSE IF breaker[b].state = "open" THEN 1 ELSE 0
-----------------------------------------------------------------------------
\* executeLLMCommand, up to the call.
AskProvider(c, p) ==
  /\ running[c] = Nothing
  /\ breaker' = [breaker EXCEPT ![p] = Checked(@)]
  /\ IF Allowed(breaker[p])
     THEN running' = [running EXCEPT ![c] = p] /\ tests' = [tests EXCEPT ![p] = Counted(p)]
     ELSE UNCHANGED <<running, tests>>
  /\ UNCHANGED <<now, orphans>>

\* executeBashCommand: a call the global breaker refuses has been counted by its session.
AskSession(c, s) ==
  /\ running[c] = Nothing
  /\ IF Allowed(breaker[s])
     THEN /\ breaker' = [breaker EXCEPT ![s] = Checked(@), ![Global] = Checked(@)]
          /\ IF Allowed(breaker[Global])
             THEN /\ running' = [running EXCEPT ![c] = s]
                  /\ tests' = [tests EXCEPT ![s] = Counted(s), ![Global] = Counted(Global)]
             ELSE running' = running /\ tests' = [tests EXCEPT ![s] = Counted(s)]
     ELSE breaker' = [breaker EXCEPT ![s] = Checked(@)] /\ UNCHANGED <<running, tests>>
  /\ UNCHANGED <<now, orphans>>

Ends(c) ==
  /\ running' = [running EXCEPT ![c] = Nothing] /\ orphans' = orphans \ {c}
  /\ UNCHANGED <<now, tests>>

\* An LLM call comes back.
ProviderAnswers(c) ==
  LET p == running[c] IN
  /\ p \in Providers /\ Ends(c)
  /\ \/ c \in orphans /\ UNCHANGED breaker
     \/ /\ c \notin orphans
        /\ \E k \in {Succeeded(p, breaker[p]), Slow(p, breaker[p]), Failed(p, breaker[p])} :
             breaker' = [breaker EXCEPT ![p] = k]

\* A bash command comes back; a failure that is not a timeout is a success.
BashEnds(c) ==
  LET s == running[c] IN
  /\ s \in Sessions /\ Ends(c)
  /\ \/ breaker' = [breaker EXCEPT ![s] = Succeeded(s, @), ![Global] = Succeeded(Global, @)]
     \/ breaker' = [breaker EXCEPT ![s] = Failed(s, @), ![Global] = Failed(Global, @)]

\* cleanupStaleBreakers, cleanupStale: an LLM call keeps the object it asked.
CleanupStale ==
  LET stale == {b \in Providers \cup Sessions :
                  breaker[b] # Fresh /\ breaker[b].lastAccessTime < now - StaleTimeout}
  IN /\ stale # {}
     /\ breaker' = [b \in Breakers |-> IF b \in stale THEN Fresh ELSE breaker[b]]
     /\ tests' = [b \in Breakers |-> IF b \in stale THEN 0 ELSE tests[b]]
     /\ orphans' = orphans \cup {c \in Calls : running[c] \in stale \cap Providers}
     /\ UNCHANGED <<now, running>>

Tick == now < MaxTime /\ now' = now + 1 /\ UNCHANGED <<breaker, running, orphans, tests>>

Next ==
  \/ \E c \in Calls :
       \/ \E p \in Providers : AskProvider(c, p)
       \/ \E s \in Sessions : AskSession(c, s)
       \/ ProviderAnswers(c) \/ BashEnds(c)
  \/ CleanupStale \/ Tick

Spec == Init /\ [][Next]_vars
-----------------------------------------------------------------------------
TypeOK ==
  /\ now \in Nat
  /\ breaker \in [Breakers -> [state : {"closed", "open", "half_open"}, failures : Seq(Nat),
                               lastStateChange : Nat, lastAccessTime : Nat,
                               successes : Nat, trials : Nat]]
  /\ running \in [Calls -> Providers \cup Sessions \cup {Nothing}] /\ orphans \subseteq Calls
  /\ tests \in [Breakers -> Nat]

\* A half-open circuit lets a bounded number of calls through, the one that made it half-open
\* and HalfOpenMaxCalls more, whatever earlier calls report meanwhile (canExecute).
TestsBounded ==
  \A b \in Breakers : breaker[b].state = "half_open" => tests[b] <= HalfOpenMaxCalls + 1

\* A closed circuit has fewer recent failures than would open it: late reports of calls that
\* began before, and slow calls, never leave it closed beyond its threshold (recordFailure).
ClosedBelowThreshold ==
  \A b \in Breakers :
    breaker[b].state = "closed" => Len(Pruned(breaker[b]).failures) < Threshold[b]

Reporting(b) ==
  \E c \in Calls \ orphans : running[c] = b \/ (b = Global /\ running[c] \in Sessions)
LockedOut(b) ==
  breaker[b].state = "half_open" /\ breaker[b].trials >= HalfOpenMaxCalls /\ ~Reporting(b)

\* A provider's circuit that has used up its test calls still awaits one that decides it: it
\* does not stay half-open for good when test calls are slow (ADR-0015).
ProvidersRecover == \A b \in Providers \cup {Global} : ~LockedOut(b)

\* Circuits decide: they open when they should, test within bounds, and find a way back.
CircuitsDecide == TypeOK /\ TestsBounded /\ ClosedBelowThreshold /\ ProvidersRecover

\* The same of the breaker of a session ("Half-open state allows gradual restoration").
SessionsRecover == \A b \in Sessions : ~LockedOut(b)
=============================================================================
