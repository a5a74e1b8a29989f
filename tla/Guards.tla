-------------------------------- MODULE Guards --------------------------------
(***************************************************************************)
(* The guards a command passes on its way, together: what a request may be *)
(* (CommandDispatch, which this extends), how many there may be, whether   *)
(* the provider or the shell is asked at all, and the counter and the      *)
(* alerts that watch.  The four that keep time share the clock and nothing *)
(* else.                                                                   *)
(***************************************************************************)
EXTENDS CommandDispatch, Sequences

CONSTANTS Sessions, Nobody,
          SentTypes, MaxCommands, MaxGlobal, MaxResponses, RateWindow, Lifetime,  \* rates
          RateTime, MaxGeneration,
          Calls, Providers, Global, Threshold, SuccessThreshold, HalfOpenMaxCalls, \* breakers
          FailureWindow, RecoveryTimeout, StaleTimeout, BreakerTime,
          Keys, Limit, MaxKeys, CounterWindow, CounterTime, MaxOrder,             \* counter
          Levels, Clears, MaxStates, RealertAfter, AlertTime                      \* alerts

VARIABLES now,
          charges, live, createdAt, born, ran,         \* of the rates
          breaker, running, orphans, tests,            \* of the circuit breakers
          entry, orderCounter, recorded,                      \* of the counter
          states, level, sounded                       \* of the alerts

rateVars == <<charges, live, createdAt, born, ran>>
breakerVars == <<breaker, running, orphans, tests>>
counterVars == <<entry, orderCounter, recorded>>
alertVars == <<states, level, sounded>>
timed == <<now, rateVars, breakerVars, counterVars, alertVars>>

Rates == INSTANCE ResourceGovernor WITH
  NoSession <- Nobody, Types <- SentTypes, Window <- RateWindow, MaxTime <- RateTime
Breakers == INSTANCE CircuitBreakers WITH Nothing <- Nobody, MaxTime <- BreakerTime
Counter == INSTANCE BoundedCounter WITH
  MaxSize <- MaxKeys, Window <- CounterWindow, MaxTime <- CounterTime
Alerts == INSTANCE ThresholdAlerts WITH MaxTime <- AlertTime

ASSUME GuardsAssumption ==
  /\ Rates!GovernorAssumption /\ Rates!ClassificationSound /\ Breakers!BreakerAssumption
  /\ Counter!CounterAssumption /\ Alerts!AlertAssumption
-----------------------------------------------------------------------------
\* Commands and dialog responses keep to their limits in every window, what is refused costs
\* nothing, and sessions expire by their own age (ResourceGovernor).
WithinLimits == Rates!WithinLimits

\* Circuits open when they should, test within bounds, and find a way back (CircuitBreakers).
CircuitsDecide == Breakers!CircuitsDecide

\* The counter forgets neither keys nor times too early (BoundedCounter).
CounterExact == Counter!CounterExact

\* Alerts are heard, although few metrics are remembered (ThresholdAlerts).
AlertsHeard == Alerts!AlertsHeard
=============================================================================
