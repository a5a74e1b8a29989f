-------------------------- MODULE MCCircuitBreakers --------------------------
(* Two sessions run bash commands, two at a time; one failure opens the circuit of a *)
(* session, two within the window open the global one.                               *)
EXTENDS CircuitBreakers

MCThreshold == [b \in {"s1", "s2", "g"} |-> IF b = "g" THEN 2 ELSE 1]
=============================================================================
