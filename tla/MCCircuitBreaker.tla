-------------------------- MODULE MCCircuitBreaker --------------------------
(* Small breakers: a threshold of two so that one failure is not a trip, a  *)
(* window longer than the recovery time as in the code, and more calls than *)
(* the breaker admits as probes.                                            *)
EXTENDS CircuitBreaker

CONSTANTS c1, c2, c3

ThreeCalls == {c1, c2, c3}
=============================================================================
