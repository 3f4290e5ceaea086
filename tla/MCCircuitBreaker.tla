-------------------------- MODULE MCCircuitBreaker --------------------------
(* The circuit breaker with three concurrent callers of Execute.          *)
EXTENDS CircuitBreaker

CONSTANTS c1, c2, c3

MCCallers == {c1, c2, c3}

=============================================================================
