-------------------------- MODULE MCCircuitBreaker --------------------------
(* Small instances of CircuitBreaker for TLC.                              *)
EXTENDS CircuitBreakerProofs, TLC

Symmetry == Permutations(Callers)
=============================================================================
