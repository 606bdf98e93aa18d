-------------------------- MODULE MCCircuitBreaker --------------------------
(* TLC instance of CircuitBreaker: a few goroutines, thresholds and cooldowns *)
(* just large enough for a failure to be counted without tripping and for    *)
(* time to pass inside a cooldown.                                           *)
EXTENDS CircuitBreaker, TLC

Symmetry == Permutations(Threads)
=============================================================================
