-------------------------- MODULE MCCircuitBreaker --------------------------
(***************************************************************************)
(* CircuitBreaker with the small sets its configurations name.  Callers    *)
(* are model values; they are interchangeable in a run of an invariant.    *)
(***************************************************************************)
EXTENDS CircuitBreakerProps, TLC

CallerSymmetry == Permutations(Callers)
=============================================================================
