-------------------------- MODULE MCCircuitBreaker --------------------------
(* Instances of CircuitBreaker for TLC.                                    *)
EXTENDS CircuitBreaker, TLC

\* Requests and upstreams are interchangeable.
Symmetry == Permutations(Requests) \cup Permutations(Upstreams)

=============================================================================
