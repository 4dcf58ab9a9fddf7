--------------------------- MODULE MCRateLimiting ---------------------------
(* RateLimiting with two policies in memory whose windows do not divide,   *)
(* and with one policy, or two in a rollout, at the replicas.              *)
EXTENDS RateLimiting, TLC

TwoPolicies ==
  {[requests |-> 2, window |-> 3], [requests |-> 1, window |-> 2]}

OnePolicy == {[requests |-> 2, window |-> 3]}

Rollout == {[requests |-> 1, window |-> 3], [requests |-> 2, window |-> 3]}

\* Keys and checks are interchangeable.
Symmetry == Permutations(Keys) \cup Permutations(Checks)

=============================================================================
