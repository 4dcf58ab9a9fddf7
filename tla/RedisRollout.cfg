SPECIFICATION RateLimitSpec
CONSTANTS
  Keys = {k1}
  Policies <- TwoPolicies
  NoBucket = NoBucket
  MaxBuckets = 2
  CleanupInterval = 5
  MaxTime = 2
  Checks = {c1, c2}
  NoEntry = NoEntry
  NoCall = NoCall
  ReplicaKeys = {h1}
  ReplicaPolicies <- Rollout
SYMMETRY Symmetry
INVARIANT OneLimitAcrossReplicas
