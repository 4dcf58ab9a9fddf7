SPECIFICATION RateLimitSpec
CONSTANTS
  Keys = {k1, k2, k3}
  Policies <- TwoPolicies
  NoBucket = NoBucket
  MaxBuckets = 2
  CleanupInterval = 5
  MaxTime = 6
  Checks = {c1, c2, c3}
  NoEntry = NoEntry
  NoCall = NoCall
  ReplicaKeys = {h1}
  ReplicaPolicies <- OnePolicy
SYMMETRY Symmetry
INVARIANTS
  LimitHolds
  OneLimitAcrossReplicas
PROPERTIES
  CapacityIsExact
  LimitedOnlyWhenSpent
