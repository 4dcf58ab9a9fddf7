SPECIFICATION FairProcessSpec
CONSTANTS
  Requests = {r1, r2, r3}
  MaxInFlight = 2
  MaxBody = 1
  ChunkSizes = {1, 2}
  Versions = {v1, v2}
  Unbuildable = {v2}
  NoVersion = NoVersion
INVARIANTS
  GateIsExact
  BodiesWithinBudget
  DecidedByItsSnapshot
  AuditedOnce
  DependenciesOutliveRequests
  SuccessMeansDrained
  ReadyMeansServing
  NothingKeepsItAlive
PROPERTY ShutdownEnds
CHECK_DEADLOCK FALSE
