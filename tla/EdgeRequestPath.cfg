SPECIFICATION FairSpec
CONSTANTS
  Requests = {r1, r2}
  MaxInFlight = 2
  MaxBody = 1
  ChunkSizes = {}
  Versions = {v1, v2}
  Unbuildable = {v2}
  NoVersion = NoVersion
  Upstreams = {u1, u2}
  FailureThreshold = 1
  OpenDuration = 1
  MaximumUpstreams = 1
  UpstreamTimeout = 2
  NoPermit = NoPermit
  MaxTime = 4
INVARIANT
  PermitsMatchFetches
PROPERTY HalfOpenIsDecided
CHECK_DEADLOCK FALSE
