SPECIFICATION Spec
CONSTANTS
  Upstreams = {u1}
  Requests = {r1, r2, r3}
  FailureThreshold = 1
  OpenDuration = 1
  MaximumUpstreams = 1
  UpstreamTimeout = 2
  MaxTime = 4
  NoPermit = NoPermit
INVARIANT ExactlyOneProbe
