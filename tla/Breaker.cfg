SPECIFICATION Spec
CONSTANTS
  Upstreams = {u1, u2, u3}
  Requests = {r1, r2, r3}
  FailureThreshold = 2
  OpenDuration = 2
  MaximumUpstreams = 2
  UpstreamTimeout = 1
  MaxTime = 4
  NoPermit = NoPermit
SYMMETRY Symmetry
INVARIANTS
  HalfOpenHasProbe
  GaugeCountsUnavailable
  RetainedWithinBound
  OpensOnlyAfterFailures
  ProbeIsAlone
PROPERTY RecoversOnlyBySuccess
