SPECIFICATION FairSpec
CONSTANTS
  p1 = p1  p2 = p2  p3 = p3  k1 = k1  k2 = k2
  Policies = {p1, p2, p3}
  Unreadable = {p3}
  Keys = {k1, k2}
  TrustedKeys = {k1}
  Releases <- MCReleases
  NoVersion = NoVersion
  NoSnapshot = NoSnapshot
  NoTask = NoTask
  MaxPublications = 3
INVARIANTS
  SnapshotIsGenuine
  StoppedIsQuiet
PROPERTIES
  NeverOlder
  StopEnds
  Converges
CHECK_DEADLOCK FALSE
