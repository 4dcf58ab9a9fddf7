SPECIFICATION FairControlSpec
CONSTANTS
  Subscribers = {s1, s2}
  NoSubscriber = NoSubscriber
  MaxPublications = 3
  Contents = {p1, p2, broken}
  Valid = {p1, p2}
  Missing = Missing
  NoPolicy = NoPolicy
  KeyMayFail = TRUE
  MaxEdits = 2
  Keygens = {k1, k2}
  NoKeygen = NoKeygen
INVARIANTS
  NewestReachesEveryone
  SendsToOpenChannels
  PairMatches
PROPERTIES
  ImplementsLatestValue
  PolicyReachesClients
  ServeEnds
CHECK_DEADLOCK FALSE
