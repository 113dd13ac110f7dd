SPECIFICATION Spec
CONSTANTS
  v1 = v1
  v2 = v2
  v3 = v3
  Validators = {v1, v2, v3}
  Me = v1
  Stake <- TwoTwoOne
  Hashes = {1, 2}
  Window = 2
  RootHash = 1
  LastSlot = 4
  MyWindows = {2, 4}
  Traffics <- VotesAndCertificates
INVARIANTS CertificatesAreExact FallbacksAreExact StandstillSuffices TracksTheCondition
PROPERTY EventsAreExact
CHECK_DEADLOCK FALSE
