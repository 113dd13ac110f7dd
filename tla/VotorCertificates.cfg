SPECIFICATION CertificatesSpec
CONSTANTS
  LastSlot = 1
  Window = 2
  Parent <- OneSlot
  RootBlock <- Genesis
  MayFail = FALSE
  MaxBacklog = 1
  MaxCrashes = 1
INVARIANT CertifiedVotesStand
CHECK_DEADLOCK FALSE
