SPECIFICATION Spec
CONSTANTS
  LastSlot = 1
  Window = 2
  Parent <- OneSlot
  RootBlock <- Genesis
  MayFail = TRUE
  MaxBacklog = 1
  MaxCrashes = 2
INVARIANT NoEquivocation
CHECK_DEADLOCK FALSE
