SPECIFICATION FairLoopSpec
CONSTANTS
  LastSlot = 3
  Window = 2
  Parent <- OneWindow
  RootBlock <- Root
  MayFail = FALSE
  MaxBacklog = 0
INVARIANTS AssertsHold WindowsAreChained NoVoteIsForgotten
PROPERTIES RootingIsSound EveryWindowIsVoted
CHECK_DEADLOCK FALSE
