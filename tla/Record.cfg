SPECIFICATION FairSpec
CONSTANTS
  t1 = t1
  t2 = t2
  Threads = {t1, t2}
  Radix = 3
  MaxBankId = 2
  Plan <- TwoAndOne
INVARIANTS NeverFails IndexesFollowOrder
PROPERTIES KeepsPromise MessagesAreHandled
