SPECIFICATION FairSpec
CONSTANTS
  Tasks = {1, 2, 3, 4, 5}
  Sessions <- FourTasks
  Accounts = {a1, a2}
  MaxRunning = 2
  NoCap = NoCap
  MaxActive = 3
  Hash <- TwinHashes
INVARIANTS MutualExclusion NoDeadlock NoAssertFails CapIsExact
PROPERTIES PriorityRespected EveryTaskFinishes
