SPECIFICATION Spec
CONSTANTS
  LastSlot = 3
  Window = 2
  DELTA_TIMEOUT = 3
  DELTA_BLOCK = 2
  IDLE = 1
  TimerSlots <- FirstAndMiddle
  MaxTime = 8
  MaxIdentities = 1
INVARIANTS HeapMatchesTimers WindowRunsDown OnTime
CHECK_DEADLOCK FALSE
