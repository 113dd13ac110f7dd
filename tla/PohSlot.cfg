SPECIFICATION Spec
CONSTANTS
  HashesPerTick = 13
  TicksPerSlot = 4
  HashesPerBatch = 4
  Capacity = 4
  MaxBatches = 4
INVARIANT SentIsRecorded
PROPERTY SlotsEnd
CHECK_DEADLOCK FALSE
