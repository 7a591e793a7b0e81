SPECIFICATION TimerSpec
CONSTANTS
  ReaderTick = 2
  Budget = 2
  PerMs = 2
  MaxBatch = 2
  MaxTime = 14
  Durations = {0, 1, 3, 6}
INVARIANTS
  NoFalseExpiry
  DetectedInTime
CHECK_DEADLOCK FALSE
