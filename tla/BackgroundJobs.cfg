SPECIFICATION JobsSpec
CONSTANTS
  Capacity = 1
  BlockFor = TRUE
  MaxItems = 3
  Jobs = {j1, j2}
  MaxDisturbed = 1
INVARIANTS
  Conservation
  LossAnnounced
  StatusBeforeNone
  PendingAccounted
PROPERTIES
  DispatchEnds
  StopWins
  EndPublished
  ResultsComplete
  BgapiEnds
CHECK_DEADLOCK FALSE
