SPECIFICATION QuietSpec
CONSTANTS
  Tasks = {t1}
  Commands = {c1, c2}
  NoTask = NoTask
  NoCommand = NoCommand
INVARIANT NoneInFlight
CHECK_DEADLOCK FALSE
