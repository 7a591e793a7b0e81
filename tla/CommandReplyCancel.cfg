SPECIFICATION CancelSpec
CONSTANTS
  Tasks = {t1, t2}
  Commands = {c1, c2}
  NoTask = NoTask
  NoCommand = NoCommand
INVARIANT ReplyCorrelation
