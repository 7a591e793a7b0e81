SPECIFICATION ReexecFairSpec
CONSTANTS
  N <- MCN
  HdrLen <- MCHdrLen
  BodyLen <- MCBodyLen
  Start <- MCStart
  Newlines <- MCNewlines
  Corrupt = {}
  NotUtf8 = {4}
  ReadSize = 3
  MsgLimit = 4
  BufLimit = 8
  Callers = {c1, c2}
  DrainTimeout = 2
  Margin = 1
  MaxAdoptions = 1
INVARIANTS
  FramesExact
  NothingHeldBack
  ResidualOnBoundary
  NoSpuriousFailure
  OneTeardown
  TeardownReported
PROPERTIES
  ImplementsFraming
  HandsOffSocket
  TeardownSettles
CHECK_DEADLOCK FALSE
