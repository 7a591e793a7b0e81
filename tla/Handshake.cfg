SPECIFICATION FairSpec
CONSTANTS
  Greetings <- MCGreetings
  Acceptances <- MCAcceptances
  Refusals <- MCRefusals
  Notices <- MCNotices
INVARIANTS
  StartsOnBoundary
  OkMeansAccepted
PROPERTY HandshakeEnds
CHECK_DEADLOCK FALSE
