SPECIFICATION Spec
CONSTANTS
  Greetings <- MCGreetings
  Acceptances <- MCAcceptances
  Refusals <- MCRefusals
  Notices <- MCNotices
INVARIANT AuthenticatedMeansAccepted
CHECK_DEADLOCK FALSE
