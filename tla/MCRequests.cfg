SPECIFICATION MCSpec
CONSTANTS
  Request = {r1, r2, r3}
  Probe = {p}
  MaxConnections = 3
INVARIANTS
  TypesOK
  RefusedUserSignsInAgain
  SignInAgainIsJustified
  SentOnceOnlyStorageFails
  OptionalCallsFailNothing
  RefusalsLeaveNothing
  CarriedOutOnce
  FullOnlyOfStreams
PROPERTIES
  EveryRequestEnds
CHECK_DEADLOCK FALSE
