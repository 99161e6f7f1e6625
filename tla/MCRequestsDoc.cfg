SPECIFICATION MCSpec
CONSTANTS
  Request = {r1, r2, r3}
  Probe = {p}
  MaxConnections = 3
INVARIANTS
  SilenceIsTheSites
CHECK_DEADLOCK FALSE
