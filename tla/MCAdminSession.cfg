SPECIFICATION OtpSpec
CONSTANTS
  Call = {c1, c2}
  MaxSessions = 3
  MaxRefusals = 2
INVARIANTS
  TypeOK
  OtpTypeOK
  LoginsAreBounded
  PinIsNotOutdated
PROPERTIES
  EveryCallEnds
