SPECIFICATION OtpSpec
CONSTANTS
  Call = {c1, c2}
  MaxSessions = 2
  MaxRefusals = 2
INVARIANTS
  PinnedToIssuer
