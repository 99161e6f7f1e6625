SPECIFICATION Spec
CONSTANTS
  SwitchBackThreshold = 2
  MainDownThreshold = 3
  Request = {r1, r2}
  MainAnswer = {"none", "unknown", "normal", "secondary", "read_only", "standalone"}
  StandbyAnswer = {"none", "unknown", "normal", "secondary", "read_only", "standalone"}
SYMMETRY RequestSymmetry
INVARIANTS
  TypeOK
  TakenOnce
PROPERTIES
  LeavesMainOnEvidence
  ReturnsOnEvidence
