SPECIFICATION Spec
CONSTANTS
  SwitchBackThreshold = 2
  MainDownThreshold = 3
  Pod = {p1, p2}
  MainAnswer = {"none", "unknown", "normal", "secondary", "read_only"}
  StandbyAnswer = {"none", "unknown", "secondary", "standalone"}
  MaxChanges = 2
  MaxRestarts = 1
INVARIANTS
  TypeOK
  SettledPodsFollowTheSites
PROPERTIES
  PodsConverge
