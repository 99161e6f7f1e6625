SPECIFICATION Spec
CONSTANTS
  SwitchBackThreshold = 1
  MainDownThreshold = 1
  Pod = {p1, p2}
  MainAnswer = {"none", "read_only", "normal"}
  StandbyAnswer = {"secondary"}
  MaxChanges = 1
  MaxRestarts = 0
PROPERTIES
  PodsEventuallyAgree
