SPECIFICATION MCSpec
CONSTANTS
  Session = {1, 2, 3}
  Thread = {t1, t2}
  Life = 1
  RenewalLife = 2
  MaxLogins = 1
  MaxAttempts = 2
SYMMETRY Symmetry
INVARIANTS
  TypesOK
  GoneForGood
  OneHolder
  StraysComeOfInterruption
  GuessesAreBounded
  OneAtATime
PROPERTIES
  KeepsLinesAlive
CHECK_DEADLOCK FALSE
