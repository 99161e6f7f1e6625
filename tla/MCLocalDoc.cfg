SPECIFICATION MCSpec
CONSTANTS
  Session = {1, 2, 3}
  Thread = {t1, t2}
  Life = 1
  RenewalLife = 2
  MaxLogins = 1
  MaxAttempts = 2
INVARIANTS
  ExpiredIsRefused
CHECK_DEADLOCK FALSE
