SPECIFICATION MCSpec
CONSTANTS
  Customer = {a, b, d}
  Coroutine = {r1, r2}
  Lock = {1, 2, 3, 4, 5, 6}
  TTL = 2
  RetryAfter = 1
  ReadTimeout = 1
  CacheMax = 2
  CountersMax = 1
  RowCount = {0, 1, 2}
  MaxRows = 3
  Row = {v, w, x, y, z}
  Address = {v, w}
  PageSize = 2
  LookupMaxRows = 4
  MaxItems = 3
  MaxChanges = 1
SYMMETRY Symmetry
INVARIANTS
  TablesOK
  OldOnlyBehindFailure
  LockTableIsBounded
  OverBudgetOnlyBehindEmptyEntry
  MissedForThoseWhoLeft
  ListsAreWhole
PROPERTIES
  LeftAloneAfterFailure
  StalestGoesFirst
  NoConfidentZero
CHECK_DEADLOCK FALSE
