SPECIFICATION Spec
CONSTANTS
  Customer = {a, b}
  Coroutine = {k1, k2, k3}
  Lock = {1, 2, 3, 4, 5, 6}
  RowCount = {2}
  MaxRows = 2
INVARIANTS
  TypeOK
  RefreshIsReferenced
PROPERTIES
  EveryReaderEnds
