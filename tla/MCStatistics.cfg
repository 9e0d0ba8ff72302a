SPECIFICATION MCSpec
CONSTANTS
  Pages = 3
  KPerPage = 32
  UserMax = 3
  AdminMax = 2
  ReserveArgs = {0, 1, 200}
  MaxMoves = 2
  Tasks = {p1, p2}
  Amounts = {1, 2}
  MaxCounted = 3
  Unset = Unset
SYMMETRY OrderOfTasks
INVARIANTS SnapshotIsOffByMoves ReservesAreThere RatesAreOfTheirTime
CHECK_DEADLOCK FALSE
