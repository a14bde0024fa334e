SPECIFICATION StartupSpec
CONSTANTS
  Names = {1, 2, 3, 4}
  Paths = {p1, p2}
  Malformed = Malformed
  Empty = Empty
  Alloc = 3
  AllocFails = TRUE
  Http = 3
  Cli = 1
  NoPath = NoPath
INVARIANTS TypeOK SortedTable StartupTypeOK OwnDaemonOnly
PROPERTY ImplementsNameMap
SYMMETRY Symmetry
CHECK_DEADLOCK FALSE
