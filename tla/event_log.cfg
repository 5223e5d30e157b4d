SPECIFICATION Spec
CONSTANTS
  k1 = k1  k2 = k2  http = http
  Kinds = {k1, k2}
  Series = {http}
  SeriesOf <- MCSeriesOf
  Hour = 2
  Window = 1
  Retention = 1
  MaxRows = 1
  MaxPending = 2
  PageLimit = 1
  MaxTime = 2
  MaxEvents = 3
  MaxErrors = 1
  MaxStarts = 2
  Faults = {"crash", "db_error"}
SYMMETRY KindsAlike
INVARIANT TypeOK
INVARIANT RowsOfOneKind
INVARIANT DropsAreReported
INVARIANT TailMissesNothing
PROPERTY ImplementsTotals
CHECK_DEADLOCK FALSE
