SPECIFICATION Spec
CONSTANTS
  f1 = f1  f2 = f2  t1 = t1  t2 = t2
  Row <- Rows
  Lane <- Lanes
  LaneOf <- LaneOfRow
  Avail <- Availability
  FirstRows <- Computed
  Edits <- SomeEdits
  QuarterLength = 2
  MaxDay = 2
  Cap = 1
  MaxChanges = 3
  MaxFaults = 1
INVARIANTS
  OnlyLatecomersAreLost
PROPERTIES
  OneGraphPerSnapshot
  LateKeysAreKept
  RowsSettle
CHECK_DEADLOCK FALSE
