SPECIFICATION Spec
CONSTANTS
  Expect <- MCExpect
  Floor = 18
  ForbiddenCycleTypes <- MCCycleTypes
  Null = Null
  Junk = Junk
  Unit = 100
  FirstRows <- MCFirstRows
  Edits <- MCEdits
  MaxEdits = 2
INVARIANTS CascadeIsLeast WholeSelections
PROPERTIES LateKeysAreFound
CHECK_DEADLOCK FALSE
