SPECIFICATION Spec
CONSTANTS
  Folder <- MCFolder
  First <- MCFirst
  Null = Null
  Unit = 4
  Compounded = "P2"
  MaxDeliveries = 1
  MaxCommands = 2
  MaxFaults = 1
INVARIANTS ParsedConforms
PROPERTIES DoneMeansPublished RepeatIsSafe
CHECK_DEADLOCK FALSE
