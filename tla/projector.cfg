SPECIFICATION Spec
CONSTANTS
  A = A
  B = B
  Slot = {A, B}
  Null = Null
  Cash = Cash
  Label <- MCLabel
  Arm <- MCArm
  GuardLayer <- MCGuardLayer
  BasingPoints = {"L1_BP"}
  ScoreType <- MCScoreType
  SelectionRule <- MCSelectionRule
  Universe <- MCUniverse
  Reference <- MCReference
  Delivery <- MCDelivery
  Later <- MCLater
  CommandLine <- MCCommandLine
  Markowitz = {"MARKOWITZ"}
  MaxCommands = 2
  MaxDeliveries = 1
INVARIANTS
  OneIndividualPerRow
  LinksStayInGraph
  LinksResolve
  AlreadyMeansEarlier
PROPERTIES
  DoneMeansStored
  FreshGraphsVerify
CHECK_DEADLOCK FALSE
