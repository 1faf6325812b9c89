SPECIFICATION MCSpec
CONSTANTS
  Symbol = {"A", "B"}
  Reference = {"A"}
  Cik = {"c1", "c2"}
  NoCik = NoCik
  LastDay = 3
  MaxRows = 3
  Line <- MCLine
  Since = 1
  FirstOfNext = 3
  Run = {r1,r2}
SYMMETRY Symmetry
INVARIANTS SilenceMeansInSync CatalogTimeline OpenMembershipsHaveCik FreshDeltasLand
PROPERTIES RepeatIsEmpty
CHECK_DEADLOCK FALSE
