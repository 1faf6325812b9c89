SPECIFICATION Spec
CONSTANTS
  Meta = Meta  None = None
  Window = {1, 2}  Run = {1, 2, 3}  File = {1, 2, 3, 4}
  Figures <- MCFigures  Names <- MCNames
  Delivery <- Deliveries
  MaxFaults = 3
INVARIANT RollbackRestores
INVARIANT LoadedMeansStored
INVARIANT OneRunPerWindow
PROPERTY WholeGraphs
PROPERTY MetadataLast
