SPECIFICATION RetrySpec
CONSTANTS
  Meta = Meta  None = None
  Window = {1, 2}  Run = {1, 2, 3}  File = {1, 2, 3, 4}
  Figures <- MCFigures  Names <- MCNames
  Delivery <- FullDelivery
  MaxFaults = 3
PROPERTY RetryLoads
CHECK_DEADLOCK FALSE
