SPECIFICATION Spec
CONSTANTS
  v = v  m = m  a = a
  dated = dated  live = live
  Ind = {v, m, a}
  Date <- Dates
  Label = {"1A"}
  Graph = {dated, live}
  Mutable = {live}
  Batches <- RelatingBatches
INVARIANT StoredMembershipsConform
CHECK_DEADLOCK FALSE
