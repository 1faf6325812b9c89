SPECIFICATION ClientSpec
CONSTANTS
  m = m  a = a  v = v  s1 = s1  s2 = s2  s3 = s3
  dated = dated  live = live
  c1 = c1  c2 = c2
  Ind = {m, a, s1, s2, s3}
  Date <- Dates
  Label = {"1A", "7"}
  Graph = {dated, live}
  Mutable = {live}
  Client = {c1, c2}
  NoBatch = NoBatch
  MaxStrays = 1
  Careful = TRUE
  Batches <- CarefulBatches
INVARIANTS
  RestatementChains
PROPERTIES
  Serializable
  EveryIngestEnds
CHECK_DEADLOCK FALSE
