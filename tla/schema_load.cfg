SPECIFICATION Spec
CONSTANTS
  tbox = tbox  current = current  retired = retired  other = other
  x1 = x1  x2 = x2
  Graph = {tbox, current, retired, other}
  Statement = {x1, x2}
  Version = {1, 2}
  Files <- SchemaFiles
  Appendable = {current, other}
PROPERTIES
  OneReplacement
  VerifiedMeansLoaded
