SPECIFICATION Spec
CONSTANTS
  NumPins = 2
  Vectors <- MCVectors
  Dests = {0}
  RegWords = {0}
  VectorOf <- MCVectorOf
  Levels = {TRUE}
PROPERTIES
  RedeliversOnlyWhenReported
