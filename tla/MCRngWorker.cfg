SPECIFICATION RngSpec
CONSTANTS
  NumPins = 2
  Vectors <- MCVectors
  Dests = {0}
  RegWords = {0}
  VectorOf <- MCVectorOf
  Levels = {TRUE, FALSE}
  Requests = {1}
  Bad = {1}
INVARIANTS
  NoPinFallsSilent
  RequestsAreKept

  
  
