SPECIFICATION AccessSpec
CONSTANTS
  NumPins = 2
  Vectors <- MCVectors
  Dests <- MCDests
  RegWords <- MCRegWords
INVARIANTS
  IInv
PROPERTIES
  AssertionNotLost
  EoiRedelivery
  WriteBackKeepsRemoteIrr
