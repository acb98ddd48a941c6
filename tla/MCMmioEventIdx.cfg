SPECIFICATION Spec
CONSTANTS
  NumQueues = 1
  Sizes = {0, 2}
  Offered <- MCOffered
  AckWords <- MCAckWords
  EventIdx <- MCEventIdx
  SectorBytes = 4
  ImageSizes <- MCImageSizes
INVARIANTS
  EventIdxIsNegotiated
