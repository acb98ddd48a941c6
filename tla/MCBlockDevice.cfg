SPECIFICATION FairSpec
CONSTANTS
  Offered <- SomeOffered
  MaxRequests = 3
  Tables <- SomeTables
  QueueSize = 4
  BufferSize = 4
  SECTOR_SIZE = 2
  NSectors = 2
  HEADER_BYTES = 2
  SEGMENT_BYTES = 1
  ID_BYTES = 3
  USIZE = 16
  WORD_BITS = 2
  PAGE_SIZE = 2
  USIZE_MAX = 31
  ISIZE_MAX = 15
  U32_MAX = 3
  GUEST_MAX = 9
CHECK_DEADLOCK FALSE
INVARIANTS
  
  WritesAreDurable
  ChainsAreWalkedWhole
  SlicesAreExact
  
PROPERTIES
  EveryRequestAnswered
