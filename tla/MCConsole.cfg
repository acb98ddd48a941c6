SPECIFICATION FairSpec
CONSTANTS
  Keys <- SomeKeys
  Outputs <- SomeOutputs
  Buffers <- SomeBuffers
  MaxKeys = 1
  MaxChains = 1
  MaxPosts = 2
  MaxQueries = 1
  Alphabet = {"E", "[", "6", "n", "R"}
  MaxLen = 7
CHECK_DEADLOCK FALSE
INVARIANTS
  InputIsKept
  FiltersAreExact
PROPERTIES
  DroppedOnlyWithoutBuffer
  TypingIsHeard
