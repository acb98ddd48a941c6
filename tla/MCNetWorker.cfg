SPECIFICATION FairSpec
CONSTANTS
  FrameKinds = {"ok", "zero", "big"}
  BufferKinds = {"ok", "small", "bad"}
  ChainKinds = {"frame", "short", "bad"}
  MaxFrames = 2
  MaxPosts = 1
  MaxChains = 1
  MaxCycles = 2
  PipeSize = 1
  BATCH_SIZE = 2
  MayFail = TRUE
CHECK_DEADLOCK FALSE
INVARIANTS
  EachFrameInOnePlace
  
  OnlyRequeuedAreOvertaken
  PidFileMeansReady
PROPERTIES
  NobodyWaitsInACircle
