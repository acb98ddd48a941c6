SPECIFICATION FairSpec
CONSTANTS
  Wrap = 4
  Size = 2
  BadHeads = {1}
  MaxBatch = 3
INVARIANTS
  EachChainInOnePlace
  NoLostKick
  NoLostInterrupt
PROPERTIES
  ChannelSpec
