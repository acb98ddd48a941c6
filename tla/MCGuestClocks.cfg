SPECIFICATION ExitSpec
CONSTANTS
  SourceSets <- SomeSources
  NANOS = 12
  PM_HZ = 5
  PM_WRAP = 8
  REF_NS = 3
  TSC_HZ = 9
  HostCpus <- SomeCpus
  MHZ = 3
  FALLBACK_HZ = 10
  TSC_BOOT = {0, 11}
  WORD = 128
  MaxNow = 30
  MaxWall = 4
  MaxPit = 1
  HALF = 8
  Halves = {0, 5, 6}
  Uppers = {0, 6}
  PagesInRam <- SomePages
  Msrs <- SomeMsrs
  Leaves = {"0x40000000", "0x40000003", "0x40000004"}
  Ports = {"43", "0x70", "0xCF8", "0xCFC", "0x608"}
  PortSizes = {2, 4}
CHECK_DEADLOCK FALSE
INVARIANTS
  
  ExitsComplete
