CONSTANTS
  MEM_32BIT_DEVICES_START = 805306368
  PCI_MMCONFIG_START = 973078528
  PCI_MMCONFIG_SIZE = 67108864
  VIRTIO_MMIO_START = 1068236800
  VIRTIO_MMIO_SIZE_PER_DEVICE = 1024
  IOAPIC_START = 1068498944
  IOAPIC_SIZE = 1024
  MEM_32BIT_RESERVED_START = 1068498944
  RAM_64BIT_START = 1073741824
  Memories <- SomeMemories
  Probes <- SomeProbes
  Sizes = {0, 1, 2, 4}
  BOOT_GDT_START = 320
  GDT_SIZE = 8
  ZERO_PAGE_START = 7168
  BOOT_STACK_START = 8192
  BOOT_STACK_POINTER = 9212
  PML4_START = 10240
  CMDLINE_START = 32768
  CMDLINE_SIZE = 32
  RSDP_POINTER = 229376
  RSDP_SIZE = 9
  HIGH_RAM_START = 262144
  PAGE_SIZE = 1024
  GIB = 268435456
  ENTRY_OFFSET = 128
  SDT_UNIT = 4
  MEM_32BIT_DEVICES_SIZE = 167772160
  PCI_MMIO_CONFIG_SIZE_PER_SEGMENT = 262144
  Cpus = 1
  DsdtLength = 603
  Kernels <- SomeKernels
  Workers = {"virtio_block", "virtio_console"}
CHECK_DEADLOCK FALSE
SPECIFICATION LifeSpec
INVARIANTS
  LayoutIsSound
  
  
  
  MemoryOutlivesItsUsers
  NothingLeftBehind
PROPERTIES
  CancelEndsMain
