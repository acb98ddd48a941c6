----------------------------- MODULE GuestMemory ----------------------------
(***************************************************************************)
(* The guest-physical address space: RAM as Partition allocates it         *)
(* (src/partition.rs), the MMIO regions and handlers that                  *)
(* src/device_manager.rs registers over the holes of src/memory/layout.rs, *)
(* the accesses of the VMM (src/memory/memory.rs) and those of the guest   *)
(* that exit to the emulator (src/emulator.rs, src/vm.rs).                 *)
(*                                                                         *)
(* Addresses and sizes are in bytes, or in a unit that divides every       *)
(* address and size of the layout; ranges are half open.  The regions are  *)
(* a Vec that is searched for the first match; they are a set here, and    *)
(* the searches return every match, of which Disjoint says there is at     *)
(* most one.                                                               *)
(* Host memory is one allocation, whose offsets stand for host addresses.  *)
(*                                                                         *)
(* An operator named X_<fault> is a deliberately faulty variant of X that  *)
(* no specification uses: some property must tell it apart from X.         *)
(***************************************************************************)
EXTENDS Integers, FiniteSets

CONSTANTS MEM_32BIT_DEVICES_START, PCI_MMCONFIG_START, PCI_MMCONFIG_SIZE,
          VIRTIO_MMIO_START, VIRTIO_MMIO_SIZE_PER_DEVICE,
          IOAPIC_START, IOAPIC_SIZE, MEM_32BIT_RESERVED_START, RAM_64BIT_START,
          Memories, \* the sizes MEMORY_GB can ask for
          Probes,   \* addresses the properties look at
          Sizes     \* sizes of accesses

\* The layout: devices below 4 GiB in this order.  Memory comes in whole
\* gigabytes, so no size ends between the device area and the reserved area.
ASSUME LayoutAssumption ==
  /\ {MEM_32BIT_DEVICES_START, PCI_MMCONFIG_SIZE, VIRTIO_MMIO_SIZE_PER_DEVICE, IOAPIC_SIZE}
       \subseteq Nat \ {0}
  /\ {PCI_MMCONFIG_START, VIRTIO_MMIO_START, IOAPIC_START, MEM_32BIT_RESERVED_START,
      RAM_64BIT_START} \subseteq Nat
  /\ MEM_32BIT_DEVICES_START <= PCI_MMCONFIG_START
  /\ PCI_MMCONFIG_START + PCI_MMCONFIG_SIZE <= VIRTIO_MMIO_START
  /\ VIRTIO_MMIO_START + 4 * VIRTIO_MMIO_SIZE_PER_DEVICE <= IOAPIC_START
  /\ IOAPIC_START = MEM_32BIT_RESERVED_START
  /\ IOAPIC_START + IOAPIC_SIZE <= RAM_64BIT_START
  /\ Memories \subseteq Nat \ {0}
  /\ \A m \in Memories : m <= MEM_32BIT_DEVICES_START \/ m > MEM_32BIT_RESERVED_START
  /\ Probes \subseteq Nat /\ Sizes \subseteq Nat

\* RAM begins and ends on pages, hence on multiples of the widest atomic.
ASSUME AlignmentAssumption ==
  \A a \in Memories \union {MEM_32BIT_DEVICES_START, RAM_64BIT_START} : a % 8 = 0

VARIABLES step,          \* the step of main that comes next
          total,         \* memory_size
          regions,       \* RAM: gpa, size, and the host offset hpa
          mapped,        \* external: the same, as the hypervisor maps it
          mmio_regions,  \* gpa, size, handler
          mmio_handlers, \* name -> handler, of which the interrupt line is kept
          virtio_mmio_devices, \* what ACPI will advertise: name, uid, gpa, size, irq
          access         \* the last access: what, where, and the host range it touched

registry == <<mmio_regions, mmio_handlers, virtio_mmio_devices>>
vars == <<step, total, regions, mapped, registry, access>>

Region(gpa, size, hpa) == [gpa |-> gpa, size |-> size, hpa |-> hpa]
last_addr(r) == r.gpa + r.size - 1

\* What an operation that is refused touches.
Nothing == <<0, 0>>
NoAccess == [op |-> "none", addr |-> 0, size |-> 0, ok |-> TRUE, host |-> Nothing]

-----------------------------------------------------------------------------
(* allocate_memory_with_size. *)

\* One region, or a low one below the devices and the rest from 4 GiB on.
RamLayout(m) ==
  IF m <= MEM_32BIT_RESERVED_START THEN {Region(0, m, 0)}
  ELSE {Region(0, MEM_32BIT_DEVICES_START, 0),
        Region(RAM_64BIT_START, m - MEM_32BIT_DEVICES_START, MEM_32BIT_DEVICES_START)}

Mapped_OneBlock(r) == [r EXCEPT !.hpa = 0]

\* The range that WHvMapGpaRange is called with for a region.
Mapped(r) == r

\* Regions are mapped, and registered, one after the other in address order; a
\* failing VirtualAlloc or WHvMapGpaRange ends the start.
allocate_memory_with_size ==
  /\ step = "allocate"
  /\ \E n \in 0 .. Cardinality(RamLayout(total)) :
       LET done == {r \in RamLayout(total) : n = 2 \/ (n = 1 /\ r.gpa = 0)}
       IN  /\ regions' = done
           /\ mapped' = {Mapped(r) : r \in done}
           /\ step' = IF done = RamLayout(total) THEN "ioapic" ELSE "failed"
  /\ UNCHANGED <<total, registry, access>>

-----------------------------------------------------------------------------
(* register_mmio_region and register_devices. *)

RefusedMmio(gpa, size) ==
  \/ \E r \in regions : gpa < last_addr(r) /\ gpa + size > r.gpa
  \/ \E r \in mmio_regions : gpa < r.gpa + r.size /\ gpa + size > r.gpa

\* A device: its region, then its handler.  A refusal ends the start.
setup(here, gpa, size, handler, irq, next) ==
  /\ step = here
  /\ IF RefusedMmio(gpa, size)
       THEN step' = "refused" /\ UNCHANGED <<mmio_regions, mmio_handlers>>
       ELSE /\ mmio_regions' = mmio_regions \union {[gpa |-> gpa, size |-> size, handler |-> handler]}
            /\ mmio_handlers' = mmio_handlers \union {<<handler, irq>>}
            /\ step' = next
  /\ UNCHANGED <<total, regions, mapped, access>>

NoIrq == 0
Irqs == {NoIrq} \union 20 .. 23

setup_ioapic ==
  /\ setup("ioapic", IOAPIC_START, IOAPIC_SIZE, "ioapic", NoIrq, "pci")
  /\ UNCHANGED virtio_mmio_devices

setup_pci_ecam ==
  /\ setup("pci", PCI_MMCONFIG_START, PCI_MMCONFIG_SIZE, "pci_ecam", NoIrq, "block")
  /\ UNCHANGED virtio_mmio_devices

\* Base and interrupt line of the n-th virtio device.
VirtioBase(n) == VIRTIO_MMIO_START + n * VIRTIO_MMIO_SIZE_PER_DEVICE

VirtioIrq(n) == 20 + n

register_virtio_mmio(name, uid, gpa, size, irq) ==
  virtio_mmio_devices' = virtio_mmio_devices \union
                           {[name |-> name, uid |-> uid, gpa |-> gpa, size |-> size, irq |-> irq]}

\* A virtio device: the device and its transport are made first, which may fail
\* (no disk image, no pipe, no event); then its region and handler, and what ACPI
\* advertises.
setup_virtio(n, here, handler, name, next) ==
  \/ /\ step = here /\ step' = "failed"
     /\ UNCHANGED <<total, regions, mapped, registry, access>>
  \/ /\ setup(here, VirtioBase(n), VIRTIO_MMIO_SIZE_PER_DEVICE, handler, VirtioIrq(n), next)
     /\ IF step' = next
          THEN register_virtio_mmio(name, n + 1, VirtioBase(n), VIRTIO_MMIO_SIZE_PER_DEVICE, VirtioIrq(n))
          ELSE UNCHANGED virtio_mmio_devices

setup_virtio_block == setup_virtio(0, "block", "virtio_block", "VBLK", "rng")
setup_virtio_rng == setup_virtio(1, "rng", "virtio_rng", "VRNG", "console")
setup_virtio_console == setup_virtio(2, "console", "virtio_console", "VCON", "net")
setup_virtio_net == setup_virtio(3, "net", "virtio_net", "VNET", "ready")

register_devices ==
  \/ setup_ioapic \/ setup_pci_ecam
  \/ setup_virtio_block \/ setup_virtio_rng \/ setup_virtio_console \/ setup_virtio_net

-----------------------------------------------------------------------------
(* Accesses. *)

find_region(addr) == {r \in regions : r.gpa <= addr /\ addr <= last_addr(r)}

find_mmio(addr) == {r \in mmio_regions : r.gpa <= addr /\ addr < r.gpa + r.size}

Touches(r, addr, size) == <<r.hpa + addr - r.gpa, r.hpa + addr - r.gpa + size>>

\* The regions that serve an access, at most one: the copies compare the end
\* with the last byte, get_slice, which is given the offset into the region,
\* with the region's length; store and load compare nothing and rely on the
\* natural alignment of the object.
write_guest_memory(gpa, size) == {r \in find_region(gpa) : gpa + size <= last_addr(r)}
read_guest_memory(gpa, size) == {r \in find_region(gpa) : gpa + size <= last_addr(r)}
read_memory(gpa, size) == {r \in find_region(gpa) : gpa + size <= last_addr(r)}

get_slice_OnePast(addr, size) == {r \in find_region(addr) : addr - r.gpa + size <= r.size + 1}

get_slice(addr, size) == {r \in find_region(addr) : addr - r.gpa + size <= r.size}

\* The widths of the integer types with atomic operations.
AtomicWidths == {1, 2, 4, 8}

store(addr) == find_region(addr)
load(addr) == find_region(addr)

Access(op, addr, size, served) ==
  /\ step = "ready"
  /\ access' = [op |-> op, addr |-> addr, size |-> size, ok |-> served # {},
                host |-> IF served = {} THEN Nothing
                         ELSE Touches(CHOOSE r \in served : TRUE, addr, size)]
  /\ UNCHANGED <<step, total, regions, mapped, registry>>

\* An access of the VMM: read_obj, write_obj and the descriptor and ring
\* accesses come down to these.
VmmAccess(addr, size) ==
  \/ Access("write", addr, size, write_guest_memory(addr, size))
  \/ Access("read", addr, size, read_guest_memory(addr, size))
  \/ Access("read_memory", addr, size, read_memory(addr, size))
  \/ Access("slice", addr, size, get_slice(addr, size))
  \/ size \in AtomicWidths /\ addr % size = 0 /\ Access("store", addr, size, store(addr))
  \/ size \in AtomicWidths /\ addr % size = 0 /\ Access("load", addr, size, load(addr))

\* A guest access that exits: memory_callback calls the handler of the MMIO
\* region, with the offset into it; any other address stops the VM.
handle_exit_MemoryAccess(addr) ==
  /\ step = "ready"
  /\ \A r \in mapped : addr < r.gpa \/ addr > last_addr(r)
  /\ LET device == {r \in find_mmio(addr) : \E irq \in Irqs : <<r.handler, irq>> \in mmio_handlers}
     IN  IF device = {}
           THEN step' = "stopped" /\ access' = NoAccess
           ELSE LET r == CHOOSE r \in device : TRUE
                IN  /\ access' = [op |-> r.handler, addr |-> addr, size |-> addr - r.gpa, ok |-> TRUE,
                                  host |-> Nothing]
                    /\ step' = step
  /\ UNCHANGED <<total, regions, mapped, registry>>

AccessDone ==
  /\ access # NoAccess
  /\ access' = NoAccess
  /\ UNCHANGED <<step, total, regions, mapped, registry>>

Init ==
  /\ step = "allocate" /\ total \in Memories
  /\ regions = {} /\ mapped = {} /\ mmio_regions = {} /\ mmio_handlers = {}
  /\ virtio_mmio_devices = {}
  /\ access = NoAccess

Next ==
  \/ allocate_memory_with_size \/ register_devices
  \/ \E addr \in Probes, size \in Sizes : VmmAccess(addr, size)
  \/ \E addr \in Probes : handle_exit_MemoryAccess(addr)
  \/ AccessDone

Spec == Init /\ [][Next]_vars

-----------------------------------------------------------------------------
(* Properties. *)

\* The type of the state.
TypeOK ==
  /\ step \in {"allocate", "ioapic", "pci", "block", "rng", "console", "net", "ready", "failed",
               "refused", "stopped"}
  /\ total \in Memories
  /\ \A r \in regions \union mapped : r = Region(r.gpa, r.size, r.hpa) /\ r.size > 0
  /\ \A r \in mmio_regions : r = [gpa |-> r.gpa, size |-> r.size, handler |-> r.handler] /\ r.size > 0

Apart(r, s) == r.gpa + r.size <= s.gpa \/ s.gpa + s.size <= r.gpa

\* No guest address belongs to two regions, so "find" has nothing to choose:
\* RAM, the I/O APIC, the PCI configuration space and the virtio windows are
\* apart for every memory size.
Disjoint == \A r, s \in regions \union mmio_regions : r # s => Apart(r, s)

\* The layout leaves every device its window: with no memory size does
\* register_mmio_region refuse a device and stop the start.
NothingRefused == step # "refused"

\* Every byte of RAM has a host byte of its own inside the allocation: the two
\* regions' host ranges are apart, and together they are all of it.
HostBytesOwned ==
  /\ \A r, s \in regions :
       r # s => r.hpa + r.size <= s.hpa \/ s.hpa + s.size <= r.hpa
  /\ \A r \in regions : 0 <= r.hpa /\ r.hpa + r.size <= total

\* VMM and guest mean the same host byte by an address, or both none: the
\* registered regions and the hypervisor's mapping agree.
SameMemory ==
  \A addr \in Probes :
    {Touches(r, addr, 1) : r \in find_region(addr)} =
    {Touches(r, addr, 1) : r \in {s \in mapped : s.gpa <= addr /\ addr <= last_addr(s)}}

\* One memory for every size the machine can be given: RAM and windows share no
\* address, every device gets its window, and VMM, hypervisor and host agree on which
\* byte an address means (allocate_memory_with_size, register_mmio_region).
LayoutIsSound == Disjoint /\ NothingRefused /\ HostBytesOwned /\ SameMemory

\* Whatever the VMM touches for an access lies inside the host allocation and
\* holds the bytes of one region: an aligned atomic too, although store and load
\* check no size.
AccessInside ==
  access.host # Nothing =>
    \E r \in regions : r.hpa <= access.host[1] /\ access.host[2] <= r.hpa + r.size

\* A guest access that exits reaches the handler of the window it is in, at an
\* offset inside the window.
ExitReachesItsDevice ==
  (\E r \in mmio_regions : r.handler = access.op) =>
    \E r \in mmio_regions :
      r.handler = access.op /\ access.addr = r.gpa + access.size /\ access.size < r.size

\* Every access lands where it was aimed: the VMM's in the region, the guest's at its
\* device.
AccessesLand == AccessInside /\ ExitReachesItsDevice

\* The guest's driver finds what ACPI told it: an advertised window has a handler
\* that interrupts on the advertised line, and no two devices share a line.
AdvertisedIsServed ==
  /\ \A d \in virtio_mmio_devices :
       \E r \in mmio_regions :
         r.gpa = d.gpa /\ r.size = d.size /\ <<r.handler, d.irq>> \in mmio_handlers
  /\ \A d, e \in virtio_mmio_devices : d.irq = e.irq => d = e
  /\ step = "ready" => Cardinality(virtio_mmio_devices) = 4
=============================================================================
