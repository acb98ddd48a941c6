---------------------------- MODULE MachineProofs ---------------------------
(***************************************************************************)
(* Proofs about the machine, for every layout of the shape that            *)
(* LayoutAssumption states, every memory size, kernel and set of workers:  *)
(* the address space of GuestMemory is sound, and main (VmLifecycle) gives *)
(* memory back only after its users and leaves nothing behind.  And about  *)
(* its port bus (Bus), for every address space and sequence of inserts.    *)
(*                                                                         *)
(* The invariant of the address space, IInv, fixes RAM as (a part of) the  *)
(* layout of the memory size, and the MMIO regions as the windows of the   *)
(* devices that the start has come past: that no registration is refused   *)
(* needs to know which ones are there.                                     *)
(*                                                                         *)
(* The invariant of main, LifeInv, says what is held at each of its places: *)
(* it has to follow the build, because only the steps of GuestMemory and   *)
(* LinuxBoot say that a machine that runs has its memory, and Drop, where  *)
(* what is held is always an end of ReleaseOrder.                          *)
(*                                                                         *)
(* The invariant of the bus is that its devices are apart: insert compares *)
(* a new range with two devices only, the nearest below its first and the  *)
(* nearest below its last address, and that these two are enough rests on  *)
(* the devices already there being apart.                                  *)
(***************************************************************************)
EXTENDS VmLifecycle, Bus, WellFoundedInduction, TLAPS

MmioWindow(gpa, size, handler) == [gpa |-> gpa, size |-> size, handler |-> handler]

Wioapic == MmioWindow(IOAPIC_START, IOAPIC_SIZE, "ioapic")
Wpci == MmioWindow(PCI_MMCONFIG_START, PCI_MMCONFIG_SIZE, "pci_ecam")
Wblock == MmioWindow(VirtioBase(0), VIRTIO_MMIO_SIZE_PER_DEVICE, "virtio_block")
Wrng == MmioWindow(VirtioBase(1), VIRTIO_MMIO_SIZE_PER_DEVICE, "virtio_rng")
Wconsole == MmioWindow(VirtioBase(2), VIRTIO_MMIO_SIZE_PER_DEVICE, "virtio_console")
Wnet == MmioWindow(VirtioBase(3), VIRTIO_MMIO_SIZE_PER_DEVICE, "virtio_net")

Windows == {Wioapic, Wpci, Wblock, Wrng, Wconsole, Wnet}

\* The windows registered when main is about to take a step.
Registered ==
  /\ step \in {"allocate", "ioapic"} => mmio_regions = {}
  /\ step = "failed" => mmio_regions \subseteq Windows
  /\ step = "pci" => mmio_regions = {Wioapic}
  /\ step = "block" => mmio_regions = {Wioapic, Wpci}
  /\ step = "rng" => mmio_regions = {Wioapic, Wpci, Wblock}
  /\ step = "console" => mmio_regions = {Wioapic, Wpci, Wblock, Wrng}
  /\ step = "net" => mmio_regions = {Wioapic, Wpci, Wblock, Wrng, Wconsole}
  /\ step \in {"ready", "stopped"} => mmio_regions = Windows

Steps == {"allocate", "ioapic", "pci", "block", "rng", "console", "net", "ready", "failed", "stopped"}

IInv ==
  /\ step \in Steps
  /\ total \in Memories
  /\ regions \subseteq RamLayout(total)
  /\ mapped = regions
  /\ Registered

\* A region of RAM, whatever the memory size, ends at or below the device area
\* or starts at or above 4 GiB, has a byte, and its host range is inside the
\* allocation.
LEMMA RamShape ==
  ASSUME NEW m \in Memories, NEW r \in RamLayout(m)
  PROVE  /\ r = Region(r.gpa, r.size, r.hpa)
         /\ r.gpa \in Nat /\ r.size \in Nat \ {0} /\ r.hpa \in Nat
         /\ \/ r.gpa = 0 /\ r.hpa = 0 /\ r.size <= MEM_32BIT_DEVICES_START
            \/ r.gpa = RAM_64BIT_START /\ r.hpa = MEM_32BIT_DEVICES_START
         /\ r.hpa + r.size <= m
<1>1. m \in Nat \ {0} /\ (m <= MEM_32BIT_DEVICES_START \/ m > MEM_32BIT_RESERVED_START)
  BY LayoutAssumption
<1>2. /\ MEM_32BIT_DEVICES_START \in Nat \ {0} /\ RAM_64BIT_START \in Nat
      /\ MEM_32BIT_RESERVED_START \in Nat /\ MEM_32BIT_DEVICES_START <= MEM_32BIT_RESERVED_START
  BY LayoutAssumption
<1>3. CASE m <= MEM_32BIT_RESERVED_START
  <2>1. r = Region(0, m, 0)
    BY <1>3 DEF RamLayout
  <2> QED  BY <2>1, <1>1, <1>2, <1>3 DEF Region
<1>4. CASE ~(m <= MEM_32BIT_RESERVED_START)
  <2>1. \/ r = Region(0, MEM_32BIT_DEVICES_START, 0)
        \/ r = Region(RAM_64BIT_START, m - MEM_32BIT_DEVICES_START, MEM_32BIT_DEVICES_START)
    BY <1>4 DEF RamLayout
  <2>2. CASE r = Region(0, MEM_32BIT_DEVICES_START, 0)
    BY <2>2, <1>1, <1>2, <1>4 DEF Region
  <2>3. CASE r = Region(RAM_64BIT_START, m - MEM_32BIT_DEVICES_START, MEM_32BIT_DEVICES_START)
    BY <2>3, <1>1, <1>2, <1>4 DEF Region
  <2> QED  BY <2>1, <2>2, <2>3
<1> QED  BY <1>3, <1>4

\* Two regions of RAM differ in where they start, and the low one then ends at
\* the device area.
LEMMA RamPair ==
  ASSUME NEW m \in Memories, NEW r \in RamLayout(m), NEW s \in RamLayout(m), r # s
  PROVE  \/ r.gpa = 0 /\ s.gpa = RAM_64BIT_START
         \/ s.gpa = 0 /\ r.gpa = RAM_64BIT_START
BY DEF RamLayout, Region

\* A window lies between the device area and 4 GiB and has a byte.
LEMMA WindowShape ==
  ASSUME NEW w \in Windows
  PROVE  /\ w = MmioWindow(w.gpa, w.size, w.handler)
         /\ w.gpa \in Nat /\ w.size \in Nat \ {0}
         /\ MEM_32BIT_DEVICES_START <= w.gpa /\ w.gpa + w.size <= RAM_64BIT_START
BY LayoutAssumption
   DEF Windows, Wioapic, Wpci, Wblock, Wrng, Wconsole, Wnet, MmioWindow, VirtioBase

\* The windows of two devices are apart.
LEMMA WindowsApart ==
  ASSUME NEW v \in Windows, NEW w \in Windows, v # w
  PROVE  Apart(v, w)
BY LayoutAssumption
   DEF Windows, Wioapic, Wpci, Wblock, Wrng, Wconsole, Wnet, MmioWindow, VirtioBase, Apart

\* The six windows are six different records.
LEMMA WindowsDiffer ==
  /\ Wpci # Wioapic
  /\ Wblock \notin {Wioapic, Wpci}
  /\ Wrng \notin {Wioapic, Wpci, Wblock}
  /\ Wconsole \notin {Wioapic, Wpci, Wblock, Wrng}
  /\ Wnet \notin {Wioapic, Wpci, Wblock, Wrng, Wconsole}
BY DEF Wioapic, Wpci, Wblock, Wrng, Wconsole, Wnet, MmioWindow

\* A window that is not registered yet is not refused.
LEMMA NotRefused ==
  ASSUME IInv, NEW w \in Windows, mmio_regions \subseteq Windows \ {w}
  PROVE  ~RefusedMmio(w.gpa, w.size)
<1>1. w.gpa \in Nat /\ w.size \in Nat \ {0} /\ MEM_32BIT_DEVICES_START <= w.gpa
      /\ w.gpa + w.size <= RAM_64BIT_START
  BY WindowShape
<1>2. ASSUME NEW r \in regions
      PROVE  ~(w.gpa < last_addr(r) /\ w.gpa + w.size > r.gpa)
  <2>1. r \in RamLayout(total) /\ total \in Memories
    BY <1>2 DEF IInv
  <2>2. /\ r.gpa \in Nat /\ r.size \in Nat \ {0}
        /\ \/ r.gpa = 0 /\ r.size <= MEM_32BIT_DEVICES_START
           \/ r.gpa = RAM_64BIT_START
    BY <2>1, RamShape
  <2> QED  BY <1>1, <2>2, LayoutAssumption DEF last_addr
<1>3. ASSUME NEW v \in mmio_regions
      PROVE  ~(w.gpa < v.gpa + v.size /\ w.gpa + w.size > v.gpa)
  <2>1. v \in Windows /\ v # w
    BY <1>3
  <2>2. Apart(v, w) /\ v.gpa \in Nat /\ v.size \in Nat
    BY <2>1, WindowsApart, WindowShape
  <2> QED  BY <1>1, <2>2 DEF Apart
<1> QED  BY <1>2, <1>3 DEF RefusedMmio

\* Setting up the device of a window that is not registered yet adds the window
\* and goes on to the next step.
LEMMA SetupAdds ==
  ASSUME IInv, NEW here, NEW next, NEW irq, NEW w \in Windows, mmio_regions \subseteq Windows \ {w},
         setup(here, w.gpa, w.size, w.handler, irq, next)
  PROVE  /\ step = here /\ step' = next
         /\ mmio_regions' = mmio_regions \union {w}
         /\ UNCHANGED <<total, regions, mapped>>
<1>1. ~RefusedMmio(w.gpa, w.size)
  BY NotRefused
<1>2. w = [gpa |-> w.gpa, size |-> w.size, handler |-> w.handler]
  BY WindowShape DEF MmioWindow
<1> QED  BY <1>1, <1>2 DEF setup

\* The invariant holds at the start and every step of main, of the VMM and of
\* the guest keeps it.
THEOREM MemoryInvariance == Spec => []IInv
<1>1. Init => IInv
  BY SMTT(40), ZenonT(40) DEF Init, IInv, Steps, Registered
<1>2. IInv /\ [Next]_vars => IInv'
  <2> SUFFICES ASSUME IInv, [Next]_vars PROVE IInv'
    OBVIOUS
  <2> USE DEF IInv
  <2>1. CASE allocate_memory_with_size
    <3>1. PICK done \in SUBSET RamLayout(total) :
            /\ regions' = done /\ mapped' = {Mapped(r) : r \in done}
            /\ step' \in {"ioapic", "failed"}
      BY <2>1 DEF allocate_memory_with_size
    <3>2. mapped' = regions'
      BY <3>1 DEF Mapped
    <3>3. step = "allocate" /\ UNCHANGED <<total, mmio_regions>>
      BY <2>1 DEF allocate_memory_with_size, registry
    <3>4. Registered'
      BY <3>1, <3>3 DEF Registered
    <3> QED  BY <3>1, <3>2, <3>3, <3>4 DEF Steps
  <2>2. CASE setup_ioapic
    <3>1. step = "ioapic"
      BY <2>2 DEF setup_ioapic, setup
    <3>2. mmio_regions = {} /\ Wioapic \in Windows
      BY <3>1 DEF Registered, Windows
    <3>3. mmio_regions \subseteq Windows \ {Wioapic}
      BY <3>2, WindowsDiffer DEF Windows
    <3>4. setup("ioapic", Wioapic.gpa, Wioapic.size, Wioapic.handler, NoIrq, "pci")
      BY <2>2 DEF setup_ioapic, Wioapic, MmioWindow
    <3>5. /\ step' = "pci" /\ mmio_regions' = mmio_regions \union {Wioapic}
          /\ UNCHANGED <<total, regions, mapped>>
      BY <3>2, <3>3, <3>4, SetupAdds
    <3>6. Registered'
      BY <3>2, <3>5 DEF Registered, Windows
    <3> QED  BY <3>5, <3>6 DEF Steps
  <2>3. CASE setup_pci_ecam
    <3>1. step = "pci"
      BY <2>3 DEF setup_pci_ecam, setup
    <3>2. mmio_regions = {Wioapic} /\ Wpci \in Windows
      BY <3>1 DEF Registered, Windows
    <3>3. mmio_regions \subseteq Windows \ {Wpci}
      BY <3>2, WindowsDiffer DEF Windows
    <3>4. setup("pci", Wpci.gpa, Wpci.size, Wpci.handler, NoIrq, "block")
      BY <2>3 DEF setup_pci_ecam, Wpci, MmioWindow
    <3>5. /\ step' = "block" /\ mmio_regions' = mmio_regions \union {Wpci}
          /\ UNCHANGED <<total, regions, mapped>>
      BY <3>2, <3>3, <3>4, SetupAdds
    <3>6. Registered'
      BY <3>2, <3>5 DEF Registered, Windows
    <3> QED  BY <3>5, <3>6 DEF Steps
  <2>4. CASE setup_virtio_block
    <3>1. step = "block"
      BY <2>4 DEF setup_virtio_block, setup_virtio, setup
    <3>2. mmio_regions = {Wioapic, Wpci} /\ Wblock \in Windows
      BY <3>1 DEF Registered, Windows
    <3>3. mmio_regions \subseteq Windows \ {Wblock}
      BY <3>2, WindowsDiffer DEF Windows
    <3>4. CASE step' = "failed" /\ UNCHANGED <<total, regions, mapped, registry, access>>
      BY <3>3, <3>4 DEF Registered, Steps, registry
    <3>5. CASE setup("block", VirtioBase(0), VIRTIO_MMIO_SIZE_PER_DEVICE, "virtio_block", VirtioIrq(0), "rng")
      <4>1. setup("block", Wblock.gpa, Wblock.size, Wblock.handler, VirtioIrq(0), "rng")
        BY <3>5 DEF Wblock, MmioWindow
      <4>2. /\ step' = "rng" /\ mmio_regions' = mmio_regions \union {Wblock}
            /\ UNCHANGED <<total, regions, mapped>>
        BY <3>2, <3>3, <4>1, SetupAdds
      <4>3. Registered'
        BY <3>2, <4>2 DEF Registered, Windows
      <4> QED  BY <4>2, <4>3 DEF Steps
    <3> QED  BY <2>4, <3>4, <3>5 DEF setup_virtio_block, setup_virtio
  <2>5. CASE setup_virtio_rng
    <3>1. step = "rng"
      BY <2>5 DEF setup_virtio_rng, setup_virtio, setup
    <3>2. mmio_regions = {Wioapic, Wpci, Wblock} /\ Wrng \in Windows
      BY <3>1 DEF Registered, Windows
    <3>3. mmio_regions \subseteq Windows \ {Wrng}
      BY <3>2, WindowsDiffer DEF Windows
    <3>4. CASE step' = "failed" /\ UNCHANGED <<total, regions, mapped, registry, access>>
      BY <3>3, <3>4 DEF Registered, Steps, registry
    <3>5. CASE setup("rng", VirtioBase(1), VIRTIO_MMIO_SIZE_PER_DEVICE, "virtio_rng", VirtioIrq(1), "console")
      <4>1. setup("rng", Wrng.gpa, Wrng.size, Wrng.handler, VirtioIrq(1), "console")
        BY <3>5 DEF Wrng, MmioWindow
      <4>2. /\ step' = "console" /\ mmio_regions' = mmio_regions \union {Wrng}
            /\ UNCHANGED <<total, regions, mapped>>
        BY SMTT(40), ZenonT(40), <3>2, <3>3, <4>1, SetupAdds
      <4>3. Registered'
        BY <3>2, <4>2 DEF Registered, Windows
      <4> QED  BY <4>2, <4>3 DEF Steps
    <3> QED  BY <2>5, <3>4, <3>5 DEF setup_virtio_rng, setup_virtio
  <2>6. CASE setup_virtio_console
    <3>1. step = "console"
      BY <2>6 DEF setup_virtio_console, setup_virtio, setup
    <3>2. mmio_regions = {Wioapic, Wpci, Wblock, Wrng} /\ Wconsole \in Windows
      BY <3>1 DEF Registered, Windows
    <3>3. mmio_regions \subseteq Windows \ {Wconsole}
      BY <3>2, WindowsDiffer DEF Windows
    <3>4. CASE step' = "failed" /\ UNCHANGED <<total, regions, mapped, registry, access>>
      BY <3>3, <3>4 DEF Registered, Steps, registry
    <3>5. CASE setup("console", VirtioBase(2), VIRTIO_MMIO_SIZE_PER_DEVICE, "virtio_console", VirtioIrq(2), "net")
      <4>1. setup("console", Wconsole.gpa, Wconsole.size, Wconsole.handler, VirtioIrq(2), "net")
        BY <3>5 DEF Wconsole, MmioWindow
      <4>2. /\ step' = "net" /\ mmio_regions' = mmio_regions \union {Wconsole}
            /\ UNCHANGED <<total, regions, mapped>>
        BY SMTT(40), ZenonT(40), <3>2, <3>3, <4>1, SetupAdds
      <4>3. Registered'
        BY <3>2, <4>2 DEF Registered, Windows
      <4> QED  BY <4>2, <4>3 DEF Steps
    <3> QED  BY <2>6, <3>4, <3>5 DEF setup_virtio_console, setup_virtio
  <2>7. CASE setup_virtio_net
    <3>1. step = "net"
      BY <2>7 DEF setup_virtio_net, setup_virtio, setup
    <3>2. mmio_regions = {Wioapic, Wpci, Wblock, Wrng, Wconsole} /\ Wnet \in Windows
      BY <3>1 DEF Registered, Windows
    <3>3. mmio_regions \subseteq Windows \ {Wnet}
      BY <3>2, WindowsDiffer DEF Windows
    <3>4. CASE step' = "failed" /\ UNCHANGED <<total, regions, mapped, registry, access>>
      BY <3>3, <3>4 DEF Registered, Steps, registry
    <3>5. CASE setup("net", VirtioBase(3), VIRTIO_MMIO_SIZE_PER_DEVICE, "virtio_net", VirtioIrq(3), "ready")
      <4>1. setup("net", Wnet.gpa, Wnet.size, Wnet.handler, VirtioIrq(3), "ready")
        BY <3>5 DEF Wnet, MmioWindow
      <4>2. /\ step' = "ready" /\ mmio_regions' = mmio_regions \union {Wnet}
            /\ UNCHANGED <<total, regions, mapped>>
        BY SMTT(40), ZenonT(40), <3>2, <3>3, <4>1, SetupAdds
      <4>3. Registered'
        BY <3>2, <4>2 DEF Registered, Windows
      <4> QED  BY <4>2, <4>3 DEF Steps
    <3> QED  BY <2>7, <3>4, <3>5 DEF setup_virtio_net, setup_virtio
  <2>8. ASSUME NEW addr \in Probes, NEW size \in Sizes, VmmAccess(addr, size)
      PROVE  IInv'
    <3>1. UNCHANGED <<step, total, regions, mapped, mmio_regions>>
      BY ZenonT(40), SMTT(40), <2>8 DEF VmmAccess, Access, registry
    <3> QED  BY <3>1 DEF Registered
  <2>9. ASSUME NEW addr \in Probes, handle_exit_MemoryAccess(addr)
      PROVE  IInv'
    <3>1. /\ step = "ready" /\ step' \in {"ready", "stopped"}
          /\ UNCHANGED <<total, regions, mapped, mmio_regions>>
      BY <2>9 DEF handle_exit_MemoryAccess, registry
    <3> QED  BY <3>1 DEF Registered, Steps
  <2>10. CASE AccessDone
    BY <2>10 DEF AccessDone, registry, Registered
  <2>11. CASE UNCHANGED vars
    BY <2>11 DEF vars, registry, Registered
  <2> QED
    BY <2>1, <2>2, <2>3, <2>4, <2>5, <2>6, <2>7, <2>8, <2>9, <2>10, <2>11 DEF Next, register_devices
<1> QED  BY <1>1, <1>2, PTL DEF Spec

\* For every layout of the assumed shape and every memory size, no guest address
\* belongs to two regions.
THEOREM DisjointAlways == Spec => []Disjoint
<1>1. IInv => Disjoint
  <2> SUFFICES ASSUME IInv, NEW r \in regions \union mmio_regions,
                      NEW s \in regions \union mmio_regions, r # s
               PROVE  Apart(r, s)
    BY DEF Disjoint
  <2>1. regions \subseteq RamLayout(total) /\ total \in Memories /\ mmio_regions \subseteq Windows
    BY DEF IInv, Registered, Steps, Windows
  <2>2. CASE r \in regions /\ s \in regions
    <3>1. \/ r.gpa = 0 /\ s.gpa = RAM_64BIT_START
          \/ s.gpa = 0 /\ r.gpa = RAM_64BIT_START
      BY <2>1, <2>2, RamPair
    <3>2. /\ r.size \in Nat /\ s.size \in Nat
          /\ r.gpa = RAM_64BIT_START \/ r.size <= MEM_32BIT_DEVICES_START
          /\ s.gpa = RAM_64BIT_START \/ s.size <= MEM_32BIT_DEVICES_START
      BY <2>1, <2>2, RamShape
    <3> QED  BY SMTT(40), ZenonT(40), <3>1, <3>2, LayoutAssumption DEF Apart
  <2>3. ASSUME NEW a \in regions, NEW w \in mmio_regions
        PROVE  Apart(a, w) /\ Apart(w, a)
    <3>1. /\ a.gpa \in Nat /\ a.size \in Nat
          /\ (a.gpa = 0 /\ a.size <= MEM_32BIT_DEVICES_START) \/ a.gpa = RAM_64BIT_START
      BY <2>1, <2>3, RamShape
    <3>2. w.gpa \in Nat /\ w.size \in Nat /\ MEM_32BIT_DEVICES_START <= w.gpa
          /\ w.gpa + w.size <= RAM_64BIT_START
      BY <2>1, <2>3, WindowShape
    <3> QED  BY <3>1, <3>2, LayoutAssumption DEF Apart
  <2>4. CASE r \in mmio_regions /\ s \in mmio_regions
    BY <2>1, <2>4, WindowsApart
  <2> QED  BY <2>2, <2>3, <2>4
<1> QED  BY <1>1, MemoryInvariance, PTL

\* For every layout of the assumed shape, every memory size leaves every device
\* its window: no start ends in a refused registration.
THEOREM NothingRefusedAlways == Spec => []NothingRefused
<1>1. IInv => NothingRefused
  BY DEF IInv, Steps, NothingRefused
<1> QED  BY <1>1, MemoryInvariance, PTL

\* For every memory size, the two regions of RAM share no host byte and stay
\* inside the one host allocation.
THEOREM HostBytesOwnedAlways == Spec => []HostBytesOwned
<1>1. IInv => HostBytesOwned
  <2> SUFFICES ASSUME IInv PROVE HostBytesOwned
    OBVIOUS
  <2>1. regions \subseteq RamLayout(total) /\ total \in Memories
    BY DEF IInv
  <2>2. ASSUME NEW r \in regions, NEW s \in regions, r # s
        PROVE  r.hpa + r.size <= s.hpa \/ s.hpa + s.size <= r.hpa
    <3>1. \/ r.gpa = 0 /\ s.gpa = RAM_64BIT_START
          \/ s.gpa = 0 /\ r.gpa = RAM_64BIT_START
      BY <2>1, <2>2, RamPair
    <3>2. RAM_64BIT_START # 0
      BY LayoutAssumption
    <3> QED  BY <2>1, <2>2, <3>1, <3>2, RamShape, LayoutAssumption
  <2>3. ASSUME NEW r \in regions
        PROVE  0 <= r.hpa /\ r.hpa + r.size <= total
    BY <2>1, <2>3, RamShape
  <2> QED  BY <2>2, <2>3 DEF HostBytesOwned
<1> QED  BY <1>1, MemoryInvariance, PTL

\* The hypervisor's mapping and the VMM's regions agree on every address.
THEOREM SameMemoryAlways == Spec => []SameMemory
<1>1. IInv => SameMemory
  BY DEF IInv, SameMemory, find_region
<1> QED  BY <1>1, MemoryInvariance, PTL

\* Registration builds well-formed regions only, for every layout and memory size.
THEOREM TypeOKAlways == Spec => []TypeOK
<1>1. IInv => TypeOK
  <2> SUFFICES ASSUME IInv PROVE TypeOK
    OBVIOUS
  <2>1. /\ step \in Steps /\ total \in Memories
        /\ regions \subseteq RamLayout(total) /\ mapped = regions /\ mmio_regions \subseteq Windows
    BY DEF IInv, Registered, Steps, Windows
  <2>2. \A r \in regions \union mapped : r = Region(r.gpa, r.size, r.hpa) /\ r.size > 0
    BY SMTT(40), ZenonT(40), <2>1, RamShape
  <2>3. ASSUME NEW r \in mmio_regions
        PROVE  r = [gpa |-> r.gpa, size |-> r.size, handler |-> r.handler] /\ r.size > 0
    BY SMTT(40), ZenonT(40), <2>1, <2>3, LayoutAssumption
       DEF Windows, MmioWindow, Wioapic, Wpci, Wblock, Wrng, Wconsole, Wnet
  <2> QED  BY <2>1, <2>2, <2>3 DEF TypeOK, Steps
<1> QED  BY <1>1, MemoryInvariance, PTL

\* For every layout and memory size, VMM, hypervisor and host agree on which byte an
\* address means, and every device has its window.
THEOREM LayoutIsSoundAlways == Spec => []LayoutIsSound
<1>1. Disjoint /\ NothingRefused /\ HostBytesOwned /\ SameMemory => LayoutIsSound
  BY DEF LayoutIsSound
<1> QED
  BY <1>1, DisjointAlways, NothingRefusedAlways, HostBytesOwnedAlways, SameMemoryAlways, PTL

-----------------------------------------------------------------------------
(* Accesses. *)

\* Nothing is accessed before the devices are there, and what the last access touched
\* is where it should be.
Lands == AccessesLand /\ (step \notin {"ready", "stopped"} => access = NoAccess)

\* The regions that have all bytes of an access.
Holding(addr, size) == {r \in regions : r.gpa <= addr /\ addr + size <= r.gpa + r.size}

\* A copy or a slice is served by a region that holds all of it.
LEMMA CopyLemma ==
  ASSUME IInv, NEW addr \in Nat, NEW size \in Nat
  PROVE  /\ write_guest_memory(addr, size) \subseteq Holding(addr, size)
         /\ read_guest_memory(addr, size) \subseteq Holding(addr, size)
         /\ read_memory(addr, size) \subseteq Holding(addr, size)
         /\ get_slice(addr, size) \subseteq Holding(addr, size)
<1>1. \A r \in regions : r.gpa \in Nat /\ r.size \in Nat
  BY RamShape DEF IInv
<1> QED
  BY <1>1 DEF write_guest_memory, read_guest_memory, read_memory, get_slice, find_region,
              last_addr, Holding

\* RAM ends on a multiple of eight.
LEMMA RamEnds ==
  ASSUME NEW m \in Memories, NEW r \in RamLayout(m)
  PROVE  (r.gpa + r.size) % 8 = 0
<1>1. /\ m \in Nat /\ MEM_32BIT_DEVICES_START \in Nat /\ RAM_64BIT_START \in Nat
      /\ m % 8 = 0 /\ MEM_32BIT_DEVICES_START % 8 = 0 /\ RAM_64BIT_START % 8 = 0
  BY LayoutAssumption, AlignmentAssumption
<1>2. \/ r.gpa = 0 /\ r.size = m
      \/ r.gpa = 0 /\ r.size = MEM_32BIT_DEVICES_START
      \/ r.gpa = RAM_64BIT_START /\ r.size = m - MEM_32BIT_DEVICES_START
  BY DEF RamLayout, Region
<1> QED
  BY <1>1, <1>2

\* An aligned atomic that starts inside a range that ends on a multiple of eight ends
\* inside it.
LEMMA AlignedEnds ==
  ASSUME NEW addr \in Nat, NEW size \in AtomicWidths, addr % size = 0,
         NEW end \in Nat, end % 8 = 0, addr < end
  PROVE  addr + size <= end
<1>1. CASE size = 1
  BY <1>1
<1>2. CASE size = 2
  <2>1. addr % 2 = 0
    BY <1>2
  <2> QED  BY <1>2, <2>1
<1>3. CASE size = 4
  <2>1. addr % 4 = 0
    BY <1>3
  <2> QED  BY <1>3, <2>1
<1>4. CASE size = 8
  <2>1. addr % 8 = 0
    BY <1>4
  <2> QED  BY <1>4, <2>1
<1> QED
  BY <1>1, <1>2, <1>3, <1>4 DEF AtomicWidths

\* An aligned atomic is held by the region it starts in, although store and load do not
\* look at its size.
LEMMA AtomicLemma ==
  ASSUME IInv, NEW addr \in Nat, NEW size \in AtomicWidths, addr % size = 0
  PROVE  find_region(addr) \subseteq Holding(addr, size)
<1> SUFFICES ASSUME NEW r \in regions, r.gpa <= addr, addr <= last_addr(r)
             PROVE  addr + size <= r.gpa + r.size
  BY DEF find_region, Holding
<1>1. r \in RamLayout(total) /\ total \in Memories
  BY DEF IInv
<1>2. r.gpa \in Nat /\ r.size \in Nat
  BY <1>1, RamShape
<1>3. (r.gpa + r.size) % 8 = 0
  BY <1>1, RamEnds
<1>4. addr < r.gpa + r.size /\ r.gpa + r.size \in Nat
  BY <1>2 DEF last_addr
<1> QED
  BY <1>3, <1>4, AlignedEnds

\* An access of the VMM that only regions holding it may serve lands.
LEMMA AccessLemma ==
  ASSUME IInv, NEW addr \in Nat, NEW size \in Nat, NEW op,
         op \in {"write", "read", "read_memory", "slice", "store", "load"},
         NEW served, served \subseteq Holding(addr, size), Access(op, addr, size, served)
  PROVE  AccessesLand' /\ step' = "ready"
<1>1. /\ step = "ready" /\ UNCHANGED <<step, regions, mmio_regions>>
      /\ access'.op = op
      /\ access'.host = IF served = {} THEN Nothing ELSE Touches(CHOOSE r \in served : TRUE, addr, size)
  BY DEF Access, registry
<1>2. ExitReachesItsDevice'
  <2>1. mmio_regions = Windows
    BY <1>1 DEF IInv, Registered
  <2>2. \A w \in Windows : w.handler # op
    BY DEF Windows, Wioapic, Wpci, Wblock, Wrng, Wconsole, Wnet, MmioWindow
  <2> QED
    BY <1>1, <2>1, <2>2 DEF ExitReachesItsDevice
<1>3. AccessInside'
  <2>1. SUFFICES ASSUME served # {}
                 PROVE  \E r \in regions : r.hpa <= access'.host[1] /\ access'.host[2] <= r.hpa + r.size
    BY <1>1 DEF AccessInside
  <2>2. PICK r \in served : r = CHOOSE s \in served : TRUE
    BY <2>1
  <2>3. r \in regions /\ r.gpa <= addr /\ addr + size <= r.gpa + r.size
    BY <2>2 DEF Holding
  <2>4. r.gpa \in Nat /\ r.size \in Nat /\ r.hpa \in Nat
    BY <2>3, RamShape DEF IInv
  <2>5. access'.host = <<r.hpa + addr - r.gpa, r.hpa + addr - r.gpa + size>>
    BY ZenonT(40), SMTT(40), <1>1, <2>1, <2>2 DEF Touches
  <2>6. access'.host[1] = r.hpa + addr - r.gpa /\ access'.host[2] = r.hpa + addr - r.gpa + size
    BY SMTT(40), ZenonT(40), <2>5
  <2>7. r.hpa <= access'.host[1] /\ access'.host[2] <= r.hpa + r.size
    BY <2>3, <2>4, <2>6
  <2> QED
    BY SMTT(40), ZenonT(40), <2>3, <2>7
<1> QED
  BY <1>1, <1>2, <1>3 DEF AccessesLand

\* No access is one that lands.
LEMMA NoAccessLands == access = NoAccess /\ mmio_regions \subseteq Windows => AccessesLand
<1>1. \A w \in Windows : w.handler # "none"
  BY SMTT(40), ZenonT(40) DEF Windows, Wioapic, Wpci, Wblock, Wrng, Wconsole, Wnet, MmioWindow
<1> QED
  BY <1>1 DEF NoAccess, AccessesLand, AccessInside, ExitReachesItsDevice

\* For every layout, memory size, address and width, every access of the VMM stays in one
\* region of RAM and every exit reaches the device of its window.
THEOREM AccessesLandAlways == Spec => []AccessesLand
<1>1. IInv => mmio_regions \subseteq Windows
  BY SMTT(40), ZenonT(40) DEF IInv, Registered, Steps, Windows
<1>2. Init => Lands
  <2> SUFFICES ASSUME Init PROVE Lands
    OBVIOUS
  <2>1. access = NoAccess /\ mmio_regions \subseteq Windows
    BY DEF Init
  <2> QED  BY <2>1, NoAccessLands DEF Lands
<1>3. IInv /\ IInv' /\ Lands /\ [Next]_vars => Lands'
  <2> SUFFICES ASSUME IInv, IInv', Lands, [Next]_vars PROVE Lands'
    OBVIOUS
  <2>1. ASSUME access' = NoAccess PROVE Lands'
    <3>1. (access = NoAccess /\ mmio_regions \subseteq Windows => AccessesLand)'
      BY NoAccessLands, PTL
    <3>2. (mmio_regions \subseteq Windows)'
      BY <1>1, PTL
    <3> QED  BY <2>1, <3>1, <3>2 DEF Lands
  <2>2. CASE allocate_memory_with_size \/ register_devices
    <3>1. access' = access /\ step \notin {"ready", "stopped"}
      BY ZenonT(40), SMTT(40), <2>2 DEF allocate_memory_with_size, register_devices, setup_ioapic, setup_pci_ecam,
                  setup_virtio_block, setup_virtio_rng, setup_virtio_console, setup_virtio_net,
                  setup_virtio, setup
    <3> QED  BY <2>1, <3>1 DEF Lands
  <2>3. ASSUME NEW addr \in Probes, NEW size \in Sizes, VmmAccess(addr, size) PROVE Lands'
    <3>1. addr \in Nat /\ size \in Nat
      BY LayoutAssumption
    <3>2. AccessesLand' /\ step' = "ready"
      BY SMTT(40), ZenonT(40), <2>3, <3>1, CopyLemma, AtomicLemma, AccessLemma DEF VmmAccess, store, load
    <3> QED  BY <3>2 DEF Lands
  <2>4. ASSUME NEW addr \in Probes, handle_exit_MemoryAccess(addr) PROVE Lands'
    <3> DEFINE device == {r \in find_mmio(addr) : \E irq \in Irqs : <<r.handler, irq>> \in mmio_handlers}
    <3>1. CASE device = {}
      BY SMTT(40), ZenonT(40), <2>1, <2>4, <3>1 DEF handle_exit_MemoryAccess
    <3>2. CASE device # {}
      <4>1. PICK r \in device : r = CHOOSE s \in device : TRUE
        BY <3>2
      <4>2. /\ access' = [op |-> r.handler, addr |-> addr, size |-> addr - r.gpa, ok |-> TRUE, host |-> Nothing]
            /\ step = "ready" /\ step' = step /\ UNCHANGED <<regions, mmio_regions>>
        BY ZenonT(40), SMTT(40), <2>4, <3>2, <4>1 DEF handle_exit_MemoryAccess, registry
      <4>3. r \in mmio_regions /\ r.gpa <= addr /\ addr < r.gpa + r.size
        BY SMTT(40), ZenonT(40), <4>1 DEF find_mmio
      <4>4. r.gpa \in Nat /\ r.size \in Nat /\ addr \in Nat
        BY <1>1, <4>3, WindowShape, LayoutAssumption
      <4>5. access'.op = r.handler /\ access'.addr = addr /\ access'.size = addr - r.gpa /\ access'.host = Nothing
        BY <4>2
      <4>6. access'.addr = r.gpa + access'.size /\ access'.size < r.size
        BY SMTT(40), ZenonT(40), <4>3, <4>4, <4>5
      <4> QED
        BY <4>2, <4>3, <4>5, <4>6 DEF Lands, AccessesLand, AccessInside, ExitReachesItsDevice
    <3> QED  BY SMTT(40), ZenonT(40), <3>1, <3>2
  <2>5. CASE AccessDone
    BY <2>1, <2>5 DEF AccessDone
  <2>6. CASE UNCHANGED vars
    BY <2>6 DEF vars, registry, Lands, AccessesLand, AccessInside, ExitReachesItsDevice
  <2> QED
    BY <2>2, <2>3, <2>4, <2>5, <2>6 DEF Next
<1>4. Lands => AccessesLand
  BY DEF Lands
<1> QED
  BY <1>2, <1>3, <1>4, MemoryInvariance, PTL DEF Spec

-----------------------------------------------------------------------------
(* The life of the program. *)

Everything == {"vp", "mapping", "emulator", "partition", "memory"}

\* What Drop may still have to release.
Releasable ==
  /\ held \subseteq Everything
  /\ "vp" \in held \/ "mapping" \in held => "partition" \in held
  /\ "mapping" \in held => "memory" \in held

Mains == {"new", "setup", "build", "loop", "guest", "reset", "drop", "release", "ended"}

LifeInv ==
  /\ main \in Mains
  /\ Releasable
  /\ running # {} => held = Everything /\ main \in {"loop", "guest", "reset", "drop"}
  /\ main = "new" => held = {} /\ CANCEL_HANDLE = FALSE /\ console = "none" /\ step = "allocate"
                     /\ boot = "load"
  /\ main = "setup" => held = {"partition", "emulator"} /\ console = "none" /\ step = "allocate"
                       /\ boot = "load"
  /\ main = "build" =>
       /\ {"partition", "emulator", "vp"} \subseteq held
       /\ step # "allocate" => held = Everything
       /\ step = "allocate" => boot = "load"
  /\ main \in {"loop", "guest", "reset"} => held = Everything
  /\ main \in {"release", "ended"} => console # "raw"
  /\ main = "ended" => held \subseteq {"partition"} /\ (CANCEL_HANDLE => held = {})

\* The first step of the build maps memory or fails, and loads nothing.
LEMMA BuildAllocates ==
  ASSUME BootNext, step = "allocate", boot = "load"
  PROVE  /\ boot' = "load"
         /\ \/ step' = "failed"
            \/ step' = "ioapic" /\ mapped' # {}
<1>1. allocate_memory_with_size /\ UNCHANGED boot_vars
  BY ZenonT(40), SMTT(40) DEF BootNext, register_devices, setup_ioapic, setup_pci_ecam, setup_virtio_block,
     setup_virtio_rng, setup_virtio_console, setup_virtio_net, setup_virtio, setup,
     load_linux_kernel, load_bzimage_kernel, load_elf_kernel, Load, fill_boot_params,
     setup_linux_registers
<1>2. RamLayout(total) # {}
  BY DEF RamLayout
<1>3. PICK n : LET done == {r \in RamLayout(total) : n = 2 \/ (n = 1 /\ r.gpa = 0)}
               IN  /\ mapped' = {Mapped(r) : r \in done}
                   /\ step' = IF done = RamLayout(total) THEN "ioapic" ELSE "failed"
  BY <1>1 DEF allocate_memory_with_size
<1> DEFINE done == {r \in RamLayout(total) : n = 2 \/ (n = 1 /\ r.gpa = 0)}
<1>4. CASE done = RamLayout(total)
  <2>1. PICK r : r \in done
    BY <1>2, <1>4
  <2>2. Mapped(r) \in mapped'
    BY <1>3, <2>1
  <2> QED  BY <1>1, <1>3, <1>4, <2>2 DEF boot_vars
<1>5. CASE done # RamLayout(total)
  BY <1>1, <1>3, <1>5 DEF boot_vars
<1> QED  BY <1>4, <1>5

\* No later step of the build goes back to the allocation.
LEMMA BuildGoesOn ==
  ASSUME BootNext, step # "allocate"
  PROVE  step' # "allocate"
<1>1. CASE allocate_memory_with_size
  BY <1>1 DEF allocate_memory_with_size
<1>2. CASE register_devices
  BY ZenonT(40), SMTT(40), <1>2 DEF register_devices, setup_ioapic, setup_pci_ecam, setup_virtio_block,
     setup_virtio_rng, setup_virtio_console, setup_virtio_net, setup_virtio, setup
<1>3. CASE load_linux_kernel \/ fill_boot_params \/ setup_linux_registers
  BY ZenonT(40), SMTT(40), <1>3 DEF load_linux_kernel, load_bzimage_kernel, load_elf_kernel, Load, fill_boot_params,
     setup_linux_registers, vars
<1> QED  BY <1>1, <1>2, <1>3 DEF BootNext

\* Main is at one of its places with what that place holds.
THEOREM LifeInvariance == LifeSpec => []LifeInv
<1>1. LifeInit => LifeInv
  BY DEF LifeInit, BootInit, Init, LifeInv, Releasable, Mains, Everything
<1>2. LifeInv /\ [LifeNext]_life_vars => LifeInv'
  <2> SUFFICES ASSUME LifeInv, [LifeNext]_life_vars PROVE LifeInv'
    OBVIOUS
  <2>1. CASE PartitionNew
    BY SMTT(40), ZenonT(40), <2>1 DEF PartitionNew, LifeInv, Releasable, Mains, Everything, all_vars, vars, boot_vars
  <2>2. CASE Setup
    BY <2>2 DEF Setup, LifeInv, Releasable, Mains, Everything, all_vars, vars, boot_vars
  <2>3. CASE Build
    <3>1. /\ main = "build" /\ running' = running /\ running = {} /\ BootNext
          /\ {"partition", "emulator", "vp"} \subseteq held /\ held \subseteq Everything
      BY <2>3 DEF Build, LifeInv, Releasable
    <3>2. main' \in {"build", "loop", "drop"}
      BY <2>3 DEF Build
    <3>3. CASE step = "allocate"
      <4>1. /\ boot' = "load"
            /\ step' = "failed" \/ (step' = "ioapic" /\ mapped' # {})
        BY <3>1, <3>3, BuildAllocates DEF LifeInv
      <4>2. PICK new \in Allocated : held' = held \union new
        BY SMTT(40), ZenonT(40), <2>3, <3>3 DEF Build
      <4>3. CASE step' = "failed"
        <5>1. main' = "drop"
          BY <2>3, <4>3 DEF Build
        <5>2. new \in {{"memory", "mapping"}, {}, {"memory"}}
          BY SMTT(40), ZenonT(40), <4>2 DEF Allocated
        <5> QED  BY <3>1, <4>2, <5>1, <5>2 DEF LifeInv, Releasable, Mains, Everything
      <4>4. CASE step' = "ioapic" /\ mapped' # {}
        <5>1. main' = "build"
          BY <2>3, <4>1, <4>4 DEF Build
        <5>2. new = {"memory", "mapping"}
          BY <4>2, <4>4 DEF Allocated
        <5> QED  BY <3>1, <4>2, <4>4, <5>1, <5>2 DEF LifeInv, Releasable, Mains, Everything
      <4> QED  BY <4>1, <4>3, <4>4
    <3>4. CASE step # "allocate"
      <4>1. step' # "allocate"
        BY <3>1, <3>4, BuildGoesOn
      <4>2. held' = Everything
        BY SMTT(40), ZenonT(40), <2>3, <3>1, <3>4 DEF Build, LifeInv
      <4> QED  BY <3>1, <3>2, <4>1, <4>2 DEF LifeInv, Releasable, Mains, Everything
    <3> QED  BY <3>3, <3>4
  <2>4. CASE RunVp \/ Exit \/ Canceled \/ ResetDone
    BY <2>4 DEF RunVp, Exit, Canceled, ResetDone, LifeInv, Releasable, Mains, Everything
  <2>5. ASSUME NEW w \in Workers, Activate(w) \/ Reset(w) \/ StopWorker(w)
        PROVE  LifeInv'
    BY ZenonT(40), SMTT(40), <2>5 DEF Activate, Reset, StopWorker, LifeInv, Releasable, Mains, Everything, all_vars, vars,
       boot_vars
  <2>6. CASE Touch
    BY SMTT(40), ZenonT(40), <2>6 DEF Touch, LifeInv, Releasable, Mains, Everything
  <2>7. CASE TouchDone
    BY SMTT(40), ZenonT(40), <2>7 DEF TouchDone, AccessDone, LifeInv, Releasable, life, boot_vars
  <2>8. CASE DropConsole \/ Joined \/ HandlersCleared
    BY <2>8 DEF DropConsole, Joined, HandlersCleared, LifeInv, Releasable, Mains, Everything
  <2>9. CASE Release
    <3>1. PICK i \in DOMAIN ReleaseOrder :
            /\ ReleaseOrder[i] \in held
            /\ \A j \in DOMAIN ReleaseOrder : j < i => ReleaseOrder[j] \notin held
            /\ held' = held \ {ReleaseOrder[i]}
      BY <2>9 DEF Release
    <3>2. /\ main = "release" /\ UNCHANGED <<main, running, console>> /\ running = {}
          /\ Releasable /\ console # "raw"
      BY <2>9 DEF Release, LifeInv
    <3>3. i \in 1 .. 5
      BY <3>1 DEF ReleaseOrder
    <3>4. Releasable'
      <4>1. CASE i = 1
        BY <3>1, <3>2, <4>1 DEF ReleaseOrder, Releasable
      <4>2. CASE i \in {2, 3}
        BY <3>1, <3>2, <4>2 DEF ReleaseOrder, Releasable
      <4>3. CASE i \in {4, 5}
        <5>1. "vp" \notin held /\ "mapping" \notin held
          BY SMTT(40), ZenonT(40), <3>1, <4>3 DEF ReleaseOrder
        <5> QED  BY <3>1, <3>2, <5>1 DEF Releasable
      <4> QED  BY <3>3, <4>1, <4>2, <4>3
    <3> QED  BY SMTT(40), ZenonT(40), <3>2, <3>4 DEF LifeInv, Mains
  <2>10. CASE Return
    BY SMTT(40), ZenonT(40), <2>10 DEF Return, LifeInv, Releasable, Mains
  <2>11. ASSUME NEW c \in Callers, StoreRunning(c) \/ CancelRun(c)
         PROVE  LifeInv'
    BY SMTT(40), ZenonT(40), <2>11 DEF StoreRunning, CancelRun, LifeInv, Releasable, all_vars, vars, boot_vars
  <2>12. ASSUME NEW w \in Workers, WorkerEnds(w)
         PROVE  LifeInv'
    BY SMTT(40), ZenonT(40), <2>12 DEF WorkerEnds, LifeInv, Releasable, all_vars, vars, boot_vars
  <2>13. CASE UNCHANGED life_vars
    BY <2>13 DEF life_vars, life, all_vars, vars, boot_vars, LifeInv, Releasable
  <2> QED
    BY <2>1, <2>2, <2>3, <2>4, <2>5, <2>6, <2>7, <2>8, <2>9, <2>10, <2>11, <2>12, <2>13
    DEF LifeNext, Main
<1> QED  BY <1>1, <1>2, PTL DEF LifeSpec

\* Whatever the memory size, the kernel and the devices, guest memory is held
\* while a worker, the vCPU or a mapping can use it, and the partition while it
\* has a vCPU or a mapping.
THEOREM MemoryOutlivesItsUsersAlways == LifeSpec => []MemoryOutlivesItsUsers
<1>1. LifeInv => MemoryOutlivesItsUsers
  BY DEF LifeInv, Releasable, MemoryOutlivesItsUsers, Everything
<1> QED  BY <1>1, LifeInvariance, PTL

\* Wherever main fails or stops, it returns with nothing held, no worker running
\* and the console restored, but for the partition handle of a failed new.
THEOREM NothingLeftBehindAlways == LifeSpec => []NothingLeftBehind
<1>1. LifeInv => NothingLeftBehind
  BY DEF LifeInv, NothingLeftBehind
<1> QED  BY <1>1, LifeInvariance, PTL

\* Every step of the program's life is a step of GuestMemory, or leaves the address
\* space alone: boot, run loop and tear-down touch it through those operations only.
THEOREM LifeKeepsMemory == LifeSpec => Spec
<1>1. LifeInit => Init
  BY SMTT(40), ZenonT(40) DEF LifeInit, BootInit
<1>2. [LifeNext]_life_vars => [Next]_vars
  <2> SUFFICES ASSUME [LifeNext]_life_vars PROVE [Next]_vars
    BY SMTT(40), ZenonT(40)
  <2>1. CASE Build
    <3>1. BootNext
      BY <2>1 DEF Build
    <3>2. CASE allocate_memory_with_size \/ register_devices
      BY SMTT(40), ZenonT(40), <3>2 DEF Next
    <3>3. CASE load_linux_kernel \/ fill_boot_params \/ setup_linux_registers
      BY <3>3 DEF load_linux_kernel, load_bzimage_kernel, load_elf_kernel, Load, fill_boot_params,
                  setup_linux_registers
    <3> QED  BY <3>1, <3>2, <3>3 DEF BootNext
  <2>2. CASE Touch
    BY <2>2 DEF Touch, Accesses, Next
  <2>3. CASE TouchDone
    BY <2>3 DEF TouchDone, Next
  <2>4. CASE PartitionNew \/ Setup \/ RunVp \/ Exit \/ Canceled \/ ResetDone \/ DropConsole \/ Joined
             \/ HandlersCleared \/ Release \/ Return
    BY ZenonT(40), SMTT(40), <2>4 DEF PartitionNew, Setup, RunVp, Exit, Canceled, ResetDone, DropConsole, Joined,
                HandlersCleared, Release, Return, all_vars
  <2>5. ASSUME NEW w \in Workers, Activate(w) \/ Reset(w) \/ StopWorker(w) \/ WorkerEnds(w)
        PROVE  UNCHANGED vars
    BY <2>5 DEF Activate, Reset, StopWorker, WorkerEnds, all_vars
  <2>6. ASSUME NEW c \in Callers, StoreRunning(c) \/ CancelRun(c)
        PROVE  UNCHANGED vars
    BY <2>6 DEF StoreRunning, CancelRun, all_vars
  <2>7. CASE UNCHANGED life_vars
    BY <2>7 DEF life_vars, all_vars
  <2> QED
    BY <2>1, <2>2, <2>3, <2>4, <2>5, <2>6, <2>7 DEF LifeNext, Main
<1> QED  BY <1>1, <1>2, PTL DEF LifeSpec, Spec

\* Through boot, run and tear-down, RAM, windows and hypervisor mapping stay sound and
\* every access lands where it was aimed.
THEOREM LifeIsSound == LifeSpec => [](LayoutIsSound /\ AccessesLand)
BY LifeKeepsMemory, LayoutIsSoundAlways, AccessesLandAlways, PTL
-----------------------------------------------------------------------------
(* The bus. *)

\* A non-empty set of natural numbers has a least element.
LEMMA LeastNatural ==
  ASSUME NEW T \in SUBSET Nat, T # {}
  PROVE  \E x \in T : \A y \in T : x <= y
<1>1. PICK x \in T : \A y \in T : ~(<<y, x>> \in OpToRel(<, Nat))
  BY NatLessThanWellFounded, WFMin
<1>2. \A y \in T : ~(y < x)
  BY SMTT(40), ZenonT(40), <1>1 DEF OpToRel
<1> QED
  BY <1>2

\* first_before finds a device whenever one starts at or below addr.
LEMMA FirstBeforeFinds ==
  ASSUME DOMAIN devices \subseteq Nat, NEW addr \in Nat,
         NEW d \in DOMAIN devices, d <= addr
  PROVE  first_before(addr) # {}
<1> DEFINE Below == {e \in DOMAIN devices : e <= addr}
           T == {addr - e : e \in Below}
<1>1. T \subseteq Nat
  OBVIOUS
<1>2. addr - d \in T
  OBVIOUS
<1>3. PICK t \in T : \A y \in T : t <= y
  BY SMTT(40), ZenonT(40), <1>1, <1>2, LeastNatural
<1>4. PICK x \in Below : t = addr - x
  BY <1>3
<1>5. \A y \in Below : addr - x <= addr - y
  BY <1>3, <1>4
<1>6. \A y \in DOMAIN devices : y <= addr => y <= x
  BY <1>4, <1>5
<1> QED
  BY <1>4, <1>6 DEF first_before

BusInv == BusTypeOK /\ NoOverlap

\* What get_device finds is what contains the address, if devices are apart.
LEMMA RoutingLemma ==
  ASSUME BusInv, NEW addr \in Nat, NEW b \in DOMAIN devices
  PROVE  b \in get_device(addr) <=> b <= addr /\ addr < b + devices[b]
<1> USE DEF BusInv, BusTypeOK
<1>1. b \in Nat /\ devices[b] \in Nat
  OBVIOUS
<1>2. ASSUME b <= addr, addr < b + devices[b]
      PROVE  b \in get_device(addr)
  <2>1. ASSUME NEW c \in DOMAIN devices, c <= addr, b < c PROVE FALSE
    <3>1. b + devices[b] <= c
      BY <2>1 DEF NoOverlap
    <3> QED
      BY <1>1, <1>2, <2>1, <3>1
  <2>2. b \in first_before(addr)
    BY <1>1, <1>2, <2>1 DEF first_before
  <2> QED
    BY <1>1, <1>2, <2>2 DEF get_device
<1>3. ASSUME b \in get_device(addr)
      PROVE  b <= addr /\ addr < b + devices[b]
  BY <1>1, <1>3 DEF get_device, first_before
<1> QED
  BY <1>2, <1>3

\* A range that insert accepts shares no address with a device on the bus.
LEMMA AcceptedIsFree ==
  ASSUME BusInv, NEW base \in Nat, NEW len \in Nat, ~Overlaps(base, len),
         NEW c \in DOMAIN devices
  PROVE  c # base /\ (c < base => c + devices[c] <= base) /\ (base < c => base + len <= c)
<1> USE DEF BusInv, BusTypeOK
<1>1. c \in Nat /\ devices[c] \in Nat \ {0} /\ len # 0
  BY DEF Overlaps
<1>2. ~(c <= base /\ base < c + devices[c])
  BY RoutingLemma DEF Overlaps
<1>3. ASSUME base < c, c < base + len PROVE FALSE
  <2>1. base + len - 1 \in Nat /\ c <= base + len - 1
    BY <1>1, <1>3
  <2>2. PICK b \in first_before(base + len - 1) : TRUE
    BY <2>1, FirstBeforeFinds
  <2>3. b \in Nat /\ c <= b
    BY <2>1, <2>2 DEF first_before
  <2>4. b >= base
    BY <1>1, <1>3, <2>3
  <2> QED
    BY <2>2, <2>4 DEF Overlaps
<1> QED
  BY <1>1, <1>2, <1>3

\* A new bus is empty.
LEMMA BusInitLemma == BusInit => BusInv
BY DEF BusInit, BusInv, BusTypeOK, NoOverlap

\* insert keeps the devices apart.
LEMMA BusNextLemma == BusInv /\ [BusNext]_bus_vars => BusInv'
<1> SUFFICES ASSUME BusInv, [BusNext]_bus_vars PROVE BusInv'
  OBVIOUS
<1>1. CASE UNCHANGED bus_vars
  BY <1>1 DEF BusInv, BusTypeOK, NoOverlap, bus_vars
<1>2. ASSUME NEW base \in Nat, NEW len \in Nat, insert(base, len)
      PROVE  BusInv'
  <2>1. base \in Nat /\ len \in Nat
    OBVIOUS
  <2>2. CASE Overlaps(base, len)
    BY <1>2, <2>2 DEF insert, BusInv, BusTypeOK, NoOverlap
  <2>3. CASE ~Overlaps(base, len)
    <3> DEFINE D == DOMAIN devices \union {base}
    <3>1. devices' = [b \in D |-> IF b = base THEN len ELSE devices[b]]
      BY <1>2, <2>3 DEF insert
    <3>2. len # 0
      BY <2>3 DEF Overlaps
    <3>3. DOMAIN devices' = D /\ D \subseteq Nat
      BY <3>1 DEF BusInv, BusTypeOK
    <3>4. BusTypeOK'
      BY <1>2, <2>3, <3>1, <3>2, <3>3 DEF BusInv, BusTypeOK, insert
    <3>5. \A c \in DOMAIN devices :
             c # base /\ (c < base => c + devices[c] <= base) /\ (base < c => base + len <= c)
      BY <2>1, <2>3, AcceptedIsFree
    <3>6. ASSUME NEW b \in D, NEW c \in D, b < c PROVE b + devices'[b] <= c
      <4>1. CASE b = base
        BY <3>1, <3>5, <3>6, <4>1, <2>1
      <4>2. CASE b # base /\ c = base
        BY <3>1, <3>5, <3>6, <4>2
      <4>3. CASE b # base /\ c # base
        BY <3>1, <3>6, <4>3 DEF BusInv, NoOverlap
      <4> QED
        BY <4>1, <4>2, <4>3
    <3>7. NoOverlap'
      BY <3>3, <3>6 DEF NoOverlap
    <3> QED
      BY <3>4, <3>7 DEF BusInv
  <2> QED
    BY <2>2, <2>3
<1> QED
  BY <1>1, <1>2 DEF BusNext

\* Bus keeps its doc's word: whatever is inserted in whatever order, no two
\* devices overlap.
THEOREM NoOverlapAlways == BusSpec => []NoOverlap
<1>1. BusInv => NoOverlap
  BY DEF BusInv
<1> QED
  BY <1>1, BusInitLemma, BusNextLemma, PTL DEF BusSpec

\* The one candidate get_device looks at is the right one: an access reaches a
\* device exactly when its address is in the device's range.
THEOREM RoutedToOwnerAlways == BusSpec => []RoutedToOwner
<1>1. BusInv => RoutedToOwner
  BY RoutingLemma DEF RoutedToOwner
<1> QED
  BY <1>1, BusInitLemma, BusNextLemma, PTL DEF BusSpec

\* insert never turns away a range that is free.
THEOREM RefusedOnlyOverlapAlways == BusSpec => []RefusedOnlyOverlap
<1>1. BusInit => RefusedOnlyOverlap
  BY SMTT(40), ZenonT(40) DEF BusInit, RefusedOnlyOverlap
<1>2. ASSUME BusInv, RefusedOnlyOverlap, [BusNext]_bus_vars PROVE RefusedOnlyOverlap'
  <2>1. CASE UNCHANGED bus_vars
    BY <1>2, <2>1 DEF RefusedOnlyOverlap, bus_vars
  <2>2. ASSUME NEW base \in Nat, NEW len \in Nat, insert(base, len)
        PROVE  RefusedOnlyOverlap'
    <3>1. base \in Nat /\ len \in Nat
      OBVIOUS
    <3>2. CASE ~Overlaps(base, len)
      BY <2>2, <3>2 DEF insert, RefusedOnlyOverlap
    <3>3. CASE Overlaps(base, len)
      <4>1. request' = <<base, len>> /\ devices' = devices
        BY <2>2, <3>3 DEF insert
      <4>2. \A b \in DOMAIN devices : b \in Nat /\ devices[b] \in Nat \ {0}
        BY <1>2 DEF BusInv, BusTypeOK
      <4>3. len = 0 \/ \E b \in DOMAIN devices : b < base + len /\ base < b + devices[b]
        BY <3>1, <3>3, <4>2 DEF Overlaps, get_device, first_before
      <4> QED
        BY <4>1, <4>3 DEF RefusedOnlyOverlap
    <3> QED
      BY <3>2, <3>3
  <2> QED
    BY <1>2, <2>1, <2>2 DEF BusNext
<1> QED
  BY <1>1, <1>2, BusInitLemma, BusNextLemma, PTL DEF BusSpec
=============================================================================
