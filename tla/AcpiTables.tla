----------------------------- MODULE AcpiTables -----------------------------
(***************************************************************************)
(* What the ACPI tables tell the guest about the machine: the devices of   *)
(* the DSDT (src/device_manager.rs, src/cpu.rs) and the FACP, MADT, MCFG   *)
(* and XSDT (src/acpi.rs, src/cpu.rs).  AML encoding, signatures and       *)
(* checksums are the acpi_tables crate's and are left out, and so is the   *)
(* PCI window above memory, whose start is no multiple of the unit of      *)
(* address.                                                                *)
(*                                                                         *)
(* An AML device has a name in its scope, a _UID for its _HID, the windows *)
(* it decodes, the ones it passes on, and its interrupts.                  *)
(*                                                                         *)
(* An operator named X_<fault> is a deliberately faulty variant of X that  *)
(* no specification uses: some property must tell it apart from X.         *)
(***************************************************************************)
EXTENDS GuestMemory, Sequences

CONSTANTS MEM_32BIT_DEVICES_SIZE,
          PCI_MMIO_CONFIG_SIZE_PER_SEGMENT, \* the configuration space of one bus
          Cpus,       \* what main configures
          DsdtLength  \* external: the length of the DSDT in bytes

ASSUME AcpiAssumption ==
  /\ {MEM_32BIT_DEVICES_SIZE, PCI_MMIO_CONFIG_SIZE_PER_SEGMENT, DsdtLength} \subseteq Nat \ {0}
  /\ Cpus \in 1 .. 256

Window(gpa, size) == [gpa |-> gpa, size |-> size]

\* "as u32": RAM_64BIT_START is 2^32 in every unit of address.
AsU32(a) == a % RAM_64BIT_START

-----------------------------------------------------------------------------
(* DeviceManager and CpuManager. *)

PmTimerPort == 1544 \* 0x608

\* DeviceManager::new and init: the PM timer is the one device of an empty port
\* bus, so inserting it succeeds, and its address is noted for the FACP.
add_acpi_platform_device ==
  [io_bus |-> {[base |-> PmTimerPort, len |-> 4]}, pm_timer_address |-> PmTimerPort]

PciSegments ==
  {[id |-> 0, mmio_config_address |-> PCI_MMCONFIG_START,
    mem32 |-> Window(MEM_32BIT_DEVICES_START, MEM_32BIT_DEVICES_SIZE)]}

PciAml(s) ==
  [name |-> <<"PC", s.id>>, id |-> <<"PNP0A08", s.id>>,
   decodes |-> {Window(AsU32(s.mmio_config_address), AsU32(PCI_MMIO_CONFIG_SIZE_PER_SEGMENT))},
   passes |-> {s.mem32}, irqs |-> {}]

VirtioAml(d) ==
  [name |-> <<d.name>>, id |-> <<"LNRO0005", d.uid>>,
   decodes |-> {Window(AsU32(d.gpa), AsU32(d.size))}, passes |-> {}, irqs |-> {d.irq}]

CpuAml(cpu) ==
  [name |-> <<"CP", cpu>>, id |-> <<"ACPI0007", cpu>>, decodes |-> {}, passes |-> {}, irqs |-> {}]

\* DeviceManager::to_aml_bytes (there are no serial devices), CpuManager::to_aml_bytes.
DeviceManagerAml ==
  {PciAml(s) : s \in PciSegments} \union {VirtioAml(d) : d \in virtio_mmio_devices}
CpuManagerAml == {CpuAml(cpu) : cpu \in 0 .. Cpus - 1}

create_dsdt_table == DeviceManagerAml \union CpuManagerAml

-----------------------------------------------------------------------------
(* The other tables, each with its length in bytes. *)

\* The PM timer's port, once from the device manager and once spelled out.
create_facp_table ==
  [x_pm_tmr_blk |-> add_acpi_platform_device.pm_timer_address, pm_tmr_blk |-> 1544,
   pm_tmr_len |-> 4, length |-> 276]

\* Local APICs, the I/O APIC and the override that moves ISA interrupt 0.
create_madt ==
  [lapics |-> {cpu % 256 : cpu \in 0 .. Cpus - 1},
   ioapic |-> [apic_address |-> AsU32(IOAPIC_START), gsi_base |-> 0],
   override |-> [source |-> 0, gsi |-> 2],
   length |-> 44 + 8 * Cpus + 12 + 10]

create_mcfg_table ==
  [ranges |-> {[base_address |-> s.mmio_config_address, start |-> 0, end |-> 255] : s \in PciSegments},
   length |-> 36 + 8 + 16 * Cardinality(PciSegments)]

\* The XSDT points to FACP, MADT and MCFG.
Tables ==
  [DSDT |-> DsdtLength, FACP |-> create_facp_table.length, MADT |-> create_madt.length,
   MCFG |-> create_mcfg_table.length, XSDT |-> 36 + 8 * 3]

-----------------------------------------------------------------------------
(* Properties. *)

Inside(w, r) == r.gpa <= w.gpa /\ w.gpa + w.size <= r.gpa + r.size

\* The I/O APIC's inputs.
IoApicPins == 24

\* What the tables promise is there: every window a device is said to decode, and
\* the configuration space of every bus of the MCFG, is served by the handlers of
\* that window; the MADT's I/O APIC is the one that is registered and has a pin for
\* every interrupt a device is said to have, which the override of interrupt 0
\* leaves alone; the PM timer's port, in both of its fields, is one the port bus
\* serves; and the CPUs of DSDT and MADT are the same.
AcpiHardwareExists ==
  step = "ready" =>
    LET madt == create_madt
        facp == create_facp_table
    IN  /\ \A d \in create_dsdt_table :
             /\ \A w \in d.decodes : \E r \in mmio_regions : Inside(w, r)
             /\ \A irq \in d.irqs : /\ irq - madt.ioapic.gsi_base \in 0 .. IoApicPins - 1
                                    /\ irq # madt.override.gsi
        /\ \A g \in create_mcfg_table.ranges :
             \E r \in mmio_regions :
               /\ r.handler = "pci_ecam"
               /\ Inside(Window(g.base_address,
                                (g.end - g.start + 1) * PCI_MMIO_CONFIG_SIZE_PER_SEGMENT), r)
        /\ \E r \in mmio_regions : r.handler = "ioapic" /\ r.gpa = madt.ioapic.apic_address
        /\ \A port \in {facp.pm_tmr_blk, facp.x_pm_tmr_blk} :
             \E d \in add_acpi_platform_device.io_bus : d.base = port /\ facp.pm_tmr_len <= d.len
        /\ madt.lapics = {d.id[2] : d \in {e \in create_dsdt_table : e.id[1] = "ACPI0007"}}

\* The guest's ACPI core accepts the devices side by side: no two have a name, or a
\* _UID for the same _HID, in common; what one decodes is decoded by no other; and
\* what the PCI bridge passes on is neither RAM nor another device's.
AcpiDevicesApart ==
  step = "ready" =>
    \A d, e \in create_dsdt_table :
      /\ d # e => d.name # e.name /\ d.id # e.id /\ \A w \in d.decodes, v \in e.decodes : Apart(w, v)
      /\ \A w \in d.passes : \A r \in regions \union mmio_regions : Apart(w, r)
=============================================================================
