------------------------------ MODULE LinuxBoot -----------------------------
(***************************************************************************)
(* What main does between registering the devices and the first run of the *)
(* vCPU: loading the kernel (src/linux_boot.rs), the boot parameters with  *)
(* the memory map, the ACPI tables (src/acpi.rs, src/cpu.rs), the page     *)
(* tables and the registers (src/partition.rs).  The guest's accesses of   *)
(* GuestMemory come after it.                                              *)
(*                                                                         *)
(* A kernel file is abstracted to its format, whether its headers are      *)
(* readable and valid, and what is loaded from it.  Virtual addresses are  *)
(* the i64 that load_elf_kernel computes with, so those of the upper half  *)
(* are negative.  ACPI tables are named, with their length in bytes; their *)
(* addresses are byte offsets from the DSDT.                               *)
(*                                                                         *)
(* An operator named X_<fault> is a deliberately faulty variant of X that  *)
(* no specification uses: some property must tell it apart from X.         *)
(***************************************************************************)
EXTENDS AcpiTables, ZeroPage, FiniteSetsExt, SequencesExt

CONSTANTS BOOT_GDT_START, GDT_SIZE, ZERO_PAGE_START, BOOT_STACK_START, BOOT_STACK_POINTER,
          PML4_START, CMDLINE_START, CMDLINE_SIZE, RSDP_POINTER, RSDP_SIZE, HIGH_RAM_START,
          PAGE_SIZE, GIB,
          ENTRY_OFFSET, \* of the 64-bit entry point in a bzImage
          SDT_UNIT,     \* bytes in a unit of address
          Kernels       \* kernel files

ASSUME BootAssumption ==
  /\ {BOOT_GDT_START, GDT_SIZE, ZERO_PAGE_START, BOOT_STACK_START, BOOT_STACK_POINTER, PML4_START,
      CMDLINE_START, CMDLINE_SIZE, RSDP_POINTER, RSDP_SIZE, HIGH_RAM_START, ENTRY_OFFSET}
       \subseteq Nat
  /\ {PAGE_SIZE, GIB, SDT_UNIT} \subseteq Nat \ {0}

VARIABLES boot,      \* which part of the boot comes next
          kernel,    \* the kernel file
          pieces,    \* what was written into guest memory: what, gpa, size
          bss,       \* ranges the kernel expects to be zero
          zero_page, \* the boot parameters
          acpi,      \* where the tables are and where they are said to be
          cpu        \* the vCPU's registers, and how far the page tables map

boot_vars == <<boot, kernel, pieces, bss, zero_page, acpi, cpu>>
all_vars == <<vars, boot_vars>>

Unset == [unset |-> TRUE]
RoundUp(n, unit) == ((n + unit - 1) \div unit) * unit

Piece(what, gpa, size) == [what |-> what, gpa |-> gpa, size |-> size]
Fits(p) == write_guest_memory(p.gpa, p.size) # {}

-----------------------------------------------------------------------------
(* load_linux_kernel. *)

\* The kernel could not be opened, read or parsed, or does not fit: main fails.
LoadFails(k, loaded) == ~k.valid \/ \E p \in loaded : ~Fits(p)

Load(k, loaded, zeroed, entry, header, init_size) ==
  /\ boot = "load" /\ step = "ready"
  /\ kernel' = k
  /\ IF LoadFails(k, loaded)
       THEN boot' = "failed" /\ UNCHANGED <<pieces, bss, zero_page, cpu>>
       ELSE /\ boot' = "params"
            /\ pieces' = loaded /\ bss' = zeroed
            /\ zero_page' = [writes |-> header, init_size |-> init_size]
            /\ cpu' = [rip |-> entry]
  /\ UNCHANGED <<vars, acpi>>

\* What follows the setup sectors goes to HIGH_RAM_START.
load_bzimage_kernel(k) ==
  /\ k.format = "bzimage"
  /\ Load(k, {Piece("kernel", HIGH_RAM_START, k.size)}, {}, HIGH_RAM_START + ENTRY_OFFSET,
          setup_bzimage_boot_params(k.size_byte), k.init_size)

\* The PT_LOAD segments in file order, those with file data, and the zero-filled rest of each.
Loads(k) == SelectSeq(k.segments, LAMBDA s : s.load)
FileData(k) == {Piece("kernel", s.paddr, s.filesz) : s \in {t \in Range(Loads(k)) : t.filesz > 0}}
Zeroed(k) == {Piece("bss", s.paddr + s.filesz, s.memsz - s.filesz) :
                s \in {t \in Range(Loads(k)) : t.memsz > t.filesz}}

\* e_entry, unless it lies in no segment: then it is a virtual address, and the
\* first segment tells how it translates.
PhysEntry(k) ==
  IF \E s \in Range(Loads(k)) : s.paddr <= k.entry /\ k.entry < s.paddr + s.memsz
  THEN k.entry
  ELSE k.entry - (Loads(k)[1].vaddr - Loads(k)[1].paddr)

KernelSize(k) ==
  Max({s.paddr + s.memsz : s \in Range(Loads(k))}) - Min({s.paddr : s \in Range(Loads(k))})

load_elf_kernel(k) ==
  /\ k.format = "elf"
  /\ IF Loads(k) = <<>>
       THEN Load([k EXCEPT !.valid = FALSE], {}, {}, 0, <<>>, 0)
       ELSE Load(k, FileData(k), Zeroed(k), PhysEntry(k), setup_elf_boot_params,
                 RoundUp(KernelSize(k), PAGE_SIZE))

load_linux_kernel == \E k \in Kernels : load_bzimage_kernel(k) \/ load_elf_kernel(k)

-----------------------------------------------------------------------------
(* fill_boot_params and create_acpi_tables. *)

RAM == 1
RESERVED == 2
Entry(gpa, size, type) == [gpa |-> gpa, size |-> size, type |-> type]

\* get_memory_size.
MemorySize == Max({r.gpa + r.size : r \in regions})

\* RAM, the area below 4 GiB when memory goes past it, and every device window.
E820 ==
  {Entry(r.gpa, r.size, RAM) : r \in regions}
  \union {Entry(MEM_32BIT_RESERVED_START, RAM_64BIT_START - MEM_32BIT_RESERVED_START, RESERVED) :
             n \in {m \in {MemorySize} : m > MEM_32BIT_RESERVED_START}}
  \union {Entry(r.gpa, r.size, RESERVED) : r \in mmio_regions}

\* The number of entries that the kernel is told.
E820Count ==
  Cardinality(regions) + (IF MemorySize > MEM_32BIT_RESERVED_START THEN 1 ELSE 0)
  + Cardinality(mmio_regions)

\* The tables in the order they are appended, behind the RSDP.
TableOrder == <<"DSDT", "FACP", "MADT", "MCFG", "XSDT">>

create_acpi_tables_internal_SkipsMadt ==
  LET facp == Tables["DSDT"]
      madt == facp + Tables["FACP"]
      mcfg == facp + Tables["MADT"]
      xsdt == mcfg + Tables["MCFG"]
  IN  [DSDT |-> 0, FACP |-> facp, MADT |-> madt, MCFG |-> mcfg, XSDT |-> xsdt]

\* The pointers: DSDT in the FACP, FACP, MADT and MCFG in the XSDT, XSDT in the RSDP.
create_acpi_tables_internal ==
  LET facp == Tables["DSDT"]
      madt == facp + Tables["FACP"]
      mcfg == madt + Tables["MADT"]
      xsdt == mcfg + Tables["MCFG"]
  IN  [DSDT |-> 0, FACP |-> facp, MADT |-> madt, MCFG |-> mcfg, XSDT |-> xsdt]

\* The bytes of the tables, by the table each belongs to.
TableBytes == FlattenSeq([i \in DOMAIN TableOrder |-> [b \in 1 .. Tables[TableOrder[i]] |-> TableOrder[i]]])

\* The RSDP, and the tables right behind it.
AcpiPieces ==
  {Piece("rsdp", RSDP_POINTER, RSDP_SIZE),
   Piece("tables", RSDP_POINTER + RSDP_SIZE, RoundUp(Len(TableBytes), SDT_UNIT) \div SDT_UNIT)}

\* Command line, boot parameters and ACPI tables.  A failing write ends main,
\* except one of the ACPI tables, which is not looked at.
fill_boot_params ==
  /\ boot = "params"
  /\ LET params == {Piece("cmdline", CMDLINE_START, CMDLINE_SIZE),
                    Piece("zero_page", ZERO_PAGE_START, PAGE_SIZE)}
     IN  IF \E p \in params : ~Fits(p)
           THEN boot' = "failed" /\ UNCHANGED <<pieces, zero_page, acpi>>
           ELSE /\ boot' = "registers"
                /\ pieces' = pieces \union params \union {p \in AcpiPieces : Fits(p)}
                /\ zero_page' = [writes |-> zero_page.writes \o CommonFields(E820Count),
                                 init_size |-> zero_page.init_size, e820 |-> E820, count |-> E820Count]
                /\ acpi' = create_acpi_tables_internal
  /\ UNCHANGED <<vars, kernel, bss, cpu>>

-----------------------------------------------------------------------------
(* setup_linux_registers. *)

\* setup_identity_paging maps four gigabytes, whatever it has computed the kernel
\* to need.
MappedUpTo == 4 * GIB

\* Page tables, GDT and registers; the hypervisor may refuse the registers.
setup_linux_registers ==
  /\ boot = "registers"
  /\ LET tables == Piece("page_tables", PML4_START, 2 * PAGE_SIZE)
         gdt == Piece("gdt", BOOT_GDT_START, GDT_SIZE)
     IN  \/ boot' = "failed" /\ UNCHANGED <<pieces, cpu>>
         \/ /\ read_memory(ZERO_PAGE_START, PAGE_SIZE) # {} /\ Fits(tables) /\ Fits(gdt)
            /\ boot' = "running"
            /\ pieces' = pieces \union {tables, gdt}
            /\ cpu' = [rip |-> cpu.rip, rsi |-> ZERO_PAGE_START, rsp |-> BOOT_STACK_POINTER,
                       cr3 |-> PML4_START, gdtr |-> BOOT_GDT_START, mapped |-> MappedUpTo]
  /\ UNCHANGED <<vars, kernel, bss, zero_page, acpi>>

-----------------------------------------------------------------------------

BootInit ==
  /\ Init
  /\ boot = "load" /\ kernel = Unset /\ pieces = {} /\ bss = {}
  /\ zero_page = Unset /\ acpi = Unset /\ cpu = Unset

\* Main up to the first run of the vCPU.
BootNext ==
  \/ (allocate_memory_with_size \/ register_devices) /\ UNCHANGED boot_vars
  \/ load_linux_kernel \/ fill_boot_params \/ setup_linux_registers

\* The accesses of the running machine, one at a time.
Accesses ==
  /\ boot = "running" /\ access = NoAccess
  /\ \/ \E addr \in Probes, size \in Sizes : VmmAccess(addr, size)
     \/ \E addr \in Probes : handle_exit_MemoryAccess(addr)
  /\ UNCHANGED boot_vars

-----------------------------------------------------------------------------
(* Properties. *)

\* The stack the kernel starts on, which nobody writes before it runs.
Stack == Piece("stack", BOOT_STACK_START, BOOT_STACK_POINTER - BOOT_STACK_START)

\* Nothing the boot writes overwrites another piece of it, or lies where the
\* kernel expects zeroes (linux_boot.rs:237) or has its stack: kernel, command line,
\* boot parameters, ACPI tables, page tables and GDT all arrive whole.
BootPiecesApart ==
  LET all == pieces \union bss \union (IF boot = "running" THEN {Stack} ELSE {})
  IN  \A p, q \in all : p # q => Apart(p, q)

\* The ACPI tables are written, although create_acpi_tables ignores a failure, and
\* every pointer between them hits the first byte of the table it means: the
\* offsets that are summed up beside the buffer agree with the buffer.
AcpiPointersHit ==
  acpi # Unset =>
    /\ AcpiPieces \subseteq pieces
    /\ \A t \in DOMAIN Tables :
         /\ TableBytes[acpi[t] + 1] = t
         /\ acpi[t] > 0 => TableBytes[acpi[t]] # t

\* The kernel's memory map is true: what it may use is exactly the guest's RAM, no
\* device window is in it or missing from the reserved entries, and it is told
\* how many entries there are.
MemoryMapIsTrue ==
  boot = "running" =>
    LET map == zero_page.e820
        usable == {e \in map : e.type = RAM}
    IN  /\ {<<e.gpa, e.size>> : e \in usable} = {<<r.gpa, r.size>> : r \in mapped}
        /\ \A r \in mmio_regions : \E e \in map \ usable : e.gpa = r.gpa /\ e.size = r.size
        /\ \A e \in usable, f \in map \ usable : Apart(e, f)
        /\ zero_page.count = Cardinality(map)

\* The kernel finds every boot parameter whole: no later write into the zero page
\* hits a field, except those that are meant to replace a part of the header that
\* the bzImage brought or of the bytes that were cleared, however long that header
\* says it is; and init_size, which load_bzimage_kernel reads back from the page, is
\* still the header's.
ZeroPageFieldsSurvive ==
  boot = "running" =>
    LET writes == zero_page.writes
    IN  /\ \A i, j \in DOMAIN writes :
             i < j /\ Overlap(writes[i], writes[j]) =>
               writes[i].field \in {"header", "cleared"} \/ writes[i] = writes[j]
        /\ \A b \in 0 .. 3 : LastWrite(writes, InitSizeAt + b).field \in {"header", "init_size"}
        /\ \A w \in Range(writes) : w.at >= 0 /\ w.at + w.len <= PAGE_SIZE * SDT_UNIT

\* The vCPU starts in the kernel: the instruction pointer is at a byte that came
\* from the file, whether e_entry is physical or virtual, and code, stack and
\* everything the registers point to is mapped by the page tables and written.
StartsInKernel ==
  boot = "running" =>
    /\ \E p \in pieces : p.what = "kernel" /\ p.gpa <= cpu.rip /\ cpu.rip < p.gpa + p.size
    /\ \A p \in pieces \union {Stack} : p.gpa + p.size <= cpu.mapped
    /\ \A r \in {<<"zero_page", cpu.rsi>>, <<"page_tables", cpu.cr3>>, <<"gdt", cpu.gdtr>>} :
         \E p \in pieces : p.what = r[1] /\ p.gpa = r[2]

\* The kernel starts from what the boot prepared for it: pieces that arrive whole, a
\* memory map that is true, boot parameters nobody overwrote, and registers that point
\* to them.
BootImageIsSound == BootPiecesApart /\ MemoryMapIsTrue /\ ZeroPageFieldsSurvive /\ StartsInKernel

\* What the guest learns from ACPI is so: the tables are where their pointers say, and
\* the devices in them exist, answer, interrupt and are apart.
AcpiTellsTheTruth == AcpiPointersHit /\ AcpiHardwareExists /\ AcpiDevicesApart /\ AdvertisedIsServed
=============================================================================
