----------------------------- MODULE MCMachine ------------------------------
(***************************************************************************)
(* The real layout in units of four bytes, for one to six gigabytes of     *)
(* memory, the probes being the addresses around every boundary.           *)
(***************************************************************************)
EXTENDS VmLifecycle

SomeMemories == {n * GIB : n \in 1 .. 6}
Around(a) == {a - 2, a - 1, a, a + 1, a + 2}
Boundaries == {GIB, 3 * GIB, 5 * GIB, 7 * GIB, RAM_64BIT_START}
  \union {PCI_MMCONFIG_START, PCI_MMCONFIG_START + PCI_MMCONFIG_SIZE}
  \union {VirtioBase(n) : n \in 0 .. 4} \union {IOAPIC_START, IOAPIC_START + IOAPIC_SIZE}
SomeProbes == {0, 1, 2} \union UNION {Around(a) : a \in Boundaries}

\* The length of the DSDT depends on the AML encoder; it is made up, and no multiple of
\* four.

BzImage(size) ==
  [format |-> "bzimage", valid |-> TRUE, size |-> size, size_byte |-> 106, init_size |-> 2 * size]
Segment(is_load, vaddr, paddr, filesz, memsz) ==
  [load |-> is_load, vaddr |-> vaddr, paddr |-> paddr, filesz |-> filesz, memsz |-> memsz]
Elf(entry, segments) == [format |-> "elf", valid |-> TRUE, entry |-> entry, segments |-> segments]

\* The kernel's text at 16 MiB and at -2 GiB + 16 MiB, data with a bss, per-CPU
\* data whose virtual addresses start at 0, and a note.
Text == 4194304
Vmlinux(entry) ==
  Elf(entry, <<Segment(TRUE, Text - 2 * GIB, Text, 40000, 40000),
               Segment(TRUE, Text + 65536 - 2 * GIB, Text + 65536, 3000, 9000),
               Segment(TRUE, 0, Text + 131072, 2000, 2000),
               Segment(FALSE, Text, Text, 10, 10)>>)

\* A bzImage, one that needs more than a gigabyte, one with a bad header, one with the
\* longest header there can be; an ELF kernel with either kind of entry point, without a
\* segment, and in the device hole.
SomeKernels ==
  {BzImage(3000000), BzImage(GIB), [BzImage(3000000) EXCEPT !.valid = FALSE],
   [BzImage(3000000) EXCEPT !.size_byte = 255],
   Vmlinux(Text + 64), Vmlinux(Text + 64 - 2 * GIB),
   Elf(0, <<Segment(FALSE, 0, Text, 10, 10)>>),
   Elf(3 * GIB, <<Segment(TRUE, 3 * GIB, 3 * GIB, 10, 10)>>)}
=============================================================================
