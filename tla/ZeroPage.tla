------------------------------ MODULE ZeroPage ------------------------------
(***************************************************************************)
(* How src/linux_boot.rs fills the page of boot parameters ("zero page"):  *)
(* the setup header, which a bzImage brings and which is made up for an    *)
(* ELF kernel, and then the fields common to both.  The page is the list   *)
(* of writes into it, in order, each with its first byte, its length and   *)
(* the field it is for.                                                    *)
(*                                                                         *)
(* An operator named X_<fault> is a deliberately faulty variant of X that  *)
(* no specification uses: some property must tell it apart from X.         *)
(***************************************************************************)
EXTENDS Integers, Sequences

Write(at, len, field) == [at |-> at, len |-> len, field |-> field]

\* Offsets: 497 is 0x1f1, where the header begins, and 514 is 0x202, from where its
\* last byte is counted.
HeaderStart == 497
MagicAt == 514
InitSizeAt == 608  \* 0x260
E820At == 720      \* 0x2d0
E820EntrySize == 20

\* The header of a bzImage, whose length depends on the byte at 0x201 of the file.
setup_bzimage_boot_params(size_byte) ==
  <<Write(HeaderStart, MagicAt + size_byte - HeaderStart, "header")>>

setup_elf_boot_params ==
  <<Write(HeaderStart, 1, "setup_sects"), Write(MagicAt, 4, "magic"), Write(518, 2, "version"),
    Write(InitSizeAt, 4, "init_size")>>

\* Loader type, flags, code32_start, heap_end_ptr, cmd_line_ptr.
LoaderFields ==
  <<Write(528, 1, "type_of_loader"), Write(529, 1, "loadflags"), Write(532, 4, "code32_start"),
    Write(548, 2, "heap_end_ptr"), Write(552, 4, "cmd_line_ptr")>>

\* The bytes 0x1e0 to 0x1ee, among them the number of memory map entries.
Cleared == Write(480, 15, "cleared")
E820Number == Write(488, 1, "e820_count")

write_e820(count) ==
  [i \in 1 .. count |-> Write(E820At + (i - 1) * E820EntrySize, E820EntrySize, "e820")]

CommonFields_CountFirst(count) ==
  LoaderFields \o <<E820Number>> \o <<Cleared, Write(MagicAt, 4, "magic")>> \o write_e820(count)

\* fill_boot_params.
CommonFields(count) ==
  LoaderFields \o <<Cleared, Write(MagicAt, 4, "magic")>> \o write_e820(count) \o <<E820Number>>

-----------------------------------------------------------------------------

Overlap(w, v) == w.at < v.at + v.len /\ v.at < w.at + w.len

\* The byte at an offset is the one that was last written.
LastWrite(writes, at) ==
  LET hits == {i \in DOMAIN writes : writes[i].at <= at /\ at < writes[i].at + writes[i].len}
  IN  IF hits = {} THEN Write(at, 1, "zero")
      ELSE writes[CHOOSE i \in hits : \A j \in hits : j <= i]
=============================================================================
