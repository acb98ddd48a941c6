---------------------------- MODULE IoApicAccess ----------------------------
(***************************************************************************)
(* Reads of the I/O APIC's registers, src/devices/legacy/ioapic.rs, and    *)
(* the guest that changes an entry as kernels do: it selects the low half, *)
(* reads it, and writes it back with the mask bit set or cleared.  Device  *)
(* workers and EOIs may come between the read and the write.               *)
(*                                                                         *)
(* The arithmetic is that of a release build: in a debug build, a read of  *)
(* the registers 3 to 15 panics, where a write of them is ignored.         *)
(***************************************************************************)
EXTENDS IoApic

VARIABLES id,   \* the ID register, four bits
          seen  \* what the guest read from a low half and has not written back

access_vars == <<id, seen>>

IO_APIC_ID == 0
IO_APIC_VER == 1
IO_APIC_ARB == 2

NotSeen == [reg |-> IO_APIC_VER]

\* The word behind IO_WIN.  A high half has the destination; a number that is no
\* register of the table reads as 0.
Register(reg) ==
  CASE reg \in {IO_APIC_ID, IO_APIC_ARB} -> [reg |-> reg, id |-> id]
    [] reg = IO_APIC_VER -> [reg |-> reg, entries |-> NumPins - 1]
    [] IsRedtblReg(reg) /\ reg % 2 = 1 -> [reg |-> reg, dest |-> ioredtbl[RedtblIndex(reg)].dest]
    [] IsRedtblReg(reg) /\ reg % 2 = 0 ->
         LET e == ioredtbl[RedtblIndex(reg)]
         IN  [reg |-> reg, masked |-> e.masked, level |-> e.level, remoteIrr |-> e.remoteIrr, vector |-> e.vector]
    [] OTHER -> [reg |-> reg, none |-> 0]

\* A 32-bit read of IO_WIN; what it shows of the low half of an entry is kept.
ReadWin ==
  /\ LockFree
  /\ seen' = IF "masked" \in DOMAIN Register(ioregsel) THEN Register(ioregsel) ELSE NotSeen
  /\ injected' = {}
  /\ UNCHANGED <<ioregsel, irr, ioredtbl, scan, id>>

\* The write of what was read, with another mask bit.  The word still has the
\* Remote IRR bit as it was then.
WriteBack(mask) ==
  /\ seen # NotSeen /\ seen.reg = ioregsel
  /\ \E dest \in Dests :
       WriteWin([masked |-> mask, level |-> seen.level, vector |-> seen.vector,
                 remoteIrr |-> seen.remoteIrr, dest |-> dest])
  /\ seen' = NotSeen
  /\ UNCHANGED id

\* The ID register keeps four of the eight bits at 24; VER and ARB ignore writes.
WriteId(top) ==
  /\ LockFree /\ ioregsel = IO_APIC_ID
  /\ id' = top % 16
  /\ injected' = {}
  /\ UNCHANGED <<ioregsel, irr, ioredtbl, scan, seen>>

-----------------------------------------------------------------------------

AccessInit == Init /\ id = 0 /\ seen = NotSeen

\* A guest that writes an entry otherwise has no use for what it read before.
AccessNext ==
  \/ \E p \in Pins : (set_irq(p) \/ clear_irq(p)) /\ UNCHANGED access_vars
  \/ (\E val \in RegWords : WriteRegSel(val)) /\ UNCHANGED access_vars
  \/ (\E w \in Word : WriteWin(w)) /\ seen' = NotSeen /\ UNCHANGED id
  \/ (\E v \in Vectors : WriteEoi(v)) /\ UNCHANGED access_vars
  \/ ScanPin /\ UNCHANGED access_vars
  \/ ReadWin
  \/ \E mask \in BOOLEAN : WriteBack(mask)
  \/ \E top \in {1, 17} : WriteId(top)

AccessSpec == AccessInit /\ [][AccessNext]_<<vars, access_vars>>

-----------------------------------------------------------------------------
(* Properties. *)

\* Masking or unmasking a pin by reading its entry and writing it back leaves what
\* the chip itself keeps there: Remote IRR is neither lost nor brought back when an
\* interrupt was delivered, or its EOI came, after the read.
WriteBackKeepsRemoteIrr ==
  [][\A mask \in BOOLEAN :
       WriteBack(mask) =>
         LET p == RedtblIndex(seen.reg)
         IN  ioredtbl'[p].remoteIrr =
               (ioredtbl[p].remoteIrr \/ \E r \in injected' : r.pin = p /\ r.level)]_<<vars, access_vars>>
=============================================================================
