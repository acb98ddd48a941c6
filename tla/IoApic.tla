------------------------------- MODULE IoApic -------------------------------
(***************************************************************************)
(* The software I/O APIC, src/devices/legacy/ioapic.rs.                    *)
(*                                                                         *)
(* The chip is one struct behind a mutex.  Device workers call set_irq and *)
(* the vCPU thread calls clear_irq and the MMIO write handler, so every    *)
(* operation but one is a single step.  The exception is the EOI loop: it  *)
(* is modelled pin by pin, and "scan" both holds its cursor and says that  *)
(* the lock is taken (LockFree is the guard of every other operation).     *)
(*                                                                         *)
(* A redirection entry keeps the bits the handlers look at.  Polarity,     *)
(* destination mode and delivery mode only shape the word passed to        *)
(* WHvRequestInterrupt.  The ID register, irq_eoi and the delivery status  *)
(* bit are written and never consulted, so they are left out.              *)
(*                                                                         *)
(* An operator named X_<fault> is a deliberately faulty variant of X that  *)
(* no specification uses: some property must tell it apart from X.         *)
(***************************************************************************)
EXTENDS Integers

CONSTANTS NumPins,  \* IOAPIC_NUM_PINS
          Vectors,  \* the interrupt vectors guests program
          Dests,    \* the destination APIC ids guests program
          RegWords  \* the words guests write to the register selector

ASSUME IoApicAssumption ==
  /\ NumPins \in Nat \ {0}
  /\ 0 \in Vectors
  /\ 0 \in Dests
  /\ RegWords \subseteq Nat

VARIABLES ioregsel,  \* the register IO_WIN gives access to
          irr,       \* the set of pins whose IRR bit is set
          ioredtbl,  \* the redirection table
          scan,      \* cursor of the EOI loop; pin = NumPins when it is not running
          injected   \* the WHvRequestInterrupt calls made by the last step

vars == <<ioregsel, irr, ioredtbl, scan, injected>>

Pins == 0 .. NumPins - 1

Entry == [masked : BOOLEAN, level : BOOLEAN, remoteIrr : BOOLEAN,
          vector : Vectors, dest : Dests]

\* The writable fields of an entry: the low word holds masked, level and
\* vector, the high word holds dest.
Word == [masked : BOOLEAN, level : BOOLEAN, vector : Vectors, dest : Dests]

Request == [pin : Pins, vector : Vectors, level : BOOLEAN, dest : Dests]

IOAPIC_REG_REDTBL_BASE == 16

RedtblIndex(reg) == (reg - IOAPIC_REG_REDTBL_BASE) \div 2

\* IO_APIC_ID, VER, ARB and the numbers below 0x10 are not table registers;
\* an index past the last pin is refused.
IsRedtblReg(reg) ==
  /\ reg >= IOAPIC_REG_REDTBL_BASE
  /\ RedtblIndex(reg) < NumPins

LockFree == scan.pin = NumPins

-----------------------------------------------------------------------------
(* Delivery.  The loop of service() looks at each pin on its own, so its   *)
(* result is stated per pin: rr is the IRR, tbl the redirection table.     *)

inject_interrupt(p, e) ==
  [pin |-> p, vector |-> e.vector, level |-> e.level, dest |-> e.dest]

ServicedIrr_MaskIgnored(rr, tbl) == {p \in rr : tbl[p].level}

\* An edge pin is consumed by its delivery; a level pin stays asserted.
ServicedIrr(rr, tbl) == {p \in rr : tbl[p].masked \/ tbl[p].level}

ServicedTbl(rr, tbl) ==
  [p \in Pins |-> IF p \in rr /\ ~tbl[p].masked /\ tbl[p].level
                  THEN [tbl[p] EXCEPT !.remoteIrr = TRUE]
                  ELSE tbl[p]]

\* A level pin whose Remote IRR is already set is coalesced.
ServicedRequests(rr, tbl) ==
  {inject_interrupt(p, tbl[p]) :
     p \in {q \in rr : ~tbl[q].masked /\ ~(tbl[q].level /\ tbl[q].remoteIrr)}}

service(rr, tbl) ==
  /\ irr' = ServicedIrr(rr, tbl)
  /\ ioredtbl' = ServicedTbl(rr, tbl)
  /\ injected' = ServicedRequests(rr, tbl)

-----------------------------------------------------------------------------
(* Operations of the IrqChip trait.  A line number past the table is       *)
(* logged and ignored, so lines range over the pins.                       *)

set_irq_NoService(p) ==
  /\ LockFree
  /\ irr' = irr \union {p}
  /\ injected' = {}
  /\ UNCHANGED <<ioregsel, ioredtbl, scan>>

set_irq(p) ==
  /\ LockFree
  /\ service(irr \union {p}, ioredtbl)
  /\ UNCHANGED <<ioregsel, scan>>

clear_irq(p) ==
  /\ LockFree
  /\ irr' = irr \ {p}
  /\ injected' = {}
  /\ UNCHANGED <<ioregsel, ioredtbl, scan>>

-----------------------------------------------------------------------------
(* MMIO writes by the vCPU. *)

\* The selector keeps the low byte of the word.
WriteRegSel(val) ==
  /\ LockFree
  /\ ioregsel' = val % 256
  /\ injected' = {}
  /\ UNCHANGED <<irr, ioredtbl, scan>>

WriteHalf_TakesRemoteIrr(e, reg, w) ==
  IF reg % 2 = 1
  THEN [e EXCEPT !.dest = w.dest]
  ELSE [e EXCEPT !.masked = w.masked, !.level = w.level, !.vector = w.vector,
                 !.remoteIrr = IF "remoteIrr" \in DOMAIN w THEN w.remoteIrr ELSE @]

\* Half of the entry is replaced; Remote IRR is read-only to the guest.
WriteHalf(e, reg, w) ==
  IF reg % 2 = 1
  THEN [e EXCEPT !.dest = w.dest]
  ELSE [e EXCEPT !.masked = w.masked, !.level = w.level, !.vector = w.vector]

fix_edge_remote_irr(e) ==
  IF e.level THEN e ELSE [e EXCEPT !.remoteIrr = FALSE]

WriteWin(w) ==
  /\ LockFree
  /\ IsRedtblReg(ioregsel)
  /\ LET p == RedtblIndex(ioregsel)
         e == fix_edge_remote_irr(WriteHalf(ioredtbl[p], ioregsel, w))
     IN  service(irr, [ioredtbl EXCEPT ![p] = e])
  /\ UNCHANGED <<ioregsel, scan>>

\* The EOI register, written by the guest or on behalf of an APIC EOI exit:
\* take the lock and start the loop over the pins.
WriteEoi(v) ==
  /\ LockFree
  /\ scan' = [vector |-> v, pin |-> 0]
  /\ injected' = {}
  /\ UNCHANGED <<ioregsel, irr, ioredtbl>>

EoiMatches_AnyVector(p) ==
  ioredtbl[p].remoteIrr

\* The entry the EOI acknowledges.
EoiMatches(p) ==
  /\ ioredtbl[p].vector = scan.vector
  /\ ioredtbl[p].remoteIrr

\* One iteration: clear Remote IRR of a matching pin and, when the pin is
\* still asserted, service every pin.
ScanPin ==
  /\ ~LockFree
  /\ LET p   == scan.pin
         tbl == [ioredtbl EXCEPT ![p].remoteIrr = FALSE]
     IN  \/ /\ EoiMatches(p)
            /\ p \in irr
            /\ service(irr, tbl)
         \/ /\ EoiMatches(p)
            /\ p \notin irr
            /\ ioredtbl' = tbl
            /\ injected' = {}
            /\ UNCHANGED irr
         \/ /\ ~EoiMatches(p)
            /\ injected' = {}
            /\ UNCHANGED <<irr, ioredtbl>>
  /\ scan' = [scan EXCEPT !.pin = @ + 1]
  /\ UNCHANGED ioregsel

-----------------------------------------------------------------------------

Init ==
  /\ ioregsel = 0
  /\ irr = {}
  /\ ioredtbl = [p \in Pins |-> [masked |-> TRUE, level |-> FALSE, remoteIrr |-> FALSE,
                                 vector |-> 0, dest |-> 0]]
  /\ scan = [vector |-> 0, pin |-> NumPins]
  /\ injected = {}

Next ==
  \/ \E p \in Pins : set_irq(p) \/ clear_irq(p)
  \/ \E val \in RegWords : WriteRegSel(val)
  \/ \E w \in Word : WriteWin(w)
  \/ \E v \in Vectors : WriteEoi(v)
  \/ ScanPin

Spec == Init /\ [][Next]_vars

-----------------------------------------------------------------------------
(* Properties. *)

\* Every variable holds a value the struct can hold, and the EOI cursor stays
\* within the table.
TypeOK ==
  /\ ioregsel \in 0 .. 255
  /\ irr \in SUBSET Pins
  /\ ioredtbl \in [Pins -> Entry]
  /\ scan \in [vector : Vectors, pin : 0 .. NumPins]
  /\ injected \in SUBSET Request

\* No operation leaves deliverable work behind: whenever a pin is asserted and
\* unmasked, it is a level pin whose interrupt the guest has yet to EOI.  (An
\* edge pin is delivered at once; unmasking, retriggering or an EOI delivers
\* what had to wait.)
NothingServiceableWaits ==
  \A p \in irr : ~ioredtbl[p].masked => ioredtbl[p].level /\ ioredtbl[p].remoteIrr

\* Remote IRR means "a level interrupt is in service": a pin reprogrammed to
\* edge does not keep it, or the pin would look busy when it is made level again.
RemoteIrrIsLevel ==
  \A p \in Pins : ioredtbl[p].remoteIrr => ioredtbl[p].level

\* An asserted pin is forgotten only by clear_irq or because its interrupt was
\* requested from the hypervisor: masking, reprogramming and EOIs of other
\* vectors lose nothing.
AssertionNotLost ==
  [][\A p \in irr \ irr' : clear_irq(p) \/ \E r \in injected' : r.pin = p]_vars

\* A level interrupt in service is not requested a second time before its EOI,
\* however many set_irq calls, table writes or EOIs of other vectors come between.
LevelOncePerEoi ==
  [][\A r \in injected' :
        r.level /\ ioredtbl[r.pin].remoteIrr
          => ~LockFree /\ scan.pin = r.pin /\ scan.vector = r.vector]_vars

\* The service() call inside the EOI loop scans all pins, yet an EOI re-delivers
\* only pins it acknowledged.
EoiRedeliversOnlyAcked ==
  [][~LockFree => \A r \in injected' : r.pin = scan.pin /\ r.vector = scan.vector]_vars

\* An EOI (ioapic.rs, lines 413-432) is what permits a level interrupt to be
\* requested again, and it permits that only for the pins it acknowledged.
EoiRedelivery == LevelOncePerEoi /\ EoiRedeliversOnlyAcked

\* The inductive invariant of the chip: between two operations of set_irq, clear_irq,
\* the register writes and the EOI loop, fields keep their widths, nothing
\* deliverable waits, and Remote IRR belongs to level pins.
IInv == TypeOK /\ NothingServiceableWaits /\ RemoteIrrIsLevel
=============================================================================
