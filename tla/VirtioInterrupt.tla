-------------------------- MODULE VirtioInterrupt ---------------------------
(***************************************************************************)
(* The way of a virtio interrupt: InterruptTransport in                    *)
(* src/devices/virtio/mmio.rs, the I/O APIC, the exits of the vCPU thread  *)
(* (src/vm.rs) and the guest's handler.  Each device owns one pin and has  *)
(* one worker thread; there is one vCPU, as main.rs configures it.         *)
(*                                                                         *)
(* try_signal and the InterruptAck register both touch the status word and *)
(* then, under another lock, the pin.  Those are two steps each, and the   *)
(* other thread may run in between.  Only the VRING bit of the status is   *)
(* ever signalled, so the status of a device is a Boolean.                 *)
(*                                                                         *)
(* The guest's handler and the local APIC are external.  The handler reads *)
(* the status, acknowledges what it read and then looks at the used ring.  *)
(* An edge interrupt is ended before the handler runs and causes no exit;  *)
(* a level interrupt is ended after it, which exits to the program.        *)
(*                                                                         *)
(* An operator named X_<fault> is a deliberately faulty variant of X that  *)
(* no specification uses: some property must tell it apart from X.         *)
(***************************************************************************)
EXTENDS Integers, FiniteSets

CONSTANTS NumPins, Vectors, Dests, RegWords,
          VectorOf,  \* the vector the guest gave each pin
          Levels     \* whether guests program the pins level-triggered

\* There are pins, and the guest gives each a vector of its own.
ASSUME InterruptAssumption ==
  /\ NumPins \in Nat \ {0}
  /\ VectorOf \in [0 .. NumPins - 1 -> Vectors]
  /\ \A p, q \in 0 .. NumPins - 1 : VectorOf[p] = VectorOf[q] => p = q
  /\ Levels \subseteq BOOLEAN

VARIABLES ioregsel, irr, ioredtbl, scan, injected,  \* the I/O APIC
          status,   \* status[p]: InterruptTransportInner::status of p's device
          used,     \* used[p]: the used ring holds what the guest has not seen
          wpc,      \* wpc[p]: where p's worker is in try_signal
          level,    \* whether this guest did: InterruptTransport does not care
          gpc, cur, \* where the vCPU is, and the pin it serves
          pending, inService  \* the local APIC's requested and accepted vectors

chip == <<ioregsel, irr, ioredtbl, scan, injected>>
lapic == <<pending, inService>>
vars == <<chip, status, used, wpc, gpc, cur, level, lapic>>

Chip == INSTANCE IoApic

Pins == Chip!Pins

\* WHvRequestInterrupt hands the requests of an I/O APIC step to the local APIC.
Deliver == pending' = pending \union {r.vector : r \in injected'}

-----------------------------------------------------------------------------
(* Worker threads. *)

\* add_used has returned a batch; the worker goes on to try_signal.
Complete(p) ==
  /\ wpc[p] = "idle"
  /\ used' = [used EXCEPT ![p] = TRUE]
  /\ wpc' = [wpc EXCEPT ![p] = "first"]
  /\ UNCHANGED <<chip, status, gpc, cur, level, lapic>>

FetchOr(p, from, to) ==
  /\ wpc[p] = from
  /\ status' = [status EXCEPT ![p] = TRUE]
  /\ wpc' = [wpc EXCEPT ![p] = to]
  /\ UNCHANGED <<chip, used, gpc, cur, level, lapic>>

SetLine(p, from, to) ==
  /\ wpc[p] = from
  /\ Chip!set_irq(p)
  /\ Deliver
  /\ wpc' = [wpc EXCEPT ![p] = to]
  /\ UNCHANGED <<status, used, gpc, cur, level, inService>>

try_signal_LineFirst(p) ==
  SetLine(p, "first", "second") \/ FetchOr(p, "second", "idle")

\* The status bit first, then the line.
try_signal(p) ==
  FetchOr(p, "first", "second") \/ SetLine(p, "second", "idle")

-----------------------------------------------------------------------------
(* The vCPU thread. *)

\* The local APIC accepts a vector; an edge interrupt is ended at once.
TakeVector(p) ==
  /\ gpc = "run"
  /\ VectorOf[p] \in pending
  /\ pending' = pending \ {VectorOf[p]}
  /\ inService' = IF level THEN {VectorOf[p]} ELSE {}
  /\ cur' = p
  /\ gpc' = "read"
  /\ UNCHANGED <<chip, status, used, wpc, level>>

AfterHandler == IF level THEN "eoi" ELSE "run"

\* Register 0x60.  A handler that reads zero returns.
ReadStatus ==
  /\ gpc = "read"
  /\ gpc' = IF status[cur] THEN "ack" ELSE AfterHandler
  /\ UNCHANGED <<chip, status, used, wpc, cur, level, lapic>>

\* Register 0x64 with the bit that was read: fetch_and leaves zero ...
InterruptAck ==
  /\ gpc = "ack"
  /\ status' = [status EXCEPT ![cur] = FALSE]
  /\ gpc' = "clear"
  /\ UNCHANGED <<chip, used, wpc, cur, level, lapic>>

\* ... so the handler de-asserts the line.
try_clear_irq ==
  /\ gpc = "clear"
  /\ Chip!clear_irq(cur)
  /\ Deliver
  /\ gpc' = "handle"
  /\ UNCHANGED <<status, used, wpc, cur, level, inService>>

HandleUsed ==
  /\ gpc = "handle"
  /\ used' = [used EXCEPT ![cur] = FALSE]
  /\ gpc' = AfterHandler
  /\ UNCHANGED <<chip, status, wpc, cur, level, lapic>>

ApicEoi_NotForwarded ==
  /\ gpc = "eoi"
  /\ inService' = {}
  /\ gpc' = "run"
  /\ UNCHANGED <<chip, status, used, wpc, cur, level, pending>>

\* The X64ApicEoi exit writes the vector to the I/O APIC's EOI register.
ApicEoi ==
  /\ gpc = "eoi"
  /\ inService' = {}
  /\ Chip!WriteEoi(VectorOf[cur])
  /\ Deliver
  /\ gpc' = "scan"
  /\ UNCHANGED <<status, used, wpc, cur, level>>

EoiScan ==
  /\ gpc = "scan"
  /\ Chip!ScanPin
  /\ Deliver
  /\ gpc' = IF Chip!LockFree' THEN "run" ELSE "scan"
  /\ UNCHANGED <<status, used, wpc, cur, level, inService>>

Vcpu ==
  \/ \E p \in Pins : TakeVector(p)
  \/ ReadStatus \/ InterruptAck \/ try_clear_irq \/ HandleUsed \/ ApicEoi \/ EoiScan

-----------------------------------------------------------------------------

\* The guest has programmed and unmasked every pin.
Init ==
  /\ level \in Levels
  /\ ioregsel = 0 /\ irr = {} /\ injected = {}
  /\ ioredtbl = [p \in Pins |-> [masked |-> FALSE, level |-> level, remoteIrr |-> FALSE,
                                 vector |-> VectorOf[p], dest |-> 0]]
  /\ scan = [vector |-> 0, pin |-> NumPins]
  /\ status = [p \in Pins |-> FALSE]
  /\ used = [p \in Pins |-> FALSE]
  /\ wpc = [p \in Pins |-> "idle"]
  /\ gpc = "run" /\ cur = 0
  /\ pending = {} /\ inService = {}

Next == Vcpu \/ \E p \in Pins : Complete(p) \/ try_signal(p)

\* The vCPU thread keeps running, and the local APIC does not pass over a vector
\* forever.  A worker inside try_signal waits for the chip's lock, which the EOI
\* loop takes again and again: strong fairness says that the lock does not starve
\* it.  A worker may have nothing more to complete, so Complete is not fair.
Fairness ==
  /\ WF_vars(Vcpu)
  /\ \A p \in Pins : SF_vars(try_signal(p)) /\ SF_vars(TakeVector(p))

Spec == Init /\ [][Next]_vars /\ Fairness

-----------------------------------------------------------------------------
(* Properties. *)

\* Status words, thread positions and local APIC state have values the program
\* and the processor can hold.
TypeOK ==
  /\ irr \subseteq Pins
  /\ status \in [Pins -> BOOLEAN] /\ used \in [Pins -> BOOLEAN]
  /\ wpc \in [Pins -> {"idle", "first", "second"}]
  /\ gpc \in {"run", "read", "ack", "clear", "handle", "eoi", "scan"}
  /\ cur \in Pins /\ level \in Levels
  /\ pending \subseteq Vectors /\ inService \subseteq Vectors

\* A status bit that its worker has finished signalling is on its way to the
\* edge-triggered guest: its vector is requested, or the handler has yet to read
\* the status.
SignalledIsOutstanding ==
  \A p \in Pins :
    ~level /\ status[p] /\ wpc[p] = "idle" =>
      \/ VectorOf[p] \in pending
      \/ cur = p /\ gpc \in {"read", "ack"}

\* Remote IRR, which holds back further requests of a level pin, is only set
\* while an EOI for its vector is still to come: requested, in service, or not
\* yet reached by the EOI loop.  Otherwise the pin would be silent forever.
RemoteIrrHasEoiToCome ==
  \A p \in Pins :
    ioredtbl[p].remoteIrr =>
      \/ VectorOf[p] \in pending \union inService
      \/ gpc = "scan" /\ cur = p /\ scan.pin <= p

\* No pin falls silent: neither an edge pin whose status bit nobody is going to
\* read nor a level pin whose EOI does not come (try_signal, InterruptAck, EOI exits).
NoPinFallsSilent == TypeOK /\ SignalledIsOutstanding /\ RemoteIrrHasEoiToCome

\* What a worker put in the used ring is eventually seen by the guest's handler:
\* the interrupt of a completion is not lost, however acknowledging and
\* signalling interleave.
CompletionIsSeen == \A p \in Pins : used[p] ~> ~used[p]

\* A level pin that Remote IRR holds back gets the EOI that releases it.
HeldPinGetsEoi == \A p \in Pins : ioredtbl[p].remoteIrr ~> (gpc = "scan" /\ cur = p)

\* Both ways of waiting for an interrupt end, on every pin and in both trigger modes.
InterruptsArrive == CompletionIsSeen /\ HeldPinGetsEoi

\* An EOI re-delivers a level interrupt only while its device has something to
\* report: acknowledging the last status bit de-asserts the line.
RedeliversOnlyWhenReported ==
  [][gpc = "scan" => \A r \in injected' : status[r.pin] \/ wpc[r.pin] # "idle"]_vars
=============================================================================
