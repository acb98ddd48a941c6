----------------------- MODULE VirtioInterruptProofs ------------------------
(***************************************************************************)
(* No pin falls silent, for every number of devices in either trigger      *)
(* mode, and the entropy device's worker overlooks no request.             *)
(*                                                                         *)
(* The invariant adds to the properties what relates the threads: the      *)
(* guest's programming of the table stays as it is, the EOI loop runs      *)
(* exactly while the vCPU is in the EOI exit of a level interrupt, and the *)
(* local APIC has in service what the handler that runs is about.          *)
(***************************************************************************)
EXTENDS RngWorker, TLAPS

\* The table as the guest programmed it; Remote IRR belongs to level pins.
Entries == [masked : {FALSE}, level : {level}, remoteIrr : BOOLEAN, vector : Vectors, dest : {0}]

Table(tbl) ==
  /\ tbl \in [Pins -> Entries]
  /\ \A p \in Pins : tbl[p].vector = VectorOf[p] /\ (tbl[p].remoteIrr => level)

\* The EOI loop is the vCPU's, and is about the pin that was served.
Scanning ==
  /\ scan = [vector |-> scan.vector, pin |-> scan.pin] /\ scan.pin \in 0 .. NumPins
  /\ gpc = "scan" <=> scan.pin # NumPins
  /\ gpc = "scan" => scan.vector = VectorOf[cur]

\* What is in service is what the handler is about.
Serving ==
  inService = IF level /\ gpc \in {"read", "ack", "clear", "handle", "eoi"} THEN {VectorOf[cur]} ELSE {}

IInv == NoPinFallsSilent /\ Table(ioredtbl) /\ Scanning /\ Serving

\* What the proofs use of the pins: there is one, and no two share a vector.
LEMMA PinFacts ==
  /\ NumPins \in Nat /\ Pins = 0 .. NumPins - 1 /\ 0 \in Pins
  /\ \A p \in Pins : VectorOf[p] \in Vectors
  /\ \A p, q \in Pins : VectorOf[p] = VectorOf[q] => p = q
BY InterruptAssumption DEF Pins, Chip!Pins

\* The table is about the trigger mode the guest chose.
LEMMA SameTable ==
  ASSUME Table(ioredtbl), ioredtbl' = ioredtbl, level' = level
  PROVE  Table(ioredtbl)'
<1>1. Entries' = Entries
  BY DEF Entries
<1> QED  BY <1>1 DEF Table

\* The invariant holds once the guest has programmed the table.
LEMMA InitLemma == Init => IInv
<1> SUFFICES ASSUME Init PROVE IInv
  OBVIOUS
<1>1. TypeOK
  BY PinFacts DEF Init, TypeOK
<1>2. Table(ioredtbl)
  BY PinFacts DEF Init, Table, Entries
<1>3. Scanning /\ Serving
  BY PinFacts DEF Init, Scanning, Serving
<1>4. SignalledIsOutstanding /\ RemoteIrrHasEoiToCome
  BY DEF Init, SignalledIsOutstanding, RemoteIrrHasEoiToCome
<1> QED
  BY <1>1, <1>2, <1>3, <1>4 DEF IInv, NoPinFallsSilent

-----------------------------------------------------------------------------
(* The chip, with every pin unmasked. *)

\* service() requests the edge pins it is given and the level pins that are not in
\* service, and leaves the programming alone.
LEMMA ServiceLemma ==
  ASSUME NEW rr \in SUBSET Pins, NEW tbl, Table(tbl), Chip!service(rr, tbl), Deliver, level' = level,
         pending \subseteq Vectors
  PROVE  /\ irr' \subseteq Pins /\ Table(ioredtbl)' /\ pending \subseteq pending' /\ pending' \subseteq Vectors
         /\ \A p \in rr : ~level => VectorOf[p] \in pending'
         /\ \A p \in Pins : ioredtbl'[p].remoteIrr => tbl[p].remoteIrr \/ VectorOf[p] \in pending'
<1>1. /\ irr' = {p \in rr : tbl[p].masked \/ tbl[p].level}
      /\ ioredtbl' = [p \in Pins |-> IF p \in rr /\ ~tbl[p].masked /\ tbl[p].level
                                     THEN [tbl[p] EXCEPT !.remoteIrr = TRUE] ELSE tbl[p]]
      /\ injected' = {Chip!inject_interrupt(p, tbl[p]) :
                        p \in {q \in rr : ~tbl[q].masked /\ ~(tbl[q].level /\ tbl[q].remoteIrr)}}
  BY DEF Chip!service, Chip!ServicedIrr, Chip!ServicedTbl, Chip!ServicedRequests, Pins
<1>2. \A p \in Pins : /\ tbl[p].masked = FALSE /\ tbl[p].level = level /\ tbl[p].vector = VectorOf[p]
                      /\ tbl[p].remoteIrr \in BOOLEAN
  BY DEF Table, Entries
<1>3. Table(ioredtbl)'
  <2>1. ASSUME NEW p \in Pins
        PROVE  /\ ioredtbl'[p] \in Entries /\ ioredtbl'[p].vector = VectorOf[p]
               /\ (ioredtbl'[p].remoteIrr => level)
    <3>1. tbl[p] \in Entries /\ tbl[p].vector = VectorOf[p] /\ (tbl[p].remoteIrr => level)
      BY DEF Table
    <3>2. CASE ioredtbl'[p] = tbl[p]
      BY <3>1, <3>2
    <3>3. CASE ioredtbl'[p] = [tbl[p] EXCEPT !.remoteIrr = TRUE] /\ tbl[p].level
      BY <3>1, <3>3 DEF Entries
    <3> QED  BY <1>1, <3>2, <3>3
  <2>2. ioredtbl' \in [Pins -> Entries]
    BY <1>1, <2>1
  <2>3. Entries' = Entries
    BY DEF Entries
  <2> QED  BY <2>1, <2>2, <2>3 DEF Table
<1>4. \A r \in injected' : \E p \in rr : r.vector = VectorOf[p]
  BY <1>1, <1>2 DEF Chip!inject_interrupt
<1>5. ASSUME NEW p \in rr, ~(level /\ tbl[p].remoteIrr) PROVE VectorOf[p] \in pending'
  <2>1. Chip!inject_interrupt(p, tbl[p]) \in injected'
    BY <1>1, <1>2, <1>5
  <2>2. Chip!inject_interrupt(p, tbl[p]).vector = VectorOf[p]
    BY <1>2 DEF Chip!inject_interrupt
  <2> QED  BY <2>1, <2>2 DEF Deliver
<1>6. pending \subseteq pending' /\ pending' \subseteq Vectors
  BY <1>4, PinFacts DEF Deliver
<1>7. \A p \in Pins : ioredtbl'[p].remoteIrr => tbl[p].remoteIrr \/ VectorOf[p] \in pending'
  <2> SUFFICES ASSUME NEW p \in Pins, ioredtbl'[p].remoteIrr, ~tbl[p].remoteIrr
               PROVE  VectorOf[p] \in pending'
    OBVIOUS
  <2>1. p \in rr
    BY <1>1
  <2> QED  BY <1>5, <2>1
<1> QED
  BY <1>1, <1>3, <1>5, <1>6, <1>7

\* set_irq of a worker.
LEMMA SetLineLemma ==
  ASSUME IInv, NEW p \in Pins, SetLine(p, "second", "idle")
  PROVE  IInv'
<1>1. /\ TypeOK /\ Table(ioredtbl) /\ Chip!service(irr \union {p}, ioredtbl) /\ Deliver
      /\ wpc' = [wpc EXCEPT ![p] = "idle"] /\ UNCHANGED <<scan, status, used, gpc, cur, level, inService>>
  BY DEF IInv, NoPinFallsSilent, SetLine, Chip!set_irq
<1>2. irr \union {p} \in SUBSET Pins /\ pending \subseteq Vectors
  BY <1>1 DEF TypeOK
<1>3. /\ irr' \subseteq Pins /\ Table(ioredtbl)' /\ pending \subseteq pending' /\ pending' \subseteq Vectors
      /\ (~level => VectorOf[p] \in pending')
      /\ \A q \in Pins : ioredtbl'[q].remoteIrr => ioredtbl[q].remoteIrr \/ VectorOf[q] \in pending'
  BY <1>1, <1>2, ServiceLemma
<1>4. TypeOK'
  BY <1>1, <1>3 DEF TypeOK
<1>5. Scanning' /\ Serving'
  BY <1>1 DEF IInv, Scanning, Serving
<1>6. SignalledIsOutstanding'
  BY <1>1, <1>3 DEF IInv, NoPinFallsSilent, SignalledIsOutstanding, TypeOK
<1>7. RemoteIrrHasEoiToCome'
  BY <1>1, <1>3 DEF IInv, NoPinFallsSilent, RemoteIrrHasEoiToCome
<1> QED
  BY <1>3, <1>4, <1>5, <1>6, <1>7 DEF IInv, NoPinFallsSilent

\* One pin of the EOI loop.
LEMMA EoiScanLemma ==
  ASSUME IInv, EoiScan
  PROVE  IInv'
<1> DEFINE p == scan.pin
           tbl == [ioredtbl EXCEPT ![p].remoteIrr = FALSE]
<1>1. /\ TypeOK /\ Table(ioredtbl) /\ Deliver /\ UNCHANGED <<status, used, wpc, cur, level, inService>>
      /\ gpc = "scan" /\ scan.vector = VectorOf[cur] /\ scan' = [scan EXCEPT !.pin = @ + 1]
      /\ gpc' = IF (scan.pin = NumPins)' THEN "run" ELSE "scan"
  BY DEF IInv, NoPinFallsSilent, EoiScan, Scanning, Chip!ScanPin, Chip!LockFree
<1>2. p \in 0 .. NumPins /\ p # NumPins /\ scan = [vector |-> scan.vector, pin |-> p]
  BY <1>1 DEF IInv, Scanning
<1>3. p \in Pins /\ p \in Nat
  BY <1>2, PinFacts
<1>4. scan'.pin = p + 1 /\ scan' = [vector |-> scan.vector, pin |-> p + 1]
  BY <1>1, <1>2
<1>5. Scanning'
  BY <1>1, <1>2, <1>3, <1>4, PinFacts DEF Scanning
<1>6. Serving' /\ inService = {}
  BY <1>1 DEF IInv, Serving
<1>7. Table(tbl) /\ ~tbl[p].remoteIrr /\ \A q \in Pins : q # p => tbl[q] = ioredtbl[q]
  <2>1. ioredtbl[p] \in Entries /\ ioredtbl \in [Pins -> Entries]
    BY <1>1, <1>3 DEF Table
  <2>2. /\ [ioredtbl[p] EXCEPT !.remoteIrr = FALSE] \in Entries
        /\ ~[ioredtbl[p] EXCEPT !.remoteIrr = FALSE].remoteIrr
        /\ [ioredtbl[p] EXCEPT !.remoteIrr = FALSE].vector = ioredtbl[p].vector
    BY <2>1 DEF Entries
  <2>3. tbl = [ioredtbl EXCEPT ![p] = [ioredtbl[p] EXCEPT !.remoteIrr = FALSE]]
    BY <2>1
  <2> HIDE DEF tbl
  <2>4. tbl \in [Pins -> Entries] /\ tbl[p] = [ioredtbl[p] EXCEPT !.remoteIrr = FALSE]
        /\ \A q \in Pins : q # p => tbl[q] = ioredtbl[q]
    BY <1>3, <2>1, <2>2, <2>3
  <2> QED
    BY <1>1, <2>2, <2>4 DEF Table
<1>8. irr \in SUBSET Pins /\ pending \subseteq Vectors
  BY <1>1 DEF TypeOK
<1> HIDE DEF tbl
<1>9. /\ irr' \subseteq Pins /\ Table(ioredtbl)' /\ pending \subseteq pending' /\ pending' \subseteq Vectors
      /\ \A q \in Pins : ioredtbl'[q].remoteIrr => ioredtbl[q].remoteIrr \/ VectorOf[q] \in pending'
      /\ cur = p => (ioredtbl'[p].remoteIrr => VectorOf[p] \in pending')
  <2>1. CASE Chip!service(irr, tbl)
    <3>1. /\ irr' \subseteq Pins /\ Table(ioredtbl)' /\ pending \subseteq pending' /\ pending' \subseteq Vectors
          /\ \A q \in Pins : ioredtbl'[q].remoteIrr => tbl[q].remoteIrr \/ VectorOf[q] \in pending'
      BY <1>1, <1>7, <1>8, <2>1, ServiceLemma
    <3> QED  BY <1>3, <1>7, <3>1
  <2>2. CASE ioredtbl' = tbl /\ injected' = {} /\ irr' = irr
    <3>1. pending' = pending
      BY <1>1, <2>2 DEF Deliver
    <3>2. Table(ioredtbl)'
      BY <1>1, <1>7, <2>2 DEF Table, Entries
    <3> QED  BY <1>3, <1>7, <1>8, <2>2, <3>1, <3>2
  <2>3. CASE ~Chip!EoiMatches(p) /\ injected' = {} /\ UNCHANGED <<irr, ioredtbl>>
    <3>1. pending' = pending
      BY <1>1, <2>3 DEF Deliver
    <3>2. Table(ioredtbl)'
      BY <1>1, <2>3 DEF Table, Entries
    <3>3. cur = p => ~ioredtbl[p].remoteIrr
      <4>1. ioredtbl[p].vector = VectorOf[p]
        BY <1>1, <1>3 DEF Table, Entries
      <4> QED  BY <1>1, <2>3, <4>1 DEF Chip!EoiMatches
    <3> QED  BY <1>8, <2>3, <3>1, <3>2, <3>3
  <2> QED
    BY <2>1, <2>2, <2>3 DEF EoiScan, Chip!ScanPin, tbl
<1>10. TypeOK'
  BY <1>1, <1>9 DEF TypeOK
<1>11. SignalledIsOutstanding'
  BY <1>1, <1>9 DEF IInv, NoPinFallsSilent, SignalledIsOutstanding
<1>12. RemoteIrrHasEoiToCome'
  <2> SUFFICES ASSUME NEW q \in Pins, ioredtbl'[q].remoteIrr, VectorOf[q] \notin pending'
               PROVE  gpc' = "scan" /\ cur' = q /\ scan'.pin <= q
    BY DEF RemoteIrrHasEoiToCome
  <2>1. ioredtbl[q].remoteIrr /\ VectorOf[q] \notin pending
    BY <1>9
  <2>2. cur = q /\ p <= q
    BY <1>6, <2>1 DEF IInv, NoPinFallsSilent, RemoteIrrHasEoiToCome
  <2>3. p # q
    BY <1>9, <2>2
  <2>4. p + 1 <= q /\ p + 1 # NumPins
    BY <1>3, <2>2, <2>3, PinFacts
  <2> QED
    BY <1>1, <1>4, <2>2, <2>4
<1> QED
  BY <1>5, <1>6, <1>9, <1>10, <1>11, <1>12 DEF IInv, NoPinFallsSilent

-----------------------------------------------------------------------------
(* The other steps. *)

\* Steps that leave chip and local APIC alone.
LEMMA QuietLemma ==
  ASSUME IInv, UNCHANGED <<chip, lapic, level>>, TypeOK', SignalledIsOutstanding', cur' = cur,
         \/ gpc \notin {"run", "scan"} /\ gpc' \in {"read", "ack", "clear", "handle", AfterHandler}
         \/ gpc' = gpc
  PROVE  IInv'
<1>1. UNCHANGED <<irr, ioredtbl, scan, pending, inService, level, cur>>
  BY DEF chip, lapic
<1>2. Table(ioredtbl)'
  BY <1>1, SameTable DEF IInv
<1>3. level \in BOOLEAN
  BY InterruptAssumption DEF IInv, NoPinFallsSilent, TypeOK
<1>4. gpc \in {"run", "read", "ack", "clear", "handle", "eoi", "scan"}
  BY DEF IInv, NoPinFallsSilent, TypeOK
<1>5. Scanning' /\ Serving' /\ (gpc' = "scan" <=> gpc = "scan")
  BY <1>1, <1>3, <1>4 DEF IInv, Scanning, Serving, AfterHandler
<1>6. RemoteIrrHasEoiToCome'
  BY <1>1, <1>5 DEF IInv, NoPinFallsSilent, RemoteIrrHasEoiToCome
<1> QED
  BY <1>2, <1>5, <1>6 DEF IInv, NoPinFallsSilent

\* The handler of the guest.
LEMMA HandleLemma ==
  ASSUME IInv, HandleUsed
  PROVE  IInv'
<1>1. /\ UNCHANGED <<chip, lapic, level, cur, wpc, status>> /\ gpc = "handle" /\ gpc' = AfterHandler
      /\ used' = [used EXCEPT ![cur] = FALSE]
  BY DEF HandleUsed
<1>2. TypeOK' /\ SignalledIsOutstanding'
  BY <1>1 DEF IInv, NoPinFallsSilent, TypeOK, SignalledIsOutstanding, chip, lapic, AfterHandler
<1> QED  BY <1>1, <1>2, QuietLemma

\* A step of a worker, of the vCPU or of the local APIC keeps the invariant.
LEMMA NextLemma == IInv /\ Next => IInv'
<1> SUFFICES ASSUME IInv, Next PROVE IInv'
  OBVIOUS
<1>1. TypeOK /\ SignalledIsOutstanding /\ level \in BOOLEAN
  BY InterruptAssumption DEF IInv, NoPinFallsSilent, TypeOK
<1>2. ASSUME NEW p \in Pins, Complete(p) PROVE IInv'
  <2>1. UNCHANGED <<chip, lapic, level, cur, gpc, status>>
    BY <1>2 DEF Complete
  <2>2. TypeOK' /\ SignalledIsOutstanding'
    BY <1>1, <1>2 DEF Complete, TypeOK, SignalledIsOutstanding, chip, lapic
  <2> QED  BY <2>1, <2>2, QuietLemma
<1>3. ASSUME NEW p \in Pins, FetchOr(p, "first", "second") PROVE IInv'
  <2>1. UNCHANGED <<chip, lapic, level, cur, gpc>>
    BY <1>3 DEF FetchOr
  <2>2. TypeOK' /\ SignalledIsOutstanding'
    BY <1>1, <1>3 DEF FetchOr, TypeOK, SignalledIsOutstanding, chip, lapic
  <2> QED  BY <2>1, <2>2, QuietLemma
<1>4. ASSUME NEW p \in Pins, SetLine(p, "second", "idle") PROVE IInv'
  BY <1>4, SetLineLemma
<1>5. ASSUME NEW p \in Pins, TakeVector(p) PROVE IInv'
  <2>1. /\ gpc = "run" /\ gpc' = "read" /\ cur' = p /\ pending' = pending \ {VectorOf[p]}
        /\ inService' = IF level THEN {VectorOf[p]} ELSE {}
        /\ UNCHANGED <<irr, ioredtbl, scan, status, used, wpc, level>>
    BY <1>5 DEF TakeVector, chip
  <2>2. TypeOK'
    BY <1>1, <2>1, PinFacts DEF TypeOK
  <2>3. Table(ioredtbl)'
    BY <2>1, SameTable DEF IInv
  <2>4. Scanning' /\ Serving'
    BY <2>1 DEF IInv, Scanning, Serving
  <2>5. SignalledIsOutstanding'
    BY <1>1, <2>1, PinFacts DEF SignalledIsOutstanding
  <2>6. RemoteIrrHasEoiToCome'
    <3> SUFFICES ASSUME NEW q \in Pins, ioredtbl[q].remoteIrr
                 PROVE  VectorOf[q] \in pending' \union inService'
      BY <2>1 DEF RemoteIrrHasEoiToCome
    <3>1. VectorOf[q] \in pending
      BY <2>1 DEF IInv, NoPinFallsSilent, RemoteIrrHasEoiToCome, Serving
    <3>2. level
      BY DEF IInv, Table
    <3> QED  BY <2>1, <3>1, <3>2
  <2> QED
    BY <2>2, <2>3, <2>4, <2>5, <2>6 DEF IInv, NoPinFallsSilent
<1>6. CASE ReadStatus
  <2>1. UNCHANGED <<chip, lapic, level, cur, status, wpc, used>> /\ gpc = "read"
        /\ gpc' = IF status[cur] THEN "ack" ELSE AfterHandler
    BY <1>6 DEF ReadStatus
  <2>2. TypeOK' /\ SignalledIsOutstanding'
    BY <1>1, <2>1 DEF TypeOK, SignalledIsOutstanding, chip, lapic, AfterHandler
  <2> QED  BY <2>1, <2>2, QuietLemma
<1>7. CASE InterruptAck
  <2>1. /\ UNCHANGED <<chip, lapic, level, cur, wpc, used>> /\ gpc = "ack" /\ gpc' = "clear"
        /\ status' = [status EXCEPT ![cur] = FALSE]
    BY <1>7 DEF InterruptAck
  <2>2. TypeOK' /\ SignalledIsOutstanding'
    BY <1>1, <2>1 DEF TypeOK, SignalledIsOutstanding, chip, lapic
  <2> QED  BY <2>1, <2>2, QuietLemma
<1>8. CASE HandleUsed
  BY <1>8, HandleLemma
<1>9. CASE try_clear_irq
  <2>1. /\ gpc = "clear" /\ gpc' = "handle" /\ irr' = irr \ {cur} /\ injected' = {} /\ Deliver
        /\ UNCHANGED <<ioredtbl, scan, status, used, wpc, cur, level, inService>>
    BY <1>9 DEF try_clear_irq, Chip!clear_irq
  <2>2. pending' = pending
    BY <2>1 DEF Deliver
  <2>3. TypeOK'
    BY <1>1, <2>1, <2>2 DEF TypeOK
  <2>4. Table(ioredtbl)'
    BY <2>1, SameTable DEF IInv
  <2>5. Scanning' /\ Serving'
    BY <2>1 DEF IInv, Scanning, Serving
  <2>6. SignalledIsOutstanding'
    BY <1>1, <2>1, <2>2 DEF SignalledIsOutstanding
  <2>7. RemoteIrrHasEoiToCome'
    BY <2>1, <2>2 DEF IInv, NoPinFallsSilent, RemoteIrrHasEoiToCome
  <2> QED
    BY <2>3, <2>4, <2>5, <2>6, <2>7 DEF IInv, NoPinFallsSilent
<1>10. CASE ApicEoi
  <2>1. /\ gpc = "eoi" /\ gpc' = "scan" /\ inService' = {} /\ injected' = {} /\ Deliver
        /\ scan' = [vector |-> VectorOf[cur], pin |-> 0]
        /\ UNCHANGED <<irr, ioredtbl, status, used, wpc, cur, level>>
    BY <1>10 DEF ApicEoi, Chip!WriteEoi
  <2>2. pending' = pending
    BY <2>1 DEF Deliver
  <2>3. TypeOK'
    BY <1>1, <2>1, <2>2 DEF TypeOK
  <2>4. Table(ioredtbl)'
    BY <2>1, SameTable DEF IInv
  <2>5. Scanning'
    BY <2>1, PinFacts, InterruptAssumption DEF Scanning
  <2>6. Serving'
    BY <2>1 DEF Serving
  <2>7. SignalledIsOutstanding'
    BY <1>1, <2>1, <2>2 DEF SignalledIsOutstanding
  <2>8. RemoteIrrHasEoiToCome'
    <3> SUFFICES ASSUME NEW q \in Pins, ioredtbl[q].remoteIrr, VectorOf[q] \notin pending
                 PROVE  cur = q /\ 0 <= q
      BY <2>1, <2>2 DEF RemoteIrrHasEoiToCome
    <3>1. VectorOf[q] \in inService
      BY <2>1 DEF IInv, NoPinFallsSilent, RemoteIrrHasEoiToCome
    <3>2. VectorOf[q] = VectorOf[cur] /\ cur \in Pins
      BY <1>1, <3>1 DEF IInv, Serving, TypeOK
    <3> QED  BY <3>2, PinFacts
  <2> QED
    BY <2>3, <2>4, <2>5, <2>6, <2>7, <2>8 DEF IInv, NoPinFallsSilent
<1>11. CASE EoiScan
  BY <1>11, EoiScanLemma
<1> QED
  BY <1>2, <1>3, <1>4, <1>5, <1>6, <1>7, <1>8, <1>9, <1>10, <1>11 DEF Next, Vcpu, try_signal

\* Steps of others keep the invariant.
LEMMA StutterLemma == IInv /\ UNCHANGED vars => IInv'
<1> SUFFICES ASSUME IInv, UNCHANGED vars PROVE IInv'
  OBVIOUS
<1>1. UNCHANGED <<chip, lapic, level, cur, gpc, status, used, wpc>>
  BY DEF vars
<1>2. TypeOK' /\ SignalledIsOutstanding'
  BY <1>1 DEF IInv, NoPinFallsSilent, TypeOK, SignalledIsOutstanding, chip, lapic
<1> QED  BY <1>1, <1>2, QuietLemma

\* No device's interrupt is lost between status word, line, local APIC and handler, for
\* every number of devices, however try_signal, InterruptAck and EOI exits interleave.
THEOREM NoPinFallsSilentAlways == Spec => []NoPinFallsSilent
<1>1. IInv => NoPinFallsSilent
  BY DEF IInv
<1> QED
  BY <1>1, InitLemma, NextLemma, StutterLemma, PTL DEF Spec

-----------------------------------------------------------------------------
(* The entropy device. *)

\* The worker is in try_signal only before it enables notifications, and asks for
\* notifications whenever it is about to sleep.
RngInv ==
  /\ IInv /\ RequestsAreKept
  /\ place \in [Requests -> {"free", "avail", "empty", "filled", "leaked"}]
  /\ buffer \in [Requests -> {"old", "random"}]
  /\ avail \in Seq(Requests)
  /\ rpc \in {"wait", "drain", "enable", "recheck"}
  /\ rpc # "enable" => wpc[PIN] = "idle"
  /\ rpc \in {"wait", "recheck"} => ~no_notify

\* The invariant holds of an activated device without requests.
LEMMA RngInitLemma == RngInit => RngInv
<1> SUFFICES ASSUME RngInit PROVE RngInv
  OBVIOUS
<1>1. IInv /\ wpc[PIN] = "idle"
  BY InitLemma, PinFacts DEF RngInit, Init, PIN
<1>2. RequestsAreKept
  BY DEF RngInit, RequestsAreKept, ReportedIsRandom, RequestIsNoticed
<1> QED
  BY <1>1, <1>2 DEF RngInit, RngInv

\* A step of the interrupt path alone.
LEMMA PathLemma ==
  ASSUME RngInv, Next, UNCHANGED rng, rpc # "enable" => wpc'[PIN] = wpc[PIN]
  PROVE  RngInv'
<1>1. IInv'
  BY NextLemma DEF RngInv
<1>2. UNCHANGED <<place, buffer, avail, no_notify, queue_evt, posted, rpc, used_any>>
  BY DEF rng
<1> QED
  BY <1>1, <1>2 DEF RngInv, RequestsAreKept, ReportedIsRandom, RequestIsNoticed

\* Every step keeps the invariant.
LEMMA RngNextLemma == RngInv /\ [RngNext]_rngVars => RngInv'
<1> SUFFICES ASSUME RngInv, [RngNext]_rngVars PROVE RngInv'
  OBVIOUS
<1>1. IInv /\ TypeOK /\ PIN \in Pins
  BY PinFacts DEF RngInv, IInv, NoPinFallsSilent, PIN
<1>2. ASSUME UNCHANGED vars PROVE IInv' /\ wpc' = wpc
  BY <1>1, <1>2, StutterLemma DEF vars
<1>3. CASE /\ (\E p \in Pins : TakeVector(p)) \/ ReadStatus \/ InterruptAck \/ try_clear_irq \/ ApicEoi \/ EoiScan
           /\ UNCHANGED rng
  <2>1. Next /\ wpc' = wpc
    BY <1>3 DEF Next, Vcpu, TakeVector, ReadStatus, InterruptAck, try_clear_irq, ApicEoi, EoiScan
  <2> QED  BY <1>3, <2>1, PathLemma
<1>4. ASSUME NEW p \in Pins \ {PIN}, Complete(p), UNCHANGED rng PROVE RngInv'
  <2>1. Next /\ wpc'[PIN] = wpc[PIN]
    BY <1>1, <1>4 DEF Next, Complete, TypeOK
  <2> QED  BY <1>4, <2>1, PathLemma
<1>5. ASSUME NEW p \in Pins, Signal(p) PROVE RngInv'
  <2>1. Next /\ UNCHANGED rng
    BY <1>5 DEF Signal, Next
  <2>2. wpc' = [wpc EXCEPT ![p] = wpc'[p]] /\ wpc[p] # "idle"
    BY <1>1, <1>5 DEF Signal, try_signal, FetchOr, SetLine, TypeOK
  <2>3. rpc # "enable" => wpc'[PIN] = wpc[PIN]
    BY <1>1, <2>2 DEF RngInv, TypeOK
  <2> QED  BY <2>1, <2>3, PathLemma
<1>6. CASE TakeUsed
  <2>1. IInv' /\ wpc' = wpc
    BY <1>1, <1>6, HandleLemma DEF TakeUsed, HandleUsed
  <2>2. PICK taken \in SUBSET Requests :
          /\ place' = [r \in Requests |-> IF r \in taken THEN "free" ELSE place[r]]
          /\ buffer' = [r \in Requests |-> IF r \in taken THEN "old" ELSE buffer[r]]
    BY <1>6 DEF TakeUsed
  <2>3. UNCHANGED <<avail, no_notify, queue_evt, posted, rpc, used_any>>
    BY <1>6 DEF TakeUsed
  <2>4. /\ place' \in [Requests -> {"free", "avail", "empty", "filled", "leaked"}]
        /\ buffer' \in [Requests -> {"old", "random"}]
    BY <2>2 DEF RngInv
  <2>5. RequestsAreKept'
    BY <2>2, <2>3 DEF RngInv, RequestsAreKept, ReportedIsRandom, RequestIsNoticed
  <2> QED
    BY <2>1, <2>3, <2>4, <2>5 DEF RngInv
<1>7. ASSUME NEW r \in Requests, Post(r) PROVE RngInv'
  <2>1. IInv' /\ wpc' = wpc
    BY <1>2, <1>7 DEF Post
  <2>2. place' = [place EXCEPT ![r] = "avail"] /\ avail' = Append(avail, r) /\ posted'
        /\ UNCHANGED <<buffer, no_notify, queue_evt, rpc, used_any>>
    BY <1>7 DEF Post
  <2>3. avail' \in Seq(Requests)
    BY <2>2 DEF RngInv
  <2>4. place' \in [Requests -> {"free", "avail", "empty", "filled", "leaked"}]
    BY <2>2 DEF RngInv
  <2>5. ReportedIsRandom'
    BY <2>2 DEF RngInv, RequestsAreKept, ReportedIsRandom
  <2>6. RequestIsNoticed'
    BY <2>2 DEF RngInv, RequestIsNoticed
  <2> QED
    BY <2>1, <2>2, <2>3, <2>4, <2>5, <2>6 DEF RngInv, RequestsAreKept
<1>8. CASE Kick
  <2>1. IInv' /\ wpc' = wpc
    BY <1>2, <1>8 DEF Kick
  <2>2. queue_evt' = (queue_evt \/ ~no_notify) /\ UNCHANGED <<place, buffer, avail, no_notify, rpc, used_any>>
    BY <1>8 DEF Kick
  <2>3. RequestsAreKept'
    BY <2>2 DEF RngInv, RequestsAreKept, ReportedIsRandom, RequestIsNoticed
  <2> QED
    BY <2>1, <2>2, <2>3 DEF RngInv
<1>9. CASE Wake \/ Enable \/ Recheck
  <2>1. IInv' /\ wpc' = wpc /\ UNCHANGED <<place, buffer, avail>>
    BY <1>2, <1>9 DEF Wake, Enable, Recheck
  <2>2. /\ rpc' \in {"wait", "drain", "recheck"} /\ wpc[PIN] = "idle"
        /\ rpc' \in {"wait", "recheck"} => ~no_notify'
        /\ rpc' = "wait" => avail = <<>>
    BY <1>9 DEF Wake, Enable, Recheck, RngInv
  <2>3. RequestsAreKept'
    BY <2>1, <2>2 DEF RngInv, RequestsAreKept, ReportedIsRandom, RequestIsNoticed
  <2> QED
    BY <2>1, <2>2, <2>3 DEF RngInv
<1>10. CASE PopAndServe
  <2> DEFINE r == Head(avail)
  <2>1. /\ rpc = "drain" /\ avail # <<>> /\ avail' = Tail(avail) /\ Serve(r)
        /\ UNCHANGED <<chip, status, wpc, gpc, cur, level, lapic, no_notify, queue_evt, posted, rpc>>
    BY <1>10 DEF PopAndServe
  <2>2. r \in Requests /\ avail' \in Seq(Requests)
    BY <2>1 DEF RngInv
  <2> HIDE DEF r
  <2>3. used' \in [Pins -> BOOLEAN]
    BY <1>1, <2>1 DEF Serve, add_used, TypeOK
  <2>4. TypeOK' /\ SignalledIsOutstanding'
    BY <1>1, <2>1, <2>3 DEF IInv, NoPinFallsSilent, TypeOK, SignalledIsOutstanding, chip, lapic
  <2>5. IInv'
    BY <1>1, <2>1, <2>4, QuietLemma
  <2>6. /\ place' \in [Requests -> {"free", "avail", "empty", "filled", "leaked"}]
        /\ buffer' \in [Requests -> {"old", "random"}]
    BY <2>1, <2>2 DEF Serve, add_used, RngInv
  <2>7. ReportedIsRandom'
    BY <2>1, <2>2 DEF Serve, add_used, RngInv, RequestsAreKept, ReportedIsRandom
  <2> QED
    BY <2>1, <2>2, <2>5, <2>6, <2>7 DEF RngInv, RequestsAreKept, RequestIsNoticed
<1>11. CASE EndBatch
  <2>1. /\ rpc = "drain" /\ rpc' = "enable"
        /\ wpc' = [wpc EXCEPT ![PIN] = IF used_any THEN "first" ELSE "idle"]
        /\ UNCHANGED <<chip, status, used, gpc, cur, level, lapic, place, buffer, avail, no_notify>>
    BY <1>11 DEF EndBatch
  <2>2. TypeOK' /\ SignalledIsOutstanding'
    BY <1>1, <2>1 DEF RngInv, IInv, NoPinFallsSilent, TypeOK, SignalledIsOutstanding, chip, lapic
  <2>3. IInv'
    BY <1>1, <2>1, <2>2, QuietLemma
  <2> QED
    BY <2>1, <2>3 DEF RngInv, RequestsAreKept, ReportedIsRandom, RequestIsNoticed
<1>12. CASE UNCHANGED rngVars
  <2>1. UNCHANGED vars /\ UNCHANGED <<place, buffer, avail, no_notify, queue_evt, posted, rpc, used_any>>
    BY <1>12 DEF rngVars, rng
  <2> QED
    BY <1>2, <2>1 DEF RngInv, RequestsAreKept, ReportedIsRandom, RequestIsNoticed
<1> QED
  BY <1>3, <1>4, <1>5, <1>6, <1>7, <1>8, <1>9, <1>10, <1>11, <1>12 DEF RngNext, RngVcpu, Worker

\* The worker of the entropy device overlooks no request and reports no byte that the
\* host's generator did not write, and with it, too, no pin falls silent.
THEOREM RngAlways == RngSpec => [](NoPinFallsSilent /\ RequestsAreKept)
<1>1. RngInv => NoPinFallsSilent /\ RequestsAreKept
  BY DEF RngInv, IInv
<1> QED
  BY <1>1, RngInitLemma, RngNextLemma, PTL DEF RngSpec
===========================================================================
