--------------------------- MODULE PlatformProofs ---------------------------
(***************************************************************************)
(* Proofs about the chips of the platform that the program emulates.       *)
(*                                                                         *)
(* The I/O APIC: the invariants and action properties of IoApic, for every *)
(* number of pins and every set of vectors, destinations and selector      *)
(* words.  service() is the heart of the argument: whatever the IRR and    *)
(* the table it is given, it returns a state in which nothing serviceable  *)
(* waits.                                                                  *)
(*                                                                         *)
(* The clocks (GuestClocks), for all frequencies, word sizes and           *)
(* processors.  ClockInv says which times the remembered readings are of.  *)
(* The rest is arithmetic: two counters that round down are as far apart   *)
(* as what they count, to within a tick (GapLemma); a difference of less   *)
(* than a round survives wrapping (WrapLemma); and the error of the TSC    *)
(* page's scale, times the ticks since the start, stays below a tick       *)
(* (PageLemma).                                                            *)
(***************************************************************************)
EXTENDS IoApicAccess, GuestClocks, TLAPS

-----------------------------------------------------------------------------
(* The I/O APIC. *)

\* service() restores the whole invariant from any well-typed IRR and table in
\* which Remote IRR is set on level pins only.
LEMMA ServiceLemma ==
  ASSUME NEW rr \in SUBSET Pins, NEW tbl \in [Pins -> Entry],
         \A p \in Pins : tbl[p].remoteIrr => tbl[p].level,
         service(rr, tbl)
  PROVE  /\ irr' \in SUBSET Pins
         /\ ioredtbl' \in [Pins -> Entry]
         /\ injected' \in SUBSET Request
         /\ NothingServiceableWaits'
         /\ RemoteIrrIsLevel'
<1>1. irr' \in SUBSET Pins
  BY DEF service, ServicedIrr
<1>2. ioredtbl' \in [Pins -> Entry]
  BY ZenonT(40), SMTT(40) DEF service, ServicedTbl, Entry
<1>3. injected' \in SUBSET Request
  BY DEF service, ServicedRequests, inject_interrupt, Request, Entry
<1>4. NothingServiceableWaits'
  BY DEF service, ServicedIrr, ServicedTbl, Entry, NothingServiceableWaits
<1>5. RemoteIrrIsLevel'
  BY DEF service, ServicedTbl, Entry, RemoteIrrIsLevel
<1> QED
  BY <1>1, <1>2, <1>3, <1>4, <1>5

\* A write to a half of an entry, followed by fix_edge_remote_irr, yields an
\* entry that has Remote IRR only if it is level-triggered.
LEMMA WriteLemma ==
  ASSUME NEW e \in Entry, NEW reg, NEW w \in Word, e.remoteIrr => e.level
  PROVE  LET f == fix_edge_remote_irr(WriteHalf(e, reg, w))
         IN  f \in Entry /\ (f.remoteIrr => f.level)
BY SMTT(40), ZenonT(40) DEF fix_edge_remote_irr, WriteHalf, Entry, Word

\* It keeps Remote IRR of an entry that is level-triggered afterwards.
LEMMA KeepLemma ==
  ASSUME NEW e \in Entry, NEW reg, NEW w \in Word
  PROVE  LET f == fix_edge_remote_irr(WriteHalf(e, reg, w))
         IN  f.level => f.remoteIrr = e.remoteIrr
BY ZenonT(40), SMTT(40) DEF fix_edge_remote_irr, WriteHalf, Entry, Word

\* What the EOI loop does to an entry.
LEMMA ClearLemma ==
  ASSUME NEW e \in Entry
  PROVE  LET f == [e EXCEPT !.remoteIrr = FALSE] IN f \in Entry /\ ~f.remoteIrr
BY DEF Entry

\* The selected register of a table write names a pin.
LEMMA RedtblLemma ==
  ASSUME NEW reg \in 0 .. 255, IsRedtblReg(reg)
  PROVE  RedtblIndex(reg) \in Pins
BY IoApicAssumption DEF IsRedtblReg, RedtblIndex, IOAPIC_REG_REDTBL_BASE, Pins

\* The chip as IoApic::new builds it, with every pin masked, satisfies the invariant.
LEMMA InitLemma == Init => IInv
BY IoApicAssumption
   DEF Init, IInv, TypeOK, NothingServiceableWaits, RemoteIrrIsLevel, Pins, Entry, Request

\* Every step of the chip preserves the invariant.
LEMMA NextLemma == IInv /\ [Next]_vars => IInv'
<1> SUFFICES ASSUME IInv, [Next]_vars PROVE IInv'
  OBVIOUS
<1> USE DEF IInv
<1>1. ASSUME NEW p \in Pins, set_irq(p) PROVE IInv'
  <2>1. irr \union {p} \in SUBSET Pins
    BY DEF TypeOK
  <2>2. service(irr \union {p}, ioredtbl)
    BY <1>1 DEF set_irq
  <2> QED
    BY ZenonT(40), SMTT(40), <1>1, <2>1, <2>2, ServiceLemma DEF set_irq, TypeOK, RemoteIrrIsLevel
<1>2. ASSUME NEW p \in Pins, clear_irq(p) PROVE IInv'
  BY <1>2 DEF clear_irq, TypeOK, NothingServiceableWaits, RemoteIrrIsLevel
<1>3. ASSUME NEW val \in RegWords, WriteRegSel(val) PROVE IInv'
  <2>1. val % 256 \in 0 .. 255
    BY IoApicAssumption
  <2> QED
    BY <1>3, <2>1 DEF WriteRegSel, TypeOK, NothingServiceableWaits, RemoteIrrIsLevel
<1>4. ASSUME NEW w \in Word, WriteWin(w) PROVE IInv'
  <2> DEFINE p   == RedtblIndex(ioregsel)
             e   == fix_edge_remote_irr(WriteHalf(ioredtbl[p], ioregsel, w))
             tbl == [ioredtbl EXCEPT ![p] = e]
  <2>1. p \in Pins
    BY <1>4, RedtblLemma DEF WriteWin, TypeOK
  <2>2. e \in Entry /\ (e.remoteIrr => e.level)
    BY <2>1, WriteLemma DEF TypeOK, RemoteIrrIsLevel
  <2>3. tbl \in [Pins -> Entry] /\ \A q \in Pins : tbl[q].remoteIrr => tbl[q].level
    BY <2>1, <2>2 DEF TypeOK, RemoteIrrIsLevel
  <2>4. service(irr, tbl)
    BY <1>4 DEF WriteWin
  <2> HIDE DEF tbl
  <2> QED
    BY <1>4, <2>3, <2>4, ServiceLemma DEF WriteWin, TypeOK
<1>5. ASSUME NEW v \in Vectors, WriteEoi(v) PROVE IInv'
  BY <1>5, IoApicAssumption DEF WriteEoi, TypeOK, NothingServiceableWaits, RemoteIrrIsLevel
<1>6. ASSUME ScanPin PROVE IInv'
  <2> DEFINE p   == scan.pin
             tbl == [ioredtbl EXCEPT ![p].remoteIrr = FALSE]
  <2>1. p \in Pins /\ scan' \in [vector : Vectors, pin : 0 .. NumPins]
    BY <1>6, IoApicAssumption DEF ScanPin, LockFree, TypeOK, Pins
  <2>2. tbl \in [Pins -> Entry] /\ \A q \in Pins : tbl[q].remoteIrr => tbl[q].level
    <3> DEFINE f == [ioredtbl[p] EXCEPT !.remoteIrr = FALSE]
    <3>1. f \in Entry /\ ~f.remoteIrr
      BY <2>1, ClearLemma DEF TypeOK
    <3>2. tbl = [ioredtbl EXCEPT ![p] = f]
      BY <2>1 DEF TypeOK
    <3> HIDE DEF f, tbl
    <3> QED
      BY <2>1, <3>1, <3>2 DEF TypeOK, RemoteIrrIsLevel
  <2>3. CASE EoiMatches(p) /\ p \in irr
    <3>1. service(irr, tbl)
      BY <1>6, <2>3 DEF ScanPin
    <3> HIDE DEF tbl
    <3> QED
      BY ZenonT(40), SMTT(40), <1>6, <2>1, <2>2, <3>1, ServiceLemma DEF ScanPin, TypeOK
  <2>4. CASE EoiMatches(p) /\ p \notin irr
    <3>1. irr' = irr /\ ioredtbl' = tbl /\ injected' = {} /\ ioregsel' = ioregsel
      BY <1>6, <2>4 DEF ScanPin
    <3>2. NothingServiceableWaits'
      BY <2>1, <2>4, <3>1 DEF TypeOK, NothingServiceableWaits, Entry
    <3> QED
      BY <2>1, <2>2, <3>1, <3>2 DEF TypeOK, RemoteIrrIsLevel
  <2>5. CASE ~EoiMatches(p)
    BY <1>6, <2>1, <2>5 DEF ScanPin, TypeOK, NothingServiceableWaits, RemoteIrrIsLevel
  <2> QED
    BY <2>3, <2>4, <2>5
<1>7. CASE UNCHANGED vars
  BY <1>7 DEF vars, TypeOK, NothingServiceableWaits, RemoteIrrIsLevel
<1> QED
  BY <1>1, <1>2, <1>3, <1>4, <1>5, <1>6, <1>7 DEF Next

\* The chip's invariant: types, no deliverable work left behind by any
\* handler, Remote IRR on level pins only.
THEOREM Invariance == Spec => []IInv
BY InitLemma, NextLemma, PTL DEF Spec

\* Table, request register and selector keep their types through every handler.
THEOREM TypeOKAlways == Spec => []TypeOK
<1>1. IInv => TypeOK
  BY DEF IInv
<1> QED
  BY <1>1, Invariance, PTL

\* No handler of the I/O APIC leaves an asserted, unmasked pin undelivered
\* unless its level interrupt is still in service.
THEOREM NothingServiceableWaitsAlways == Spec => []NothingServiceableWaits
<1>1. IInv => NothingServiceableWaits
  BY DEF IInv
<1> QED
  BY <1>1, Invariance, PTL

\* Remote IRR is only ever set on level-triggered pins.
THEOREM RemoteIrrIsLevelAlways == Spec => []RemoteIrrIsLevel
<1>1. IInv => RemoteIrrIsLevel
  BY DEF IInv
<1> QED
  BY <1>1, Invariance, PTL

-----------------------------------------------------------------------------
(* What a step may not do. *)

\* service() requests exactly the asserted, unmasked pins it does not coalesce.
LEMMA RequestLemma ==
  ASSUME NEW rr \in SUBSET Pins, NEW tbl \in [Pins -> Entry], service(rr, tbl),
         NEW r \in injected'
  PROVE  /\ r.pin \in rr
         /\ ~tbl[r.pin].masked
         /\ ~(tbl[r.pin].level /\ tbl[r.pin].remoteIrr)
         /\ r.vector = tbl[r.pin].vector
         /\ r.level = tbl[r.pin].level
<1>1. PICK p \in rr : /\ ~tbl[p].masked /\ ~(tbl[p].level /\ tbl[p].remoteIrr)
                     /\ r = inject_interrupt(p, tbl[p])
  BY DEF service, ServicedRequests
<1> QED
  BY <1>1 DEF inject_interrupt

\* A pin service() drops from the IRR is among its requests.
LEMMA ConsumedLemma ==
  ASSUME NEW rr \in SUBSET Pins, NEW tbl \in [Pins -> Entry], service(rr, tbl),
         NEW p \in rr, p \notin irr'
  PROVE  \E r \in injected' : r.pin = p
<1>1. ~tbl[p].masked /\ ~tbl[p].level
  BY DEF service, ServicedIrr
<1>2. inject_interrupt(p, tbl[p]) \in injected'
  BY <1>1 DEF service, ServicedRequests
<1>3. inject_interrupt(p, tbl[p]).pin = p
  BY DEF inject_interrupt
<1> QED
  BY <1>2, <1>3

\* The table an EOI iteration hands to service() differs from the current one
\* at the acknowledged pin only.
LEMMA ScanTableLemma ==
  ASSUME TypeOK, NEW p \in Pins,
         NEW tbl, tbl = [ioredtbl EXCEPT ![p].remoteIrr = FALSE]
  PROVE  /\ tbl \in [Pins -> Entry]
         /\ \A q \in Pins : q # p => tbl[q] = ioredtbl[q]
         /\ tbl[p].vector = ioredtbl[p].vector
<1> DEFINE f == [ioredtbl[p] EXCEPT !.remoteIrr = FALSE]
<1>1. f \in Entry /\ f.vector = ioredtbl[p].vector
  <2>1. ioredtbl[p] \in Entry
    BY DEF TypeOK
  <2> QED
    BY SMTT(40), ZenonT(40), <2>1 DEF Entry
<1>2. tbl = [ioredtbl EXCEPT ![p] = f]
  BY DEF TypeOK
<1> HIDE DEF f
<1> QED
  BY ZenonT(40), SMTT(40), <1>1, <1>2 DEF TypeOK

\* While the EOI loop holds the lock, the loop is all that runs.
LEMMA ScanOnlyLemma ==
  ASSUME IInv, [Next]_vars, ~LockFree
  PROVE  ScanPin \/ UNCHANGED vars
BY ZenonT(40), SMTT(40) DEF Next, set_irq, clear_irq, WriteRegSel, WriteWin, WriteEoi

\* What an iteration of the EOI loop requests is the pin under the cursor, with
\* the acknowledged vector: every other asserted pin was already in service.
LEMMA ScanRequestLemma ==
  ASSUME IInv, ScanPin, NEW r \in injected'
  PROVE  r.pin = scan.pin /\ r.vector = scan.vector
<1> DEFINE p   == scan.pin
           tbl == [ioredtbl EXCEPT ![p].remoteIrr = FALSE]
<1>1. p \in Pins
  BY IoApicAssumption DEF IInv, ScanPin, LockFree, TypeOK, Pins
<1>2. EoiMatches(p) /\ service(irr, tbl)
  BY DEF ScanPin
<1>3. /\ tbl \in [Pins -> Entry]
      /\ \A q \in Pins : q # p => tbl[q] = ioredtbl[q]
      /\ tbl[p].vector = ioredtbl[p].vector
  BY <1>1, ScanTableLemma DEF IInv
<1> HIDE DEF tbl
<1>4. irr \in SUBSET Pins
  BY DEF IInv, TypeOK
<1>5. /\ r.pin \in irr
      /\ ~tbl[r.pin].masked
      /\ ~(tbl[r.pin].level /\ tbl[r.pin].remoteIrr)
      /\ r.vector = tbl[r.pin].vector
  BY <1>2, <1>3, <1>4, RequestLemma
<1>6. r.pin = p
  BY <1>3, <1>4, <1>5 DEF IInv, NothingServiceableWaits
<1> QED
  BY <1>2, <1>3, <1>5, <1>6 DEF EoiMatches

\* An EOI re-delivers only the pins it acknowledged, although the service()
\* call in its loop scans the whole table.
THEOREM EoiRedeliversOnlyAckedAlways == Spec => EoiRedeliversOnlyAcked
<1>1. IInv /\ [Next]_vars =>
        [~LockFree => \A r \in injected' : r.pin = scan.pin /\ r.vector = scan.vector]_vars
  BY ScanOnlyLemma, ScanRequestLemma
<1> QED
  BY <1>1, Invariance, PTL DEF Spec, EoiRedeliversOnlyAcked

\* Only the EOI loop, at the pin it acknowledges, requests a level interrupt in service.
LEMMA LevelStepLemma ==
  IInv /\ [Next]_vars =>
    [\A r \in injected' :
       r.level /\ ioredtbl[r.pin].remoteIrr
         => ~LockFree /\ scan.pin = r.pin /\ scan.vector = r.vector]_vars
<1> SUFFICES ASSUME IInv, Next, NEW r \in injected', r.level, ioredtbl[r.pin].remoteIrr
             PROVE  ~LockFree /\ scan.pin = r.pin /\ scan.vector = r.vector
  OBVIOUS
<1>1. irr \in SUBSET Pins /\ ioredtbl \in [Pins -> Entry] /\ ioregsel \in 0 .. 255
  BY DEF IInv, TypeOK
<1>2. ASSUME NEW p \in Pins, set_irq(p) PROVE FALSE
  <2>1. service(irr \union {p}, ioredtbl) /\ irr \union {p} \in SUBSET Pins
    BY <1>1, <1>2 DEF set_irq
  <2> QED
    BY <1>1, <2>1, RequestLemma
<1>3. ASSUME NEW w \in Word, WriteWin(w) PROVE FALSE
  <2> DEFINE p   == RedtblIndex(ioregsel)
             e   == fix_edge_remote_irr(WriteHalf(ioredtbl[p], ioregsel, w))
             tbl == [ioredtbl EXCEPT ![p] = e]
  <2>1. p \in Pins
    BY <1>1, <1>3, RedtblLemma DEF WriteWin
  <2>2. e \in Entry
    BY <1>1, <2>1, WriteLemma DEF IInv, RemoteIrrIsLevel
  <2>3. e.level => e.remoteIrr = ioredtbl[p].remoteIrr
    BY <1>1, <2>1, KeepLemma
  <2>4. service(irr, tbl)
    BY <1>3 DEF WriteWin
  <2> HIDE DEF e
  <2>5. /\ tbl \in [Pins -> Entry]
        /\ tbl[p] = e
        /\ \A q \in Pins : q # p => tbl[q] = ioredtbl[q]
    BY <1>1, <2>1, <2>2
  <2> HIDE DEF tbl
  <2>6. r.pin \in irr /\ ~(tbl[r.pin].level /\ tbl[r.pin].remoteIrr) /\ r.level = tbl[r.pin].level
    BY <1>1, <2>4, <2>5, RequestLemma
  <2> QED
    BY <1>1, <2>1, <2>3, <2>5, <2>6
<1>4. ASSUME ScanPin PROVE ~LockFree /\ scan.pin = r.pin /\ scan.vector = r.vector
  BY <1>4, ScanRequestLemma DEF ScanPin
<1> QED
  BY <1>2, <1>3, <1>4 DEF Next, clear_irq, WriteRegSel, WriteEoi

\* A level interrupt in service is not requested again before its EOI.
THEOREM LevelOncePerEoiAlways == Spec => LevelOncePerEoi
BY LevelStepLemma, Invariance, PTL DEF Spec, LevelOncePerEoi

\* A step that forgets an asserted pin is clear_irq or delivers the pin.
LEMMA AssertionStepLemma ==
  IInv /\ [Next]_vars =>
    [\A p \in irr \ irr' : clear_irq(p) \/ \E r \in injected' : r.pin = p]_vars
<1> SUFFICES ASSUME IInv, Next, NEW p \in irr, p \notin irr'
             PROVE  clear_irq(p) \/ \E r \in injected' : r.pin = p
  OBVIOUS
<1>1. irr \in SUBSET Pins /\ ioredtbl \in [Pins -> Entry] /\ ioregsel \in 0 .. 255
  BY DEF IInv, TypeOK
<1>2. ASSUME NEW q \in Pins, set_irq(q) PROVE \E r \in injected' : r.pin = p
  <2>1. service(irr \union {q}, ioredtbl) /\ irr \union {q} \in SUBSET Pins
    BY <1>1, <1>2 DEF set_irq
  <2> QED
    BY <1>1, <2>1, ConsumedLemma
<1>3. ASSUME NEW q \in Pins, clear_irq(q) PROVE clear_irq(p)
  BY <1>3 DEF clear_irq
<1>4. ASSUME NEW w \in Word, WriteWin(w) PROVE \E r \in injected' : r.pin = p
  <2> DEFINE k   == RedtblIndex(ioregsel)
             e   == fix_edge_remote_irr(WriteHalf(ioredtbl[k], ioregsel, w))
             tbl == [ioredtbl EXCEPT ![k] = e]
  <2>1. k \in Pins
    BY <1>1, <1>4, RedtblLemma DEF WriteWin
  <2>2. e \in Entry
    BY <1>1, <2>1, WriteLemma DEF IInv, RemoteIrrIsLevel
  <2>3. tbl \in [Pins -> Entry] /\ service(irr, tbl)
    BY <1>1, <1>4, <2>1, <2>2 DEF WriteWin
  <2> HIDE DEF tbl
  <2> QED
    BY <1>1, <2>3, ConsumedLemma
<1>5. ASSUME ScanPin PROVE \E r \in injected' : r.pin = p
  <2> DEFINE tbl == [ioredtbl EXCEPT ![scan.pin].remoteIrr = FALSE]
  <2>1. scan.pin \in Pins
    BY <1>5, IoApicAssumption DEF IInv, ScanPin, LockFree, TypeOK, Pins
  <2>2. service(irr, tbl)
    BY <1>5 DEF ScanPin
  <2>3. tbl \in [Pins -> Entry]
    BY ZenonT(40), SMTT(40), <2>1, ScanTableLemma DEF IInv
  <2> HIDE DEF tbl
  <2> QED
    BY <1>1, <2>2, <2>3, ConsumedLemma
<1> QED
  BY <1>2, <1>3, <1>4, <1>5 DEF Next, WriteRegSel, WriteEoi

\* An asserted pin is forgotten only by clear_irq or by its own delivery.
THEOREM AssertionNotLostAlways == Spec => AssertionNotLost
BY AssertionStepLemma, Invariance, PTL DEF Spec, AssertionNotLost

\* The EOI register is the only way to a second request of a level interrupt, and only
\* for the pins whose Remote IRR the write has cleared.
THEOREM EoiRedeliveryAlways == Spec => EoiRedelivery
BY LevelOncePerEoiAlways, EoiRedeliversOnlyAckedAlways, PTL DEF EoiRedelivery

-----------------------------------------------------------------------------
(* The guest that reads an entry and writes it back. *)

\* What the guest remembers of a low half still holds of the fields only the guest
\* writes: workers and EOIs change Remote IRR alone.
Remembered ==
  seen # NotSeen =>
    /\ seen.reg \in 0 .. 255 /\ IsRedtblReg(seen.reg) /\ seen.reg % 2 = 0
    /\ seen.level = ioredtbl[RedtblIndex(seen.reg)].level
    /\ seen.vector = ioredtbl[RedtblIndex(seen.reg)].vector

\* service() changes nothing of an entry but Remote IRR, and sets that for the level
\* pins it delivers.
LEMMA ServicedLemma ==
  ASSUME NEW rr \in SUBSET Pins, NEW tbl \in [Pins -> Entry], service(rr, tbl), NEW p \in Pins
  PROVE  /\ ioredtbl'[p].level = tbl[p].level /\ ioredtbl'[p].vector = tbl[p].vector
         /\ ioredtbl'[p].remoteIrr =
              (tbl[p].remoteIrr \/ \E r \in injected' : r.pin = p /\ r.level)
<1>1. tbl[p] \in Entry /\ ioredtbl'[p] = IF p \in rr /\ ~tbl[p].masked /\ tbl[p].level
                                         THEN [tbl[p] EXCEPT !.remoteIrr = TRUE] ELSE tbl[p]
  BY DEF service, ServicedTbl
<1>2. ioredtbl'[p].level = tbl[p].level /\ ioredtbl'[p].vector = tbl[p].vector
  BY <1>1 DEF Entry
<1>3. ASSUME NEW r \in injected', r.pin = p, r.level
      PROVE  p \in rr /\ ~tbl[p].masked /\ tbl[p].level
  BY <1>3, RequestLemma
<1>4. ASSUME p \in rr, ~tbl[p].masked, tbl[p].level, ~tbl[p].remoteIrr
      PROVE  \E r \in injected' : r.pin = p /\ r.level
  <2>1. inject_interrupt(p, tbl[p]) \in injected'
    BY <1>4 DEF service, ServicedRequests
  <2>2. inject_interrupt(p, tbl[p]).pin = p /\ inject_interrupt(p, tbl[p]).level
    BY <1>4 DEF inject_interrupt
  <2> QED
    BY <2>1, <2>2
<1>5. CASE p \in rr /\ ~tbl[p].masked /\ tbl[p].level
  <2>1. ioredtbl'[p].remoteIrr = TRUE /\ tbl[p].remoteIrr \in BOOLEAN
    BY <1>1, <1>5 DEF Entry
  <2> QED
    BY ZenonT(40), SMTT(40), <1>2, <1>4, <1>5, <2>1
<1>6. CASE ~(p \in rr /\ ~tbl[p].masked /\ tbl[p].level)
  <2>1. ioredtbl'[p].remoteIrr = tbl[p].remoteIrr /\ tbl[p].remoteIrr \in BOOLEAN
    BY <1>1, <1>6 DEF Entry
  <2> QED
    BY <1>2, <1>3, <1>6, <2>1
<1> QED
  BY <1>5, <1>6

\* The stale Remote IRR bit of the word plays no part in the write.
LEMMA SameWord ==
  ASSUME NEW mask \in BOOLEAN, NEW dest \in Dests, seen.level \in BOOLEAN, seen.vector \in Vectors,
         WriteWin([masked |-> mask, level |-> seen.level, vector |-> seen.vector,
                   remoteIrr |-> seen.remoteIrr, dest |-> dest])
  PROVE  \E w \in Word : w.level = seen.level /\ w.vector = seen.vector /\ WriteWin(w)
<1> DEFINE v == [masked |-> mask, level |-> seen.level, vector |-> seen.vector,
                 remoteIrr |-> seen.remoteIrr, dest |-> dest]
           w == [masked |-> mask, level |-> seen.level, vector |-> seen.vector, dest |-> dest]
<1>1. w \in Word /\ w.level = seen.level /\ w.vector = seen.vector
  BY DEF Word
<1>2. /\ v.masked = w.masked /\ v.level = w.level /\ v.vector = w.vector /\ v.dest = w.dest
  OBVIOUS
<1> HIDE DEF v, w
<1>3. \A e, reg : WriteHalf(e, reg, v) = WriteHalf(e, reg, w)
  BY <1>2 DEF WriteHalf
<1>4. WriteWin(v)
  BY DEF v
<1>5. WriteWin(w)
  BY SMTT(40), ZenonT(40), <1>3, <1>4 DEF WriteWin
<1> QED
  BY <1>1, <1>5

\* Every step of workers and guest keeps the chip's invariant and what the guest remembers.
LEMMA AccessLemma == IInv /\ Remembered /\ [AccessNext]_<<vars, access_vars>> => IInv' /\ Remembered'
<1> SUFFICES ASSUME IInv, Remembered, [AccessNext]_<<vars, access_vars>>
             PROVE  IInv' /\ Remembered'
  OBVIOUS
<1>1. irr \in SUBSET Pins /\ ioredtbl \in [Pins -> Entry] /\ ioregsel \in 0 .. 255
  BY DEF IInv, TypeOK
<1>2. seen # NotSeen => RedtblIndex(seen.reg) \in Pins
  BY RedtblLemma DEF Remembered
<1>3. ASSUME Next, UNCHANGED access_vars,
             seen # NotSeen => LET p == RedtblIndex(seen.reg)
                               IN  /\ ioredtbl'[p].level = ioredtbl[p].level
                                   /\ ioredtbl'[p].vector = ioredtbl[p].vector
      PROVE  IInv' /\ Remembered'
  BY <1>3, NextLemma DEF Remembered, access_vars
<1>4. ASSUME NEW p \in Pins, set_irq(p), UNCHANGED access_vars PROVE IInv' /\ Remembered'
  <2>1. service(irr \union {p}, ioredtbl) /\ irr \union {p} \in SUBSET Pins
    BY <1>1, <1>4 DEF set_irq
  <2>2. \A q \in Pins : ioredtbl'[q].level = ioredtbl[q].level /\ ioredtbl'[q].vector = ioredtbl[q].vector
    BY <1>1, <2>1, ServicedLemma
  <2> QED
    BY <1>2, <1>3, <1>4, <2>2 DEF Next
<1>5. ASSUME NEW p \in Pins, clear_irq(p), UNCHANGED access_vars PROVE IInv' /\ Remembered'
  BY <1>3, <1>5 DEF Next, clear_irq
<1>6. ASSUME NEW val \in RegWords, WriteRegSel(val), UNCHANGED access_vars PROVE IInv' /\ Remembered'
  BY <1>3, <1>6 DEF Next, WriteRegSel
<1>7. ASSUME NEW v \in Vectors, WriteEoi(v), UNCHANGED access_vars PROVE IInv' /\ Remembered'
  BY <1>3, <1>7 DEF Next, WriteEoi
<1>8. ASSUME NEW w \in Word, WriteWin(w), seen' = NotSeen PROVE IInv' /\ Remembered'
  BY <1>8, NextLemma DEF Next, Remembered
<1>9. ASSUME ScanPin, UNCHANGED access_vars PROVE IInv' /\ Remembered'
  <2> DEFINE tbl == [ioredtbl EXCEPT ![scan.pin].remoteIrr = FALSE]
  <2>1. scan.pin \in Pins
    BY <1>9, IoApicAssumption DEF IInv, ScanPin, LockFree, TypeOK, Pins
  <2>2. tbl \in [Pins -> Entry]
    BY ZenonT(40), SMTT(40), <2>1, ScanTableLemma DEF IInv
  <2>3. \A q \in Pins : tbl[q].level = ioredtbl[q].level /\ tbl[q].vector = ioredtbl[q].vector
    <3>1. ioredtbl[scan.pin] \in Entry
      BY <1>1, <2>1
    <3> QED
      BY <1>1, <2>1, <3>1 DEF Entry
  <2>4. service(irr, tbl) \/ ioredtbl' = tbl \/ ioredtbl' = ioredtbl
    BY <1>9 DEF ScanPin
  <2> HIDE DEF tbl
  <2>5. \A q \in Pins : ioredtbl'[q].level = ioredtbl[q].level /\ ioredtbl'[q].vector = ioredtbl[q].vector
    BY <1>1, <2>2, <2>3, <2>4, ServicedLemma
  <2> QED
    BY <1>2, <1>3, <1>9, <2>5 DEF Next
<1>10. CASE ReadWin
  <2>1. IInv'
    BY <1>10 DEF ReadWin, IInv, TypeOK, NothingServiceableWaits, RemoteIrrIsLevel
  <2>2. ASSUME "masked" \in DOMAIN Register(ioregsel)
        PROVE  /\ IsRedtblReg(ioregsel) /\ ioregsel % 2 = 0
               /\ Register(ioregsel).reg = ioregsel
               /\ Register(ioregsel).level = ioredtbl[RedtblIndex(ioregsel)].level
               /\ Register(ioregsel).vector = ioredtbl[RedtblIndex(ioregsel)].vector
    BY <1>1, <2>2
      DEF Register, IO_APIC_ID, IO_APIC_VER, IO_APIC_ARB, IsRedtblReg, IOAPIC_REG_REDTBL_BASE
  <2>3. Remembered'
    BY <1>1, <1>10, <2>2 DEF ReadWin, Remembered
  <2> QED
    BY <2>1, <2>3
<1>11. ASSUME NEW mask \in BOOLEAN, WriteBack(mask) PROVE IInv' /\ Remembered'
  <2>1. seen.level \in BOOLEAN /\ seen.vector \in Vectors
    BY <1>1, <1>2, <1>11 DEF WriteBack, Remembered, Entry
  <2>2. \E w \in Word : WriteWin(w)
    BY <1>11, <2>1, SameWord DEF WriteBack
  <2> QED
    BY <1>11, <2>2, NextLemma DEF Next, Remembered, WriteBack
<1>12. ASSUME NEW top, WriteId(top) PROVE IInv' /\ Remembered'
  BY SMTT(40), ZenonT(40), <1>12
    DEF WriteId, IInv, TypeOK, NothingServiceableWaits, RemoteIrrIsLevel, Remembered
<1>13. CASE UNCHANGED <<vars, access_vars>>
  BY SMTT(40), ZenonT(40), <1>13
    DEF vars, access_vars, IInv, TypeOK, NothingServiceableWaits, RemoteIrrIsLevel, Remembered
<1> QED
  BY <1>4, <1>5, <1>6, <1>7, <1>8, <1>9, <1>10, <1>11, <1>12, <1>13 DEF AccessNext

\* The chip keeps its invariant under reads, write-backs and the ID register too.
THEOREM AccessInvariance == AccessSpec => []IInv
<1>1. AccessInit => IInv /\ Remembered
  BY InitLemma DEF AccessInit, Remembered
<1> QED
  BY <1>1, AccessLemma, PTL DEF AccessSpec

\* A guest that masks or unmasks a pin by reading its entry and writing it back neither
\* loses Remote IRR nor brings it back, whatever came between the two.
THEOREM WriteBackKeepsRemoteIrrAlways == AccessSpec => WriteBackKeepsRemoteIrr
<1> DEFINE p == RedtblIndex(seen.reg)
<1>1. ASSUME IInv, Remembered, NEW mask \in BOOLEAN, WriteBack(mask)
      PROVE  ioredtbl'[p].remoteIrr =
               (ioredtbl[p].remoteIrr \/ \E r \in injected' : r.pin = p /\ r.level)
  <2>1. irr \in SUBSET Pins /\ ioredtbl \in [Pins -> Entry] /\ p \in Pins
    BY SMTT(40), ZenonT(40), <1>1, RedtblLemma DEF IInv, TypeOK, Remembered, WriteBack
  <2>2. /\ seen.reg = ioregsel /\ ioregsel % 2 = 0
        /\ seen.level = ioredtbl[p].level /\ seen.vector = ioredtbl[p].vector
    BY <1>1 DEF WriteBack, Remembered
  <2>3. ioredtbl[p] \in Entry /\ seen.level \in BOOLEAN /\ seen.vector \in Vectors
    BY <2>1, <2>2 DEF Entry
  <2>4. PICK w \in Word : w.level = seen.level /\ WriteWin(w)
    BY <1>1, <2>3, SameWord DEF WriteBack
  <2> DEFINE e == fix_edge_remote_irr(WriteHalf(ioredtbl[p], ioregsel, w))
             tbl == [ioredtbl EXCEPT ![p] = e]
  <2>5. ioredtbl[p].remoteIrr => ioredtbl[p].level
    BY <1>1, <2>1 DEF IInv, RemoteIrrIsLevel
  <2>6. e \in Entry
    BY <2>3, <2>5, WriteLemma
  <2>7. e.remoteIrr = ioredtbl[p].remoteIrr
    BY ZenonT(40), SMTT(40), <2>2, <2>3, <2>4, <2>5 DEF fix_edge_remote_irr, WriteHalf, Entry, Word
  <2>8. service(irr, tbl)
    BY <2>2, <2>4 DEF WriteWin
  <2> HIDE DEF e
  <2>9. tbl \in [Pins -> Entry] /\ tbl[p] = e
    BY <2>1, <2>6
  <2> HIDE DEF tbl, p
  <2>10. ioredtbl'[p].remoteIrr = (tbl[p].remoteIrr \/ \E r \in injected' : r.pin = p /\ r.level)
    BY SMTT(40), ZenonT(40), <2>1, <2>8, <2>9, ServicedLemma
  <2> QED
    BY <2>7, <2>9, <2>10
<1>2. IInv /\ Remembered /\ [AccessNext]_<<vars, access_vars>> =>
        [\A mask \in BOOLEAN :
           WriteBack(mask) =>
             ioredtbl'[p].remoteIrr =
               (ioredtbl[p].remoteIrr \/ \E r \in injected' : r.pin = p /\ r.level)]_<<vars, access_vars>>
  BY <1>1
<1>3. AccessInit => IInv /\ Remembered
  BY InitLemma DEF AccessInit, Remembered
<1> QED
  BY <1>2, <1>3, AccessLemma, PTL DEF AccessSpec, WriteBackKeepsRemoteIrr

\* A step is one of the chip's own, or a read or a write of the ID register.
LEMMA AccessStepLemma ==
  IInv /\ Remembered /\ [AccessNext]_<<vars, access_vars>> =>
    [Next]_vars \/ (LockFree /\ injected' = {} /\ irr' = irr)
<1> SUFFICES ASSUME IInv, Remembered, AccessNext
             PROVE  [Next]_vars \/ (LockFree /\ injected' = {} /\ irr' = irr)
  BY DEF vars
<1>1. ASSUME NEW mask \in BOOLEAN, WriteBack(mask) PROVE Next
  <2>1. RedtblIndex(seen.reg) \in Pins
    BY <1>1, RedtblLemma DEF WriteBack, Remembered
  <2>2. seen.level \in BOOLEAN /\ seen.vector \in Vectors
    BY <1>1, <2>1 DEF WriteBack, Remembered, IInv, TypeOK, Entry
  <2> QED
    BY <1>1, <2>2, SameWord DEF WriteBack, Next
<1>2. CASE ReadWin
  BY <1>2 DEF ReadWin
<1>3. ASSUME NEW top, WriteId(top) PROVE LockFree /\ injected' = {} /\ irr' = irr
  BY <1>3 DEF WriteId
<1> QED
  BY <1>1, <1>2, <1>3 DEF AccessNext, Next

\* What the chip never does, whoever reads and writes back its entries: an asserted pin is
\* not forgotten, and a level interrupt in service waits for its EOI.
THEOREM AccessAlways == AccessSpec => AssertionNotLost /\ EoiRedelivery
<1>1. IInv /\ Remembered /\ [AccessNext]_<<vars, access_vars>> =>
        [\A p \in irr \ irr' : clear_irq(p) \/ \E r \in injected' : r.pin = p]_vars
  BY AccessStepLemma, AssertionStepLemma
<1>2. IInv /\ Remembered /\ [AccessNext]_<<vars, access_vars>> =>
        [\A r \in injected' :
           r.level /\ ioredtbl[r.pin].remoteIrr
             => ~LockFree /\ scan.pin = r.pin /\ scan.vector = r.vector]_vars
  BY AccessStepLemma, LevelStepLemma
<1>3. IInv /\ Remembered /\ [AccessNext]_<<vars, access_vars>> =>
        [~LockFree => \A r \in injected' : r.pin = scan.pin /\ r.vector = scan.vector]_vars
  BY AccessStepLemma, ScanOnlyLemma, ScanRequestLemma
<1>4. AccessInit => IInv /\ Remembered
  BY InitLemma DEF AccessInit, Remembered
<1> QED
  BY <1>1, <1>2, <1>3, <1>4, AccessLemma, PTL
     DEF AccessSpec, AssertionNotLost, EoiRedelivery, LevelOncePerEoi, EoiRedeliversOnlyAcked

-----------------------------------------------------------------------------
(* Arithmetic of counters. *)

\* Division rounds down.
LEMMA FloorLemma ==
  ASSUME NEW m \in Nat \ {0}, NEW x \in Int
  PROVE  x \div m \in Int /\ m * (x \div m) <= x /\ x < m * (x \div m) + m
OBVIOUS

\* Multiplication keeps order ...
LEMMA ScaleLemma ==
  ASSUME NEW k \in Nat, NEW x \in Int, NEW y \in Int, x <= y
  PROVE  k * x <= k * y
OBVIOUS

\* ... and a common factor can be cancelled.
LEMMA CancelLemma ==
  ASSUME NEW k \in Nat \ {0}, NEW x \in Int, NEW y \in Int
  PROVE  (k * x <= k * y => x <= y) /\ (k * x < k * y => x < y)
OBVIOUS

\* Two counters that round down are as far apart as what they count, to within a tick.
LEMMA GapLemma ==
  ASSUME NEW m \in Nat \ {0}, NEW x \in Int, NEW y \in Int
  PROVE  /\ (x \div m) - (y \div m) \in Int
         /\ m * ((x \div m) - (y \div m)) - (x - y) \in 1 - m .. m - 1
         /\ y <= x => y \div m <= x \div m
<1> DEFINE p == x \div m
           q == y \div m
<1>1. p \in Int /\ m * p <= x /\ x < m * p + m
  BY FloorLemma
<1>2. q \in Int /\ m * q <= y /\ y < m * q + m
  BY FloorLemma
<1> HIDE DEF p, q
<1>3. m * (p - q) = m * p - m * q
  BY <1>1, <1>2
<1>4. m * (p - q) - (x - y) \in 1 - m .. m - 1
  BY <1>1, <1>2, <1>3
<1>5. ASSUME y <= x PROVE q <= p
  <2>1. m * q < m * (p + 1)
    BY <1>1, <1>2, <1>5
  <2> QED  BY <1>1, <1>2, <2>1, CancelLemma
<1> QED  BY <1>1, <1>2, <1>4, <1>5 DEF p, q

\* The remainder of a small number.
LEMMA SmallLemma ==
  ASSUME NEW m \in Nat \ {0}, NEW z \in -m .. m - 1
  PROVE  z % m = IF z >= 0 THEN z ELSE z + m
OBVIOUS

\* A difference that is less than one round of a wrapping counter is read off it exactly.
LEMMA WrapLemma ==
  ASSUME NEW m \in Nat \ {0}, NEW x \in Int, NEW y \in Int, x - y \in 0 .. m - 1
  PROVE  ((x % m) - (y % m)) % m = x - y
<1> DEFINE r == x % m
           s == y % m
           t == (x \div m) - (y \div m)
<1>1. r \in 0 .. m - 1 /\ s \in 0 .. m - 1 /\ t \in Int /\ x - y = m * t + (r - s)
  <2>1. r \in 0 .. m - 1 /\ x = m * (x \div m) + r /\ x \div m \in Int
    OBVIOUS
  <2>2. s \in 0 .. m - 1 /\ y = m * (y \div m) + s /\ y \div m \in Int
    OBVIOUS
  <2> QED  BY <2>1, <2>2
<1> HIDE DEF r, s, t
<1>2. t \in {0, 1}
  <2>1. m * (-1) < m * t /\ m * t < m * 2
    BY <1>1
  <2> QED  BY <1>1, <2>1, CancelLemma
<1>3. r - s \in -m .. m - 1 /\ x - y = IF r - s >= 0 THEN r - s ELSE r - s + m
  BY <1>1, <1>2
<1>4. (r - s) % m = x - y
  BY <1>3, SmallLemma
<1> QED  BY <1>4 DEF r, s

\* The fixed-point arithmetic of the TSC page.  S is R / F rounded down to a fraction of W,
\* d the ticks and e the time since the start, P the difference of two rounded products.
LEMMA PageLemma ==
  ASSUME NEW F \in Nat \ {0}, NEW N \in Nat \ {0}, NEW G \in Nat \ {0}, NEW W \in Nat \ {0},
         NEW R \in Nat, R * G = N, R < F,
         NEW S \in Nat, F * S <= R * W, R * W < F * S + F,
         NEW d \in Nat, NEW e \in Nat, N * d - e * F \in 1 - N .. N - 1,
         NEW P \in Int, W * P - d * S \in 1 - W .. W - 1, d * G <= W
  PROVE  P * G - e \in -(2 * G) .. 2 * G
<1> DEFINE K == G * F
           X == P * G
<1>0. K \in Nat \ {0} /\ d * G \in Nat /\ F * W \in Nat \ {0} /\ X \in Int
  OBVIOUS
<1>1. N * W <= (F * W) * G
  <2>1. (G * W) * R <= (G * W) * F
    BY ScaleLemma
  <2> QED  BY <2>1
<1>2. /\ K * (W * P) <= K * (d * S + W - 1)
      /\ K * (d * S - W + 1) <= K * (W * P)
  <2>1. W * P <= d * S + W - 1 /\ d * S - W + 1 <= W * P
    OBVIOUS
  <2> QED  BY <1>0, <2>1, ScaleLemma
<1>3. /\ (d * G) * (F * S) <= (d * G) * (R * W)
      /\ (d * G) * (R * W - F) <= (d * G) * (F * S)
  BY <1>0, ScaleLemma
<1>4. (d * G) * (R * W) = W * (N * d)
  OBVIOUS
<1>5. W * (N * d) <= W * (e * F + N) /\ W * (e * F - N) <= W * (N * d)
  BY ScaleLemma
<1>6. F * (d * G) <= F * W
  BY ScaleLemma
<1> DEFINE Y == F * W
           L == N * W
           T == (d * G) * (F * S)
           U == W * (N * d)
           V == F * (d * G)
<1>a. /\ Y * X \in Int /\ Y * G \in Int /\ Y * e \in Int /\ L \in Int /\ T \in Int /\ U \in Int
      /\ V \in Int
  OBVIOUS
<1>b. /\ K * (W * P) = Y * X
      /\ K * (d * S + W - 1) = T + Y * G - K /\ K * (d * S - W + 1) = T - Y * G + K
  OBVIOUS
<1>c. (d * G) * (R * W - F) = (d * G) * (R * W) - V
  OBVIOUS
<1>d. W * (e * F + N) = Y * e + L /\ W * (e * F - N) = Y * e - L
  OBVIOUS
<1>e. Y * (e + 2 * G) = Y * e + 2 * (Y * G) /\ Y * (e - 2 * G - 1) = Y * e - 2 * (Y * G) - Y
  OBVIOUS
<1> HIDE DEF K, X, Y, L, T, U, V
<1>7. Y * X <= Y * (e + 2 * G)
  <2>1. Y * X <= T + Y * G - K /\ T <= U /\ U <= Y * e + L /\ L <= Y * G
    BY <1>1, <1>2, <1>3, <1>4, <1>5, <1>b, <1>d DEF T, U, L, Y
  <2> QED  BY <1>0, <1>a, <1>e, <2>1
<1>8. Y * (e - 2 * G - 1) < Y * X
  <2>1. T - Y * G + K <= Y * X /\ U - V <= T /\ Y * e - L <= U /\ L <= Y * G /\ V <= Y
    BY <1>1, <1>2, <1>3, <1>4, <1>5, <1>6, <1>b, <1>c, <1>d DEF T, U, L, V, Y
  <2> QED  BY <1>0, <1>a, <1>e, <2>1 DEF Y
<1>9. X <= e + 2 * G /\ e - 2 * G - 1 < X
  <2>1. Y \in Nat \ {0}
    BY <1>0 DEF Y
  <2> QED  BY <1>0, <1>7, <1>8, <2>1, CancelLemma
<1> QED  BY <1>0, <1>9 DEF X

-----------------------------------------------------------------------------
(* The clocks. *)

PmAt(t) == ((t * PM_HZ) \div NANOS) % PM_WRAP
RefAt(t) == (t - VM_START_TIME) \div REF_NS
Read(t, v) == [at |-> t, value |-> v]

\* The readings that the guest remembers are those of the counter at two times.
PmRead ==
  pm_reads = <<>> \/ \E a, b \in 0 .. now : a <= b /\ pm_reads = <<Read(a, PmAt(a)), Read(b, PmAt(b))>>
RefRead ==
  ref_reads = <<>> \/ /\ VM_START_TIME # Never
                      /\ \E a, b \in 0 .. now : ref_reads = <<Read(a, RefAt(a)), Read(b, RefAt(b))>>

\* The page is the one of this VM, which started when the counter was vm_start_tsc.
PageInv ==
  /\ vm_start <= now /\ vm_start_tsc = tsc_boot + ((vm_start * TSC_HZ) \div NANOS)
  /\ tsc_page \in {Off, write_tsc_reference_page}

WindowInv ==
  /\ fired \in Nat \X Nat /\ LAST_INTERRUPT_TIME = fired[1]
  /\ fired[1] > fired[2] \/ (fired[1] = 0 /\ fired[2] = 0)

Port61Inv == held <= (INTERNAL_COUNTER % 128) + 1 /\ bit4 = Bit4(INTERNAL_COUNTER)

ClockInv == ClockTypeOK /\ PmRead /\ RefRead /\ PageInv /\ WindowInv /\ Port61Inv

\* What the constants are.
LEMMA ClockConstants ==
  /\ NANOS \in Nat \ {0} /\ PM_HZ \in Nat \ {0} /\ PM_WRAP \in Nat \ {0} /\ REF_NS \in Nat \ {0}
  /\ TSC_HZ \in Nat \ {0} /\ MHZ \in Nat \ {0} /\ FALLBACK_HZ \in Nat \ {0} /\ WORD \in Nat \ {0}
  /\ MaxNow \in Nat \ {0} /\ MaxWall \in Nat \ {0} /\ MaxPit \in Nat
BY ClockAssumption

\* Products of natural numbers are natural numbers.
LEMMA ProductLemma ==
  ASSUME NEW x \in Nat, NEW y \in Nat
  PROVE  x * y \in Nat /\ (x # 0 /\ y # 0 => x * y # 0)
OBVIOUS

\* A quotient is at least one when there is enough to divide.
LEMMA QuotientLemma ==
  ASSUME NEW m \in Nat \ {0}, NEW x \in Nat
  PROVE  x \div m \in Nat /\ (x >= m => x \div m # 0)
OBVIOUS

\* The frequency by which write_tsc_reference_page divides is never zero ...
LEMMA FrequencyType ==
  ASSUME cpuid \in HostCpus
  PROVE  get_tsc_frequency_hz \in Nat \ {0}
<1>1. cpuid.eax \in Nat /\ cpuid.ebx \in Nat /\ cpuid.ecx \in Nat /\ cpuid.mhz \in Nat
  BY ClockAssumption
<1>2. CASE cpuid.eax # 0 /\ cpuid.ebx # 0 /\ cpuid.ecx # 0
  <2>1. get_tsc_frequency_hz = (cpuid.ecx * cpuid.ebx) \div cpuid.eax
    BY <1>2 DEF get_tsc_frequency_hz
  <2>2. cpuid.ecx * cpuid.ebx >= cpuid.eax /\ cpuid.ecx * cpuid.ebx \in Nat
    BY <1>1, <1>2, ProductLemma, ClockAssumption
  <2> QED  BY <1>1, <1>2, <2>1, <2>2, QuotientLemma
<1>3. CASE 0 \in {cpuid.eax, cpuid.ebx, cpuid.ecx} /\ cpuid.mhz # 0
  <2>1. get_tsc_frequency_hz = cpuid.mhz * MHZ
    BY <1>3 DEF get_tsc_frequency_hz
  <2> QED  BY <1>1, <1>3, <2>1, ProductLemma, ClockConstants
<1>4. CASE 0 \in {cpuid.eax, cpuid.ebx, cpuid.ecx} /\ cpuid.mhz = 0
  <2>1. get_tsc_frequency_hz = FALLBACK_HZ
    BY <1>4 DEF get_tsc_frequency_hz
  <2> QED  BY <2>1, ClockConstants
<1> QED  BY <1>2, <1>3, <1>4

\* ... and the page it writes has a scale of a word.
LEMMA PageType ==
  ASSUME cpuid \in HostCpus, vm_start_tsc \in Nat
  PROVE  /\ TscScale \in 0 .. WORD - 1
         /\ write_tsc_reference_page.scale = TscScale
         /\ write_tsc_reference_page.offset = -((vm_start_tsc * TscScale) \div WORD)
         /\ write_tsc_reference_page.offset \in Int
<1>1. NANOS \div REF_NS \in Nat
  BY ClockConstants, QuotientLemma
<1>2. (NANOS \div REF_NS) * WORD \in Nat
  BY <1>1, ClockConstants, ProductLemma
<1>3. ((NANOS \div REF_NS) * WORD) \div get_tsc_frequency_hz \in Nat
  BY <1>2, FrequencyType, QuotientLemma
<1>4. TscScale \in 0 .. WORD - 1
  BY <1>3, ClockConstants DEF TscScale
<1>5. vm_start_tsc * TscScale \in Nat
  BY <1>4, ClockConstants, ProductLemma
<1>6. (vm_start_tsc * TscScale) \div WORD \in Nat
  BY <1>5, ClockConstants, QuotientLemma
<1> QED  BY <1>4, <1>6 DEF write_tsc_reference_page

\* A page stays the one of its VM.
LEMMA PageKept ==
  ASSUME UNCHANGED <<cpuid, vm_start_tsc>>
  PROVE  write_tsc_reference_page' = write_tsc_reference_page
BY DEF write_tsc_reference_page, TscScale, get_tsc_frequency_hz

\* What is kept when time passes and the reading of the guest does not change.
LEMMA ReadingsKept ==
  ASSUME now \in Nat, now' \in Nat, now <= now', UNCHANGED VM_START_TIME
  PROVE  /\ PmRead /\ UNCHANGED pm_reads => PmRead'
         /\ RefRead /\ UNCHANGED ref_reads => RefRead'
BY DEF PmRead, RefRead, PmAt, RefAt, Read

\* The clocks start together.
LEMMA ClockInitLemma == ClockInit => ClockInv
<1> SUFFICES ASSUME ClockInit PROVE ClockInv
  OBVIOUS
<1> USE ClockConstants DEF ClockInit
<1>1. cpuid \in HostCpus
  BY ClockAssumption
<1>2. vm_start \in 0 .. 1 /\ now = vm_start /\ tsc_boot \in Nat
  BY ClockAssumption
<1>3. vm_start_tsc = tsc_boot + ((vm_start * TSC_HZ) \div NANOS)
  BY DEF rdtsc
<1>4. vm_start * TSC_HZ \in Nat
  BY <1>2
<1>5. vm_start_tsc \in Nat
  BY <1>2, <1>3, <1>4, QuotientLemma
<1>6. ClockTypeOK
  BY <1>1, <1>2, <1>5 DEF ClockTypeOK, Off
<1>7. PmRead /\ RefRead
  BY DEF PmRead, RefRead
<1>8. PageInv
  BY <1>2, <1>3 DEF PageInv
<1>9. WindowInv
  BY DEF WindowInv
<1>10. Port61Inv
  BY DEF Port61Inv, Bit4
<1> QED  BY <1>6, <1>7, <1>8, <1>9, <1>10 DEF ClockInv

\* A read of the PM timer.
LEMMA PmStep ==
  ASSUME ClockInv, ReadPmTimer
  PROVE  ClockInv'
<1> USE DEF host, start, ports
<1>1. now \in Nat /\ now \in 0 .. now
  BY ClockConstants DEF ClockInv, ClockTypeOK
<1>2. pm_reads' = Reading(pm_reads, PmAt(now)) /\ now' = now
  BY DEF ReadPmTimer, PmAt, PmCounter
<1>3. \E a \in 0 .. now : pm_reads' = <<Read(a, PmAt(a)), Read(now, PmAt(now))>>
  <2>1. CASE pm_reads = <<>>
    BY <1>1, <1>2, <2>1 DEF Reading, Read
  <2>2. CASE pm_reads # <<>>
    <3>1. PICK a \in 0 .. now, b \in 0 .. now : pm_reads = <<Read(a, PmAt(a)), Read(b, PmAt(b))>>
      BY <2>2 DEF ClockInv, PmRead
    <3> QED  BY <1>2, <2>2, <3>1 DEF Reading, Read
  <2> QED  BY <2>1, <2>2
<1>4. PmRead'
  BY <1>1, <1>2, <1>3 DEF PmRead, PmAt, Read
<1>5. RefRead'
  BY <1>1, ReadingsKept DEF ClockInv, ReadPmTimer
<1>6. PageInv'
  BY PageKept DEF ClockInv, PageInv, ReadPmTimer
<1>7. ClockTypeOK' /\ WindowInv' /\ Port61Inv'
  BY DEF ClockInv, ClockTypeOK, WindowInv, Port61Inv, Bit4, ReadPmTimer
<1> QED  BY <1>4, <1>5, <1>6, <1>7 DEF ClockInv

\* A read of the reference counter, the first of which starts it.
LEMMA RefStep ==
  ASSUME ClockInv, ReadTimeRefCount
  PROVE  ClockInv'
<1> USE DEF host, start, ports
<1>1. now \in Nat /\ now \in 0 .. now /\ now \in 0 .. MaxNow /\ VM_START_TIME \in 0 .. MaxNow \union {Never}
  BY ClockConstants DEF ClockInv, ClockTypeOK
<1>2. VM_START_TIME' \in 0 .. MaxNow /\ VM_START_TIME' # Never /\ now' = now
  BY <1>1, ClockConstants DEF ReadTimeRefCount, Never
<1>3. ref_reads' = Reading(ref_reads, RefAt(now)')
  BY <1>2 DEF ReadTimeRefCount, RefAt
<1>4. \E a \in 0 .. now : ref_reads' = <<Read(a, RefAt(a)'), Read(now, RefAt(now)')>>
  <2>1. CASE ref_reads = <<>>
    BY <1>1, <1>2, <1>3, <2>1 DEF Reading, Read, RefAt
  <2>2. CASE ref_reads # <<>>
    <3>1. VM_START_TIME' = VM_START_TIME
      BY <2>2 DEF ClockInv, RefRead, ReadTimeRefCount
    <3>2. PICK a \in 0 .. now, b \in 0 .. now : ref_reads = <<Read(a, RefAt(a)), Read(b, RefAt(b))>>
      BY <2>2 DEF ClockInv, RefRead
    <3>3. RefAt(a)' = RefAt(a)
      BY <3>1 DEF RefAt
    <3> QED  BY <1>3, <2>2, <3>2, <3>3 DEF Reading, Read
  <2> QED  BY <2>1, <2>2
<1>5. RefRead'
  BY <1>1, <1>2, <1>4 DEF RefRead, RefAt, Read
<1>6. PmRead'
  BY DEF ClockInv, PmRead, PmAt, Read, ReadTimeRefCount
<1>7. PageInv'
  BY PageKept DEF ClockInv, PageInv, ReadTimeRefCount
<1>8. WindowInv' /\ Port61Inv'
  BY DEF ClockInv, WindowInv, Port61Inv, Bit4, ReadTimeRefCount
<1>9. ClockTypeOK'
  BY <1>2 DEF ClockInv, ClockTypeOK, ReadTimeRefCount
<1> QED  BY <1>5, <1>6, <1>7, <1>8, <1>9 DEF ClockInv

\* The guest enables or disables the page.
LEMMA PageStep ==
  ASSUME ClockInv, WriteReferenceTsc
  PROVE  ClockInv'
<1> USE DEF host, start, ports
<1>1. cpuid \in HostCpus /\ vm_start_tsc \in Nat /\ now \in Nat
  BY ClockConstants DEF ClockInv, ClockTypeOK
<1>2. tsc_page' \in {Off, write_tsc_reference_page}
  BY DEF WriteReferenceTsc
<1>3. tsc_page'.scale \in 0 .. WORD - 1 /\ tsc_page'.offset \in Int
  BY <1>1, <1>2, PageType, ClockConstants DEF Off
<1>4. ClockTypeOK'
  BY <1>3 DEF ClockInv, ClockTypeOK, WriteReferenceTsc
<1>5. PageInv'
  BY <1>2, PageKept DEF ClockInv, PageInv, WriteReferenceTsc
<1>6. PmRead' /\ RefRead'
  BY <1>1, ReadingsKept DEF ClockInv, WriteReferenceTsc
<1>7. WindowInv' /\ Port61Inv'
  BY DEF ClockInv, WindowInv, Port61Inv, Bit4, WriteReferenceTsc
<1> QED  BY <1>4, <1>5, <1>6, <1>7 DEF ClockInv

\* An interrupt window: a timer interrupt is due only at a later wall time than the last.
LEMMA WindowStep ==
  ASSUME ClockInv, handle_interrupt_window
  PROVE  ClockInv'
<1> USE DEF host, start, ports
<1>1. now \in Nat /\ wall \in 1 .. MaxWall /\ wall \in Nat
  BY ClockConstants DEF ClockInv, ClockTypeOK
<1>2. WindowInv'
  BY <1>1 DEF ClockInv, WindowInv, handle_interrupt_window, Due
<1>3. ClockTypeOK'
  BY SMTT(40), ZenonT(40), <1>1, ClockConstants DEF ClockInv, ClockTypeOK, handle_interrupt_window
<1>4. PmRead' /\ RefRead'
  BY <1>1, ReadingsKept DEF ClockInv, handle_interrupt_window
<1>5. PageInv' /\ Port61Inv'
  BY PageKept DEF ClockInv, PageInv, Port61Inv, Bit4, handle_interrupt_window
<1> QED  BY <1>2, <1>3, <1>4, <1>5 DEF ClockInv

\* The dummy counters behind the ports.
LEMMA PortsStep ==
  ASSUME ClockInv, ReadPit \/ ReadPort61
  PROVE  ClockInv'
<1> USE DEF host, start, ports
<1>1. now \in Nat
  BY ClockConstants DEF ClockInv, ClockTypeOK
<1>2. PmRead' /\ RefRead'
  BY <1>1, ReadingsKept DEF ClockInv, ReadPit, ReadPort61
<1>3. PageInv' /\ WindowInv'
  BY PageKept DEF ClockInv, PageInv, WindowInv, ReadPit, ReadPort61
<1>4. CASE ReadPit
  <2>1. DUMMY_RTC_COUNTER' \in 0 .. 99 /\ DUMMY_RTC_TIME' \in 0 .. MaxPit
    <3>1. DUMMY_RTC_COUNTER \in 0 .. 99 /\ DUMMY_RTC_TIME \in 0 .. MaxPit
      BY DEF ClockInv, ClockTypeOK
    <3>2. /\ DUMMY_RTC_COUNTER' = (DUMMY_RTC_COUNTER + 1) % 100 /\ DUMMY_RTC_TIME' <= MaxPit
          /\ DUMMY_RTC_TIME' \in {DUMMY_RTC_TIME, DUMMY_RTC_TIME + 1}
      BY SMTT(40), ZenonT(40), <1>4 DEF ReadPit
    <3> QED  BY <3>1, <3>2, ClockConstants
  <2>2. ClockTypeOK'
    BY SMTT(40), ZenonT(40), <1>4, <2>1 DEF ClockInv, ClockTypeOK, ReadPit
  <2>3. Port61Inv'
    BY <1>4 DEF ClockInv, Port61Inv, Bit4, ReadPit
  <2> QED  BY <1>2, <1>3, <2>2, <2>3 DEF ClockInv
<1>5. CASE ReadPort61
  <2>1. INTERNAL_COUNTER \in 0 .. 255 /\ held \in Nat /\ Port61Inv
    BY DEF ClockInv, ClockTypeOK
  <2>2. INTERNAL_COUNTER' \in 0 .. 255 /\ bit4' \in 0 .. 1 /\ held' \in Nat /\ Port61Inv'
    BY SMTT(40), ZenonT(40), <1>5, <2>1 DEF Port61Inv, Bit4, ReadPort61
  <2>3. ClockTypeOK'
    BY SMTT(40), ZenonT(40), <1>5, <2>2 DEF ClockInv, ClockTypeOK, ReadPort61
  <2> QED  BY <1>2, <1>3, <2>2, <2>3 DEF ClockInv
<1> QED  BY <1>4, <1>5

\* Time passes, or somebody sets the wall clock back.
LEMMA TimeStep ==
  ASSUME ClockInv, Tick \/ SetWallClock
  PROVE  ClockInv'
<1>1. now \in Nat /\ now' \in Nat /\ now <= now' /\ now' \in 0 .. MaxNow /\ wall' \in 1 .. MaxWall
  <2>1. now \in 0 .. MaxNow /\ wall \in 1 .. MaxWall /\ MaxNow \in Nat /\ MaxWall \in Nat
    BY ClockConstants DEF ClockInv, ClockTypeOK
  <2>2. CASE Tick
    <3>1. now < MaxNow /\ now' = now + 1
      BY <2>2 DEF Tick
    <3>2. wall' \in {wall, wall + 1} /\ wall' <= MaxWall
      BY <2>2 DEF Tick
    <3> QED  BY SMTT(40), ZenonT(40), <2>1, <3>1, <3>2
  <2>3. CASE SetWallClock
    <3>1. now' = now /\ wall' \in 1 .. wall - 1
      BY SMTT(40), ZenonT(40), <2>3 DEF SetWallClock
    <3> QED  BY <2>1, <3>1
  <2> QED  BY <2>2, <2>3
<1>2. /\ UNCHANGED <<tsc_boot, cpuid, sources, vm_start_tsc, vm_start, VM_START_TIME, tsc_page>>
      /\ UNCHANGED <<LAST_INTERRUPT_TIME, DUMMY_RTC_COUNTER, DUMMY_RTC_TIME, INTERNAL_COUNTER>>
      /\ UNCHANGED <<bit4, held, pm_reads, ref_reads, fired>>
  BY DEF Tick, SetWallClock, start, ports
<1>3. ClockTypeOK'
  BY SMTT(40), ZenonT(40), <1>1, <1>2 DEF ClockInv, ClockTypeOK
<1>4. PmRead' /\ RefRead'
  BY <1>1, <1>2, ReadingsKept DEF ClockInv
<1>5. vm_start' <= now'
  <2>1. vm_start \in Nat /\ vm_start <= now
    BY DEF ClockInv, ClockTypeOK, PageInv
  <2> QED  BY <1>1, <1>2, <2>1
<1>6. PageInv'
  BY <1>2, <1>5, PageKept DEF ClockInv, PageInv
<1>7. WindowInv' /\ Port61Inv'
  BY <1>2 DEF ClockInv, WindowInv, Port61Inv, Bit4
<1> QED  BY <1>3, <1>4, <1>6, <1>7 DEF ClockInv

\* The invariant of the clocks is kept by the guest, the host and the wall clock.
LEMMA ClockNextLemma == ClockInv /\ [ClockNext]_clock_vars => ClockInv'
<1> SUFFICES ASSUME ClockInv, [ClockNext]_clock_vars PROVE ClockInv'
  OBVIOUS
<1>1. CASE UNCHANGED clock_vars
  <2> USE <1>1 DEF clock_vars, host, start, ports
  <2>1. PmRead' /\ RefRead'
    BY SMTT(40), ZenonT(40) DEF ClockInv, PmRead, RefRead, PmAt, RefAt, Read
  <2>2. PageInv' /\ WindowInv'
    BY PageKept DEF ClockInv, PageInv, WindowInv
  <2>3. ClockTypeOK' /\ Port61Inv'
    BY SMTT(40), ZenonT(40) DEF ClockInv, ClockTypeOK, Port61Inv, Bit4
  <2> QED  BY <2>1, <2>2, <2>3 DEF ClockInv
<1>2. CASE ClockNext
  BY <1>2, PmStep, RefStep, PageStep, WindowStep, PortsStep, TimeStep DEF ClockNext
<1> QED  BY <1>1, <1>2

\* Two readings of the PM timer, whose counter wraps.
LEMMA PmLemma == ClockInv => PmTimerKeepsTime
<1> SUFFICES ASSUME ClockInv, pm_reads # <<>>,
                    (pm_reads[2].at - pm_reads[1].at) * PM_HZ < (PM_WRAP - 1) * NANOS
             PROVE  KeepsTime(pm_reads, PM_HZ, NANOS, (pm_reads[2].value - pm_reads[1].value) % PM_WRAP)
  BY DEF PmTimerKeepsTime
<1>1. now \in Nat
  BY ClockConstants DEF ClockInv, ClockTypeOK
<1>2. PICK a \in 0 .. now, b \in 0 .. now : a <= b /\ pm_reads = <<Read(a, PmAt(a)), Read(b, PmAt(b))>>
  BY DEF ClockInv, PmRead
<1>3. /\ pm_reads[1].at = a /\ pm_reads[1].value = PmAt(a)
      /\ pm_reads[2].at = b /\ pm_reads[2].value = PmAt(b)
  BY <1>2 DEF Read
<1> DEFINE x == b * PM_HZ
           y == a * PM_HZ
           D == (x \div NANOS) - (y \div NANOS)
<1>4. x \in Int /\ y \in Int /\ y <= x /\ x - y = (b - a) * PM_HZ
  <2>1. PM_HZ * a <= PM_HZ * b
    BY <1>1, <1>2, ClockConstants, ScaleLemma
  <2> QED  BY <1>1, <1>2, <2>1, ClockConstants
<1>5. D \in Int /\ NANOS * D - (x - y) \in 1 - NANOS .. NANOS - 1 /\ 0 <= D /\ x \div NANOS \in Int /\ y \div NANOS \in Int
  <2> HIDE DEF x, y
  <2>1. D \in Int /\ NANOS * D - (x - y) \in 1 - NANOS .. NANOS - 1 /\ y \div NANOS <= x \div NANOS
    BY <1>4, GapLemma, ClockConstants
  <2>2. x \div NANOS \in Int /\ y \div NANOS \in Int
    BY <1>4, FloorLemma, ClockConstants
  <2> QED  BY <2>1, <2>2
<1>6. x - y < (PM_WRAP - 1) * NANOS
  BY <1>3, <1>4
<1>7. D \in 0 .. PM_WRAP - 1
  <2> HIDE DEF x, y, D
  <2>1. NANOS * D < NANOS * PM_WRAP
    BY <1>4, <1>5, <1>6, ClockConstants
  <2> QED  BY <1>5, <2>1, CancelLemma, ClockConstants
<1>8. (PmAt(b) - PmAt(a)) % PM_WRAP = D
  <2> DEFINE p == x \div NANOS
             q == y \div NANOS
  <2>1. p \in Int /\ q \in Int /\ p - q \in 0 .. PM_WRAP - 1 /\ D = p - q
    BY <1>5, <1>7
  <2>2. PmAt(b) = p % PM_WRAP /\ PmAt(a) = q % PM_WRAP
    BY DEF PmAt
  <2> HIDE DEF p, q, D
  <2>3. ((p % PM_WRAP) - (q % PM_WRAP)) % PM_WRAP = p - q
    <3>1. p \in Int /\ q \in Int /\ p - q \in 0 .. PM_WRAP - 1
      BY <2>1
    <3>2. PM_WRAP \in Nat \ {0}
      BY ClockConstants
    <3> QED  BY ZenonT(40), SMTT(40), <3>1, <3>2, WrapLemma
  <2> QED  BY <2>1, <2>2, <2>3
<1>9. D * NANOS - (b - a) * PM_HZ \in -NANOS .. NANOS
  <2> HIDE DEF x, y, D
  <2> QED  BY <1>4, <1>5, ClockConstants
<1> HIDE DEF D
<1> QED  BY <1>3, <1>8, <1>9 DEF KeepsTime

\* Two readings of the reference counter.
LEMMA RefLemma == ClockInv => RefCountKeepsTime
<1> SUFFICES ASSUME ClockInv, ref_reads # <<>>
             PROVE  KeepsTime(ref_reads, 1, REF_NS, ref_reads[2].value - ref_reads[1].value)
  BY DEF RefCountKeepsTime
<1>1. now \in Nat /\ VM_START_TIME \in Int
  BY ClockConstants DEF ClockInv, ClockTypeOK, Never
<1>2. PICK a \in 0 .. now, b \in 0 .. now : ref_reads = <<Read(a, RefAt(a)), Read(b, RefAt(b))>>
  BY DEF ClockInv, RefRead
<1>3. /\ ref_reads[1].at = a /\ ref_reads[1].value = RefAt(a)
      /\ ref_reads[2].at = b /\ ref_reads[2].value = RefAt(b)
  BY <1>2 DEF Read
<1> DEFINE x == b - VM_START_TIME
           y == a - VM_START_TIME
           D == (x \div REF_NS) - (y \div REF_NS)
<1>4. x \in Int /\ y \in Int /\ x - y = (b - a) * 1
  BY <1>1, <1>2
<1>5. D \in Int /\ REF_NS * D - (x - y) \in 1 - REF_NS .. REF_NS - 1
  <2> HIDE DEF x, y
  <2> QED  BY <1>4, GapLemma, ClockConstants
<1>6. RefAt(b) - RefAt(a) = D
  BY DEF RefAt
<1>7. D * REF_NS - (b - a) * 1 \in -REF_NS .. REF_NS
  <2> HIDE DEF x, y, D
  <2> QED  BY <1>4, <1>5, ClockConstants
<1> HIDE DEF D
<1> QED  BY <1>3, <1>6, <1>7 DEF KeepsTime

\* The scale of the page, when the frequency is the right one, is that of the two clocks
\* rounded down: reference time ticks more slowly than the counter, so it fits in a word.
LEMMA ScaleIsExact ==
  ASSUME get_tsc_frequency_hz = TSC_HZ
  PROVE  LET R == NANOS \div REF_NS
         IN  /\ R \in Nat /\ R * REF_NS = NANOS /\ R < TSC_HZ /\ TscScale \in Nat
             /\ TSC_HZ * TscScale <= R * WORD /\ R * WORD < TSC_HZ * TscScale + TSC_HZ
<1> DEFINE R == NANOS \div REF_NS
           c == R * WORD
           Q == c \div TSC_HZ
<1>1. R \in Nat
  BY ClockConstants, QuotientLemma
<1>2. R < TSC_HZ
  BY ClockAssumption
<1>3. R * REF_NS = NANOS
  <2>1. NANOS % REF_NS = 0
    BY ClockAssumption
  <2>2. NANOS = REF_NS * R + (NANOS % REF_NS)
    BY ClockConstants
  <2> HIDE DEF R
  <2> QED  BY <1>1, <2>1, <2>2, ClockConstants
<1> HIDE DEF R
<1>4. c \in Nat /\ c \in Int
  BY <1>1, ClockConstants, ProductLemma
<1>5. Q \in Nat /\ TSC_HZ * Q <= R * WORD /\ R * WORD < TSC_HZ * Q + TSC_HZ
  <2> HIDE DEF c
  <2>1. Q \in Nat
    BY <1>4, ClockConstants, QuotientLemma
  <2>2. TSC_HZ * Q <= c /\ c < TSC_HZ * Q + TSC_HZ
    BY <1>4, ClockConstants, FloorLemma
  <2> QED  BY <2>1, <2>2 DEF c
<1>6. TscScale = Q % WORD
  BY DEF TscScale, Q, R
<1> HIDE DEF Q
<1>7. Q < WORD
  <2>1. WORD * (R + 1) <= WORD * TSC_HZ
    BY <1>1, <1>2, ClockConstants, ScaleLemma
  <2>2. TSC_HZ * Q < TSC_HZ * WORD
    BY <1>1, <1>5, <2>1, ClockConstants
  <2> QED  BY <1>5, <2>2, ClockConstants, CancelLemma
<1>8. TscScale = Q
  <2>1. Q \in -WORD .. WORD - 1 /\ Q >= 0
    BY <1>5, <1>7, ClockConstants
  <2>2. Q % WORD = Q
    BY <2>1, ClockConstants, SmallLemma
  <2> QED  BY <1>6, <2>2
<1> QED  BY <1>1, <1>2, <1>3, <1>5, <1>8 DEF R

\* The time that the guest computes.
LEMMA PageTimeLemma == ClockInv => PageTimeIsTimeSinceStart
<1> SUFFICES ASSUME ClockInv, tsc_page # Off, get_tsc_frequency_hz = TSC_HZ
             PROVE  /\ PageTime >= 0
                    /\ (rdtsc - vm_start_tsc) * REF_NS <= WORD =>
                         PageTime * REF_NS - (now - vm_start) \in -(2 * REF_NS) .. 2 * REF_NS
  BY DEF PageTimeIsTimeSinceStart
<1> DEFINE R == NANOS \div REF_NS
           S == TscScale
           x == now * TSC_HZ
           y == vm_start * TSC_HZ
           A == x \div NANOS
           B == y \div NANOS
           e == now - vm_start
           d == A - B
           u == rdtsc * S
           v == vm_start_tsc * S
<1>1. /\ R \in Nat /\ R * REF_NS = NANOS /\ R < TSC_HZ /\ S \in Nat
      /\ TSC_HZ * S <= R * WORD /\ R * WORD < TSC_HZ * S + TSC_HZ
  BY ScaleIsExact
<1>2. /\ now \in Nat /\ vm_start \in Nat /\ vm_start <= now /\ tsc_boot \in Nat
      /\ vm_start_tsc = tsc_boot + B /\ rdtsc = tsc_boot + A /\ cpuid \in HostCpus /\ vm_start_tsc \in Nat
  <2>1. now \in 0 .. MaxNow /\ vm_start \in 0 .. 1 /\ tsc_boot \in TSC_BOOT /\ cpuid \in HostCpus /\ vm_start_tsc \in Nat
    BY DEF ClockInv, ClockTypeOK
  <2>2. now \in Nat /\ vm_start \in Nat /\ tsc_boot \in Nat
    BY <2>1, ClockConstants, ClockAssumption
  <2>3. vm_start <= now /\ vm_start_tsc = tsc_boot + B
    BY DEF ClockInv, PageInv
  <2>4. rdtsc = tsc_boot + A
    BY DEF rdtsc
  <2> QED  BY <2>1, <2>2, <2>3, <2>4
<1>3. tsc_page = write_tsc_reference_page
  BY DEF ClockInv, PageInv
<1>4. PageTime = (u \div WORD) - (v \div WORD)
  <2>1. tsc_page.scale = S /\ tsc_page.offset = -(v \div WORD) /\ tsc_page.offset \in Int
    BY <1>2, <1>3, PageType
  <2>2. v \in Nat /\ u \in Int /\ v \div WORD \in Int /\ u \div WORD \in Int
    <3>1. A \in Nat
      BY <1>2, ClockConstants, ProductLemma, QuotientLemma
    <3> HIDE DEF A, B, S
    <3>2. u \in Nat /\ v \in Nat
      BY <1>1, <1>2, <3>1, ProductLemma
    <3> HIDE DEF u, v
    <3> QED  BY <3>2, ClockConstants, QuotientLemma
  <2> HIDE DEF u, v
  <2>3. PageTime = (u \div WORD) + tsc_page.offset
    BY <2>1 DEF PageTime, u
  <2> QED  BY <2>1, <2>2, <2>3
<1>5. x \in Int /\ y \in Int /\ y <= x /\ x - y = e * TSC_HZ /\ e \in Nat
  <2>1. TSC_HZ * vm_start <= TSC_HZ * now
    BY <1>2, ClockConstants, ScaleLemma
  <2> QED  BY <1>2, <2>1, ClockConstants
<1>6. A \in Int /\ B \in Int /\ d \in Nat /\ NANOS * d - e * TSC_HZ \in 1 - NANOS .. NANOS - 1
  <2> HIDE DEF x, y
  <2>1. A \in Int /\ B \in Int
    BY <1>5, ClockConstants, FloorLemma
  <2>2. B <= A /\ NANOS * (A - B) - (x - y) \in 1 - NANOS .. NANOS - 1
    BY <1>5, ClockConstants, GapLemma
  <2> QED  BY <1>5, <2>1, <2>2
<1> HIDE DEF R, S, x, y, A, B, e
<1>7. u \in Int /\ v \in Int /\ v <= u /\ u - v = d * S /\ rdtsc - vm_start_tsc = d
  <2>1. S * vm_start_tsc <= S * rdtsc
    BY <1>1, <1>2, <1>6, ScaleLemma
  <2> QED  BY <1>1, <1>2, <1>6, <2>1
<1> HIDE DEF u, v, d
<1>8. /\ PageTime \in Int /\ 0 <= PageTime /\ WORD * PageTime - d * S \in 1 - WORD .. WORD - 1
  <2>1. /\ (u \div WORD) - (v \div WORD) \in Int
        /\ WORD * ((u \div WORD) - (v \div WORD)) - (u - v) \in 1 - WORD .. WORD - 1
        /\ v \div WORD <= u \div WORD
    BY <1>7, ClockConstants, GapLemma
  <2>2. u \div WORD \in Int /\ v \div WORD \in Int
    BY <1>7, ClockConstants, FloorLemma
  <2> QED  BY <1>4, <1>7, <2>1, <2>2
<1>9. ASSUME d * REF_NS <= WORD
      PROVE  PageTime * REF_NS - e \in -(2 * REF_NS) .. 2 * REF_NS
  BY <1>1, <1>5, <1>6, <1>8, <1>9, ClockConstants, PageLemma
<1> QED  BY <1>7, <1>8, <1>9 DEF e

\* Every clock of the guest keeps time, for all frequencies, word sizes and processors:
\* the PM timer and the reference counter to a tick whatever wraps and rounds, the
\* reference page to two ticks, timer interrupts at later and later wall times though the
\* clock is set back, and bit 4 of port 0x61 toggles (acpi.rs, vm.rs, emulator.rs).
THEOREM ClocksKeepTimeAlways == ClockSpec => []ClocksKeepTime
<1>1. ClockInv => InterruptsApart
  BY DEF ClockInv, WindowInv, InterruptsApart
<1>2. ClockInv => RefreshBitToggles
  BY DEF ClockInv, ClockTypeOK, Port61Inv, RefreshBitToggles
<1>3. ClockInv => ClocksKeepTime
  BY <1>1, <1>2, PmLemma, RefLemma, PageTimeLemma DEF ClocksKeepTime, ClockInv
<1> QED  BY <1>3, ClockInitLemma, ClockNextLemma, PTL DEF ClockSpec
=============================================================================
