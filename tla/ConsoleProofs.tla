---------------------------- MODULE ConsoleProofs ---------------------------
(***************************************************************************)
(* Proofs about Console: no input byte is lost, repeated, reordered or     *)
(* left without its signal on the way from the terminal to the guest, and  *)
(* input is dropped only for want of a receive buffer, for all keys,       *)
(* outputs, buffer sizes and bounds.                                       *)
(***************************************************************************)
EXTENDS Console, SequenceTheorems, WellFoundedInduction, TLAPS

-----------------------------------------------------------------------------
(* The filters. *)

\* Every set of numbers that is not empty has a least one.
LEMMA Least ==
  ASSUME NEW T \in SUBSET Nat, T # {}
  PROVE  \E x \in T : \A y \in T : x <= y
<1> DEFINE R == {ss \in Nat \X Nat : ss[1] < ss[2]}
<1>1. IsWellFoundedOn(R, Nat)
  BY NatLessThanWellFounded DEF OpToRel
<1>2. \E x \in T : \A y \in T : ~ (<<y, x>> \in R)
  <2> HIDE DEF R
  <2> QED BY <1>1, WFMin
<1>3. PICK x \in T : \A y \in T : ~ (<<y, x>> \in R)
  BY <1>2
<1>4. ASSUME NEW y \in T PROVE x <= y
  <2>1. <<y, x>> \in Nat \X Nat /\ <<y, x>>[1] = y /\ <<y, x>>[2] = x
    OBVIOUS
  <2>2. ~(<<y, x>>[1] < <<y, x>>[2])
    BY <1>3, <2>1
  <2> QED BY <2>1, <2>2
<1> QED BY <1>4

\* What a filter keeps of s from i on: at a position with a step it goes on there, at
\* another it keeps the byte.
Kept(s, step, f, i) ==
  IF i > Len(s) THEN <<>> ELSE IF step[i] # 0 THEN f[step[i]] ELSE <<s[i]>> \o f[i + 1]

IsScan(s, step, m, f) == \A i \in 1 .. m : f[i] = Kept(s, step, f, i)

\* Steps lead on in s, and at most to m.
LeadsOn(B, s, step, m) ==
  /\ s \in Seq(B) /\ m \in Nat /\ m > Len(s) /\ step \in [1 .. Len(s) -> Nat]
  /\ \A i \in 1 .. Len(s) : step[i] = 0 \/ step[i] \in i + 1 .. m

\* Such a filter is well defined ...
LEMMA ScanExists ==
  ASSUME NEW B, NEW s, NEW step, NEW m, LeadsOn(B, s, step, m)
  PROVE  \E f \in [1 .. m -> Seq(B)] : IsScan(s, step, m, f)
<1> USE DEF LeadsOn
<1> DEFINE From(d) == m + 1 - d .. m
           Solved(d) == \E f \in [From(d) -> Seq(B)] : \A i \in From(d) : f[i] = Kept(s, step, f, i)
           T == {d \in 0 .. m : ~Solved(d)}
<1>0. T \in SUBSET Nat
  OBVIOUS
<1>1. ASSUME T # {} PROVE FALSE
  <2>1. PICK d \in T : \A e \in T : d <= e
    <3> HIDE DEF T
    <3> QED  BY <1>0, <1>1, Least
  <2>2. d \in 0 .. m /\ ~Solved(d)
    BY <2>1
  <2>3. d # 0
    <3> SUFFICES ASSUME d = 0 PROVE Solved(d)
      BY <2>2
    <3> DEFINE f == [i \in From(d) |-> <<>>]
    <3>1. From(d) = {}
      OBVIOUS
    <3>2. f \in [From(d) -> Seq(B)]
      BY <3>1
    <3> QED  BY ZenonT(40), SMTT(40), <3>1, <3>2
  <2>4. Solved(d - 1)
    <3>1. d - 1 \in 0 .. m /\ ~(d <= d - 1)
      BY <2>2, <2>3
    <3> QED  BY <2>1, <3>1
  <2> DEFINE k == m + 1 - d
  <2>5. k \in 1 .. m /\ From(d - 1) = k + 1 .. m /\ From(d) = k .. m
    BY <2>2, <2>3
  <2> HIDE DEF From, k, T
  <2>6. PICK f \in [k + 1 .. m -> Seq(B)] : \A i \in k + 1 .. m : f[i] = Kept(s, step, f, i)
    BY <2>4, <2>5
  <2> DEFINE g == [i \in k .. m |-> IF i = k THEN Kept(s, step, f, k) ELSE f[i]]
  <2>7. Kept(s, step, f, k) \in Seq(B)
    <3>1. CASE k > Len(s)
      BY <3>1 DEF Kept
    <3>2. CASE k <= Len(s) /\ step[k] # 0
      BY <2>5, <2>6, <3>2 DEF Kept
    <3>3. CASE k <= Len(s) /\ step[k] = 0
      <4>1. s[k] \in B /\ f[k + 1] \in Seq(B)
        BY <2>5, <2>6, <3>3
      <4> QED  BY <2>5, <3>3, <4>1 DEF Kept
    <3> QED  BY <2>5, <3>1, <3>2, <3>3
  <2>8. g \in [k .. m -> Seq(B)]
    BY <2>5, <2>6, <2>7
  <2>9. ASSUME NEW i \in k .. m PROVE Kept(s, step, f, i) = Kept(s, step, g, i)
    <3>1. \A j \in k + 1 .. m : g[j] = f[j]
      BY <2>5
    <3>2. i <= Len(s) => i + 1 \in k + 1 .. m /\ (step[i] # 0 => step[i] \in k + 1 .. m)
      BY <2>5
    <3> QED  BY <3>1, <3>2, <2>5 DEF Kept
  <2>10. ASSUME NEW i \in k .. m PROVE g[i] = Kept(s, step, g, i)
    <3>1. g[i] = Kept(s, step, f, i)
      <4>1. CASE i = k
        BY <4>1
      <4>2. CASE i # k
        BY <2>5, <2>6, <4>2
      <4> QED  BY <4>1, <4>2
    <3> QED  BY <2>9, <3>1
  <2>11. Solved(d)
    BY <2>5, <2>8, <2>10
  <2> QED  BY <2>2, <2>11
<1>2. Solved(m)
  <2>1. m \in 0 .. m
    OBVIOUS
  <2> HIDE DEF Solved
  <2> QED  BY <1>1, <2>1 DEF T
<1>3. From(m) = 1 .. m
  OBVIOUS
<1> QED  BY ZenonT(40), SMTT(40), <1>2, <1>3 DEF IsScan

\* ... and keeps bytes of s only.
LEMMA ScanType ==
  ASSUME NEW B, NEW s, NEW step, NEW m, LeadsOn(B, s, step, m), NEW f, IsScan(s, step, m, f)
  PROVE  \A i \in 1 .. m : f[i] \in Seq(B)
<1> USE DEF LeadsOn
<1> DEFINE T == {d \in 0 .. m - 1 : f[m - d] \notin Seq(B)}
<1>0. T \in SUBSET Nat
  OBVIOUS
<1>1. ASSUME T # {} PROVE FALSE
  <2>1. PICK d \in T : \A e \in T : d <= e
    <3> HIDE DEF T
    <3> QED  BY <1>0, <1>1, Least
  <2> DEFINE k == m - d
  <2>2. k \in 1 .. m /\ f[k] \notin Seq(B)
    BY <2>1
  <2>3. ASSUME NEW j \in k + 1 .. m PROVE f[j] \in Seq(B)
    <3>1. m - j \in 0 .. m - 1 /\ ~(d <= m - j) /\ m - (m - j) = j
      BY <2>1, <2>2
    <3> QED  BY <2>1, <3>1
  <2> HIDE DEF k, T
  <2>4. f[k] = Kept(s, step, f, k)
    BY <2>2 DEF IsScan
  <2>5. CASE k > Len(s)
    BY <2>2, <2>4, <2>5 DEF Kept
  <2>6. CASE k <= Len(s) /\ step[k] # 0
    <3>1. Kept(s, step, f, k) = f[step[k]]
      BY <2>2, <2>6 DEF Kept
    <3>2. step[k] \in k + 1 .. m
      BY <2>2, <2>6
    <3> QED  BY <2>2, <2>3, <2>4, <3>1, <3>2
  <2>7. CASE k <= Len(s) /\ step[k] = 0
    <3>1. s[k] \in B /\ f[k + 1] \in Seq(B)
      BY <2>2, <2>3, <2>7
    <3>2. Kept(s, step, f, k) = <<s[k]>> \o f[k + 1]
      BY <2>2, <2>7 DEF Kept
    <3>3. <<s[k]>> \o f[k + 1] \in Seq(B)
      BY <3>1
    <3> QED  BY <2>2, <2>4, <3>2, <3>3
  <2> QED  BY <2>2, <2>5, <2>6, <2>7
<1>2. ASSUME NEW i \in 1 .. m PROVE f[i] \in Seq(B)
  <2>1. m - i \in 0 .. m - 1 /\ m - (m - i) = i
    OBVIOUS
  <2> QED  BY <1>1, <2>1
<1> QED  BY <1>2

\* A report ends behind where it starts.
LEMMA CprEndType ==
  ASSUME NEW B, NEW s \in Seq(B), NEW i \in 1 .. Len(s)
  PROVE  CprEnd(s, i) = 0 \/ CprEnd(s, i) \in i + 3 .. Len(s)
BY DEF CprEnd

\* strip_cpr_responses makes a sequence of bytes of a sequence of bytes: the scan that
\* defines it comes to an end, and keeps only bytes that are there.
LEMMA StripType ==
  ASSUME NEW B, NEW s \in Seq(B)
  PROVE  strip_cpr_responses(s) \in Seq(B)
<1> DEFINE step == [i \in 1 .. Len(s) |-> IF CprEnd(s, i) # 0 THEN CprEnd(s, i) + 1 ELSE 0]
           Body(f, i) == IF i > Len(s) THEN <<>>
                         ELSE IF CprEnd(s, i) # 0 THEN f[CprEnd(s, i) + 1]
                         ELSE <<s[i]>> \o f[i + 1]
           scan == CHOOSE f : f = [i \in 1 .. Len(s) + 1 |-> Body(f, i)]
<1>1. LeadsOn(B, s, step, Len(s) + 1)
  BY CprEndType DEF LeadsOn
<1>2. ASSUME NEW f, NEW i \in 1 .. Len(s) + 1 PROVE Kept(s, step, f, i) = Body(f, i)
  BY CprEndType DEF Kept
<1>3. strip_cpr_responses(s) = scan[1]
  BY DEF strip_cpr_responses
<1> HIDE DEF step, Body
<1>4. PICK f \in [1 .. Len(s) + 1 -> Seq(B)] : IsScan(s, step, Len(s) + 1, f)
  BY <1>1, ScanExists
<1>5. f = [i \in 1 .. Len(s) + 1 |-> Body(f, i)]
  BY <1>2, <1>4 DEF IsScan
<1>6. scan = [i \in 1 .. Len(s) + 1 |-> Body(scan, i)]
  BY <1>5
<1> HIDE DEF scan
<1>7. IsScan(s, step, Len(s) + 1, scan)
  BY <1>2, <1>6 DEF IsScan
<1>8. \A i \in 1 .. Len(s) + 1 : scan[i] \in Seq(B)
  BY <1>1, <1>7, ScanType
<1> QED  BY <1>3, <1>8

\* So does filter_dsr_and_respond.
LEMMA FilterType ==
  ASSUME NEW B, NEW s \in Seq(B)
  PROVE  filter_dsr(s) \in Seq(B)
<1> DEFINE step == [i \in 1 .. Len(s) |-> IF IsDsr(s, i) THEN i + 4 ELSE 0]
           Body(f, i) == IF i > Len(s) THEN <<>>
                         ELSE IF IsDsr(s, i) THEN f[i + 4]
                         ELSE <<s[i]>> \o f[i + 1]
           scan == CHOOSE f : f = [i \in 1 .. Len(s) + 4 |-> Body(f, i)]
<1>1. LeadsOn(B, s, step, Len(s) + 4)
  BY DEF LeadsOn
<1>2. ASSUME NEW f, NEW i \in 1 .. Len(s) + 4 PROVE Kept(s, step, f, i) = Body(f, i)
  BY DEF Kept
<1>3. filter_dsr(s) = scan[1]
  BY DEF filter_dsr
<1> HIDE DEF step, Body
<1>4. PICK f \in [1 .. Len(s) + 4 -> Seq(B)] : IsScan(s, step, Len(s) + 4, f)
  BY <1>1, ScanExists
<1>5. f = [i \in 1 .. Len(s) + 4 |-> Body(f, i)]
  BY <1>2, <1>4 DEF IsScan
<1>6. scan = [i \in 1 .. Len(s) + 4 |-> Body(scan, i)]
  BY ZenonT(40), SMTT(40), <1>5
<1> HIDE DEF scan
<1>7. IsScan(s, step, Len(s) + 4, scan)
  BY <1>2, <1>6 DEF IsScan
<1>8. \A i \in 1 .. Len(s) + 4 : scan[i] \in Seq(B)
  BY <1>1, <1>7, ScanType
<1> QED  BY <1>3, <1>8

-----------------------------------------------------------------------------
(* The invariant. *)

Typed == Bytes \ {"Q"}

\* The types of what TypeOK leaves out.
MoreTypes ==
  /\ tx_avail \in Seq(Seq(Bytes) \union {BadChain})
  /\ rx_avail \in Nat /\ rx_used \in Nat
  /\ entered \in Seq(Typed) /\ taken \in Seq(Typed) /\ received \in Seq(Typed)

\* Data is held only while it is written into buffers, and a returned buffer is
\* announced, or will be at the end of the pass that returned it.
ConsoleInv ==
  /\ TypeOK /\ MoreTypes
  /\ EachInputByteOnce /\ InputIsAnnounced
  /\ pc # "rx" => data = <<>>
  /\ rx_used > 0 => irq \/ (pc = "rx" /\ used_any)

\* Two sequences one behind the other are a sequence.
LEMMA ConcatType ==
  ASSUME NEW S, NEW s \in Seq(S), NEW t \in Seq(S)
  PROVE  s \o t \in Seq(S)
BY ConcatProperties

\* The first n elements of a sequence and the others are a sequence each.
LEMMA CutType ==
  ASSUME NEW S, NEW s \in Seq(S), NEW n \in 0 .. Len(s)
  PROVE  /\ SubSeq(s, 1, n) \in Seq(S) /\ SubSeq(s, n + 1, Len(s)) \in Seq(S)
         /\ Len(SubSeq(s, 1, n)) = n
<1>1. /\ \A i \in 1 .. n : s[i] \in S
      /\ \A i \in n + 1 .. Len(s) : s[i] \in S
  OBVIOUS
<1>2. SubSeq(s, 1, n) \in Seq(S) /\ Len(SubSeq(s, 1, n)) = n
  BY <1>1, SubSeqProperties
<1>3. SubSeq(s, n + 1, Len(s)) \in Seq(S)
  BY <1>1, SubSeqProperties
<1> QED  BY <1>2, <1>3

\* The first n elements and the others make the whole again.
LEMMA CutJoins ==
  ASSUME NEW S, NEW s \in Seq(S), NEW n \in 0 .. Len(s)
  PROVE  s = SubSeq(s, 1, n) \o SubSeq(s, n + 1, Len(s))
<1> DEFINE f == SubSeq(s, 1, n)
           r == SubSeq(s, n + 1, Len(s))
<1>1. f \in Seq(S) /\ r \in Seq(S) /\ Len(f) = n
  BY CutType
<1>2. \A i \in 1 .. n : f[i] = s[i]
  OBVIOUS
<1>3. Len(r) = Len(s) - n /\ \A i \in 1 .. Len(s) - n : r[i] = s[n + i]
  OBVIOUS
<1> HIDE DEF f, r
<1> DEFINE g == f \o r
<1>4. /\ g \in Seq(S) /\ Len(g) = Len(s)
      /\ \A i \in 1 .. Len(s) : g[i] = IF i <= n THEN f[i] ELSE r[i - n]
  BY <1>1, <1>3, ConcatProperties
<1> HIDE DEF g
<1>5. ASSUME NEW i \in 1 .. Len(s) PROVE g[i] = s[i]
  <2>1. CASE i <= n
    BY <1>2, <1>4, <2>1
  <2>2. CASE ~(i <= n)
    <3>1. i - n \in 1 .. Len(s) - n /\ n + (i - n) = i
      BY <2>2
    <3> QED  BY <1>3, <1>4, <2>2, <3>1
  <2> QED  BY <2>1, <2>2
<1>6. s = g
  BY <1>4, <1>5, SeqEqual
<1> QED  BY <1>6 DEF f, r, g

\* What is in front of the first quit key holds none.
LEMMA QuitKeyLemma ==
  ASSUME NEW bytes \in Seq(Bytes)
  PROVE  /\ QuitKey(bytes) \in 0 .. Len(bytes)
         /\ QuitKey(bytes) = 0 => bytes \in Seq(Typed)
         /\ QuitKey(bytes) # 0 => SubSeq(bytes, 1, QuitKey(bytes) - 1) \in Seq(Typed)
<1> DEFINE I == {i \in 1 .. Len(bytes) : bytes[i] = "Q"}
<1>1. QuitKey(bytes) = IF I # {} THEN CHOOSE x \in I : \A y \in I : x =< y ELSE 0
  BY DEF QuitKey, SelectInSeq, Min
<1>2. CASE I = {}
  <2>1. \A i \in 1 .. Len(bytes) : bytes[i] \in Typed
    BY <1>2 DEF Typed
  <2>2. bytes \in Seq(Typed)
    BY <2>1
  <2> QED  BY <1>1, <1>2, <2>2
<1>3. CASE I # {}
  <2> DEFINE k == CHOOSE x \in I : \A y \in I : x =< y
  <2>1. I \in SUBSET Nat
    OBVIOUS
  <2> HIDE DEF I
  <2>2. \E x \in I : \A y \in I : x =< y
    BY <1>3, <2>1, Least
  <2>3. k \in I /\ \A y \in I : k =< y
    BY <2>2
  <2> HIDE DEF k
  <2>4. k \in 1 .. Len(bytes)
    BY <2>3 DEF I
  <2>5. \A i \in 1 .. k - 1 : bytes[i] \in Typed
    <3> SUFFICES ASSUME NEW i \in 1 .. k - 1, bytes[i] \notin Typed PROVE FALSE
      OBVIOUS
    <3>1. i \in 1 .. Len(bytes) /\ ~(k =< i)
      BY <2>4
    <3>2. bytes[i] \in Bytes
      BY <3>1
    <3>3. i \in I
      BY <3>1, <3>2 DEF I, Typed
    <3> QED  BY <2>3, <3>1, <3>3
  <2>6. SubSeq(bytes, 1, k - 1) \in Seq(Typed)
    BY <2>4, <2>5, SubSeqProperties
  <2>7. QuitKey(bytes) = k
    BY <1>1, <1>3 DEF k
  <2> QED  BY <2>4, <2>6, <2>7
<1> QED  BY <1>2, <1>3

\* What a read forwards has no quit key in it.
LEMMA KeptLemma ==
  ASSUME NEW bytes \in Seq(Bytes), NEW pos, pos = QuitKey(bytes)
  PROVE  strip_cpr_responses(IF pos = 0 THEN bytes ELSE SubSeq(bytes, 1, pos - 1)) \in Seq(Typed)
<1>1. (IF pos = 0 THEN bytes ELSE SubSeq(bytes, 1, pos - 1)) \in Seq(Typed)
  BY QuitKeyLemma
<1> QED  BY <1>1, StripType

\* The answer of the worker is input without a quit key.
LEMMA CprLemma == CPR \in Seq(Typed) /\ CPR # <<>>
BY DEF CPR, Typed, Bytes

\* Bytes that come after everything come after the last part of it.
LEMMA EnterOrder ==
  ASSUME NEW t \in Seq(Typed), NEW d \in Seq(Typed), NEW i \in Seq(Typed), NEW b \in Seq(Typed),
         NEW e, e = t \o d \o i
  PROVE  e \o b = t \o d \o (i \o b)
<1> DEFINE x == t \o d
<1>1. x \in Seq(Typed)
  BY ConcatType
<1> HIDE DEF x
<1>2. (x \o i) \o b = x \o (i \o b)
  BY <1>1, ConcatAssociative
<1> QED  BY <1>2 DEF x

\* The whole is the same when input moves on from one part to the next ...
LEMMA MoveOrder ==
  ASSUME NEW t \in Seq(Typed), NEW d \in Seq(Typed), NEW i \in Seq(Typed)
  PROVE  /\ t \o i \o <<>> = t \o <<>> \o i
         /\ (t \o d) \o <<>> \o i = t \o d \o i
<1>1. t \o d \in Seq(Typed) /\ t \o i \in Seq(Typed)
  BY ConcatType
<1>2. t \o i \o <<>> = t \o <<>> \o i
  BY <1>1, ConcatEmptySeq
<1>3. (t \o d) \o <<>> = t \o d
  BY <1>1, ConcatEmptySeq
<1> QED  BY <1>2, <1>3

\* ... and when the front f of it does.
LEMMA FrontOrder ==
  ASSUME NEW t \in Seq(Typed), NEW f \in Seq(Typed), NEW r \in Seq(Typed), NEW i \in Seq(Typed),
         NEW d, d = f \o r
  PROVE  (t \o f) \o r \o i = t \o d \o i
<1>1. (t \o f) \o r = t \o d
  BY ConcatAssociative
<1> QED  BY <1>1

\* The reader thread: bytes enter at the end of the shared buffer, and a signal follows.
LEMMA ReadStep ==
  ASSUME ConsoleInv, Read
  PROVE  ConsoleInv'
<1> USE DEF ConsoleInv, Read, Enter
<1>1. PICK n \in 1 .. Len(tty) :
        LET bytes == SubSeq(tty, 1, n)
            pos == QuitKey(bytes)
            kept == strip_cpr_responses(IF pos = 0 THEN bytes ELSE SubSeq(bytes, 1, pos - 1))
        IN  /\ tty' = SubSeq(tty, n + 1, Len(tty))
            /\ quitting' = (pos # 0)
            /\ input_buffer' = input_buffer \o kept /\ entered' = entered \o kept
            /\ reader' = IF kept # <<>> THEN "signal" ELSE IF pos # 0 THEN "quit" ELSE "read"
  OBVIOUS
<1> DEFINE bytes == SubSeq(tty, 1, n)
           pos == QuitKey(bytes)
           kept == strip_cpr_responses(IF pos = 0 THEN bytes ELSE SubSeq(bytes, 1, pos - 1))
<1>2. tty \in Seq(Bytes) /\ n \in 0 .. Len(tty)
  BY DEF TypeOK
<1>3. bytes \in Seq(Bytes) /\ tty' \in Seq(Bytes)
  BY <1>1, <1>2, CutType
<1>4. kept \in Seq(Typed)
  <2> HIDE DEF bytes
  <2> QED  BY <1>3, KeptLemma
<1>5. /\ input_buffer' = input_buffer \o kept /\ entered' = entered \o kept
      /\ reader' = (IF kept # <<>> THEN "signal" ELSE IF pos # 0 THEN "quit" ELSE "read")
      /\ quitting' = (pos # 0) /\ reader = "read"
      /\ UNCHANGED <<keys, shutdown, input_event, work, guest, taken, received>>
  BY <1>1
<1> HIDE DEF kept, pos, bytes, Read, Enter
<1>6. UNCHANGED <<shutdown, input_event, pc, chain, data, used_any, stop_event, tx_event, tx_avail, rx_avail,
                  rx_used, irq, taken, received>>
  BY <1>5 DEF work, guest
<1>7. input_buffer \in Seq(Typed) /\ data \in Seq(Typed) /\ taken \in Seq(Typed) /\ entered \in Seq(Typed)
  BY DEF TypeOK, MoreTypes, Typed
<1>8. input_buffer' \in Seq(Typed) /\ entered' \in Seq(Typed)
  BY <1>4, <1>5, <1>7, ConcatType
<1>9. TypeOK'
  BY <1>3, <1>5, <1>6, <1>8 DEF TypeOK, Typed
<1>10. MoreTypes'
  BY <1>6, <1>8 DEF MoreTypes
<1>11. EachInputByteOnce'
  <2>1. entered = taken \o data \o input_buffer
    BY DEF EachInputByteOnce
  <2>2. ASSUME NEW b \in Seq(Typed) PROVE entered \o b = taken \o data \o (input_buffer \o b)
    <3> HIDE DEF ConsoleInv
    <3> QED  BY SMTT(40), ZenonT(40), <1>7, <2>1, EnterOrder
  <2>3. entered \o kept = taken \o data \o (input_buffer \o kept)
    BY <1>4, <2>2
  <2> QED  BY <1>5, <1>6, <2>3 DEF EachInputByteOnce
<1>12. InputIsAnnounced'
  <2>1. CASE kept # <<>>
    BY <1>5, <2>1 DEF InputIsAnnounced
  <2>2. CASE kept = <<>>
    <3>1. input_buffer' = input_buffer
      BY <1>5, <1>7, <2>2, ConcatEmptySeq
    <3> QED  BY <1>5, <1>6, <3>1 DEF InputIsAnnounced
  <2> QED  BY <2>1, <2>2
<1> QED  BY <1>6, <1>9, <1>10, <1>11, <1>12

\* The reader signals what it has put in the buffer.
LEMMA SignalStep ==
  ASSUME ConsoleInv, Signal \/ Quit \/ StdinEnds
  PROVE  ConsoleInv'
<1> USE DEF terminal, thread, shared, work, guest, observed
<1>1. CASE Signal
  BY <1>1 DEF ConsoleInv, TypeOK, MoreTypes, EachInputByteOnce, InputIsAnnounced, Signal
<1>2. CASE Quit
  BY <1>2 DEF ConsoleInv, TypeOK, MoreTypes, EachInputByteOnce, InputIsAnnounced, Quit
<1>3. CASE StdinEnds
  BY SMTT(40), ZenonT(40), <1>3 DEF ConsoleInv, TypeOK, MoreTypes, EachInputByteOnce, InputIsAnnounced, StdinEnds
<1> QED  BY <1>1, <1>2, <1>3

\* The worker waits, and starts and ends.
LEMMA WaitStep ==
  ASSUME ConsoleInv, activate \/ reset \/ WakeTx \/ WakeInput \/ WakeStop
  PROVE  ConsoleInv'
<1> USE DEF ConsoleInv, TypeOK, MoreTypes, EachInputByteOnce, InputIsAnnounced
<1> USE DEF terminal, thread, shared, work, guest, observed
<1>1. CASE activate
  <2>1. tx_avail' \in Seq(Seq(Bytes) \union {BadChain})
    BY <1>1 DEF activate
  <2>2. TypeOK'
    BY <1>1 DEF activate
  <2>3. /\ MoreTypes' /\ EachInputByteOnce' /\ InputIsAnnounced'
        /\ data = <<>> /\ data' = data /\ rx_used' = 0
    BY <1>1, <2>1 DEF activate
  <2> HIDE DEF TypeOK, MoreTypes, EachInputByteOnce, InputIsAnnounced
  <2> QED  BY <2>2, <2>3
<1>2. CASE reset
  BY <1>2 DEF reset
<1>3. CASE WakeTx
  BY ZenonT(40), SMTT(40), <1>3 DEF WakeTx
<1>4. CASE WakeInput
  BY ZenonT(40), SMTT(40), <1>4 DEF WakeInput
<1>5. CASE WakeStop
  BY <1>5 DEF WakeStop
<1> QED  BY ZenonT(40), SMTT(40), <1>1, <1>2, <1>3, <1>4, <1>5

\* The worker takes the input.
LEMMA TakeStep ==
  ASSUME ConsoleInv, TakeInput
  PROVE  ConsoleInv'
<1>1. /\ data' = input_buffer /\ input_buffer' = <<>> /\ data = <<>>
      /\ pc = "take" /\ pc' = (IF input_buffer = <<>> THEN "wait" ELSE "rx")
      /\ used_any' = FALSE
      /\ UNCHANGED <<tty, reader, quitting, shutdown, input_event, chain, stop_event, tx_event, tx_avail,
                     rx_avail, rx_used, irq, entered, taken, received>>
  BY DEF ConsoleInv, TakeInput, terminal, thread, guest, observed
<1>2. input_buffer \in Seq(Typed) /\ taken \in Seq(Typed) /\ input_buffer' \in Seq(Typed)
  BY <1>1 DEF ConsoleInv, TypeOK, MoreTypes, Typed
<1>3. TypeOK'
  BY <1>1, <1>2 DEF ConsoleInv, TypeOK, Typed
<1>4. MoreTypes'
  BY <1>1 DEF ConsoleInv, MoreTypes
<1>5. EachInputByteOnce'
  <2>1. taken \o input_buffer \o <<>> = taken \o <<>> \o input_buffer
    BY <1>2, MoveOrder
  <2> QED  BY <1>1, <2>1 DEF ConsoleInv, EachInputByteOnce
<1>6. rx_used > 0 => irq
  BY <1>1 DEF ConsoleInv
<1> QED  BY <1>1, <1>3, <1>4, <1>5, <1>6 DEF ConsoleInv, InputIsAnnounced

\* The worker on a transmit chain: its answer enters the input like typed bytes do.
LEMMA FilterStep ==
  ASSUME ConsoleInv, Filter
  PROVE  ConsoleInv'
<1>1. /\ pc = "tx" /\ tx_avail # <<>> /\ Head(tx_avail) # BadChain
      /\ chain' = filter_dsr(Head(tx_avail)) /\ tx_avail' = Tail(tx_avail)
      /\ UNCHANGED <<tty, reader, quitting, shutdown, input_event, data, used_any, stop_event, tx_event,
                     rx_avail, rx_used, irq, taken, received>>
  BY DEF Filter, terminal, thread
<1>2. \/ pc' = "answer" /\ input_buffer' = input_buffer \o CPR /\ entered' = entered \o CPR
      \/ pc' = "print" /\ UNCHANGED <<input_buffer, entered>>
  BY DEF Filter, Enter
<1>3. tx_avail \in Seq(Seq(Bytes) \union {BadChain})
  BY DEF ConsoleInv, MoreTypes
<1>4. Head(tx_avail) \in Seq(Bytes) /\ tx_avail' \in Seq(Seq(Bytes) \union {BadChain})
  BY <1>1, <1>3, HeadTailProperties
<1>5. chain' \in Seq(Bytes)
  BY <1>1, <1>4, FilterType
<1>6. input_buffer \in Seq(Typed) /\ data \in Seq(Typed) /\ taken \in Seq(Typed) /\ entered \in Seq(Typed)
  BY DEF ConsoleInv, TypeOK, MoreTypes, Typed
<1>7. input_buffer' \in Seq(Typed) /\ entered' \in Seq(Typed)
  <2>1. input_buffer \o CPR \in Seq(Typed) /\ entered \o CPR \in Seq(Typed)
    BY <1>6, CprLemma, ConcatType
  <2> QED  BY <1>2, <1>6, <2>1
<1>8. TypeOK'
  BY <1>1, <1>2, <1>5, <1>7 DEF ConsoleInv, TypeOK, Typed
<1>9. MoreTypes'
  BY <1>1, <1>4, <1>7 DEF ConsoleInv, MoreTypes
<1>10. EachInputByteOnce'
  <2>1. entered = taken \o data \o input_buffer
    BY DEF ConsoleInv, EachInputByteOnce
  <2>2. ASSUME NEW b \in Seq(Typed) PROVE entered \o b = taken \o data \o (input_buffer \o b)
    BY <1>6, <2>1, EnterOrder
  <2>3. entered \o CPR = taken \o data \o (input_buffer \o CPR)
    BY <2>2, CprLemma
  <2> QED  BY ZenonT(40), SMTT(40), <1>1, <1>2, <2>1, <2>3 DEF EachInputByteOnce
<1>11. InputIsAnnounced'
  BY SMTT(40), ZenonT(40), <1>1, <1>2 DEF ConsoleInv, InputIsAnnounced
<1> QED  BY <1>1, <1>2, <1>8, <1>9, <1>10, <1>11 DEF ConsoleInv

\* The worker answers, prints, skips a bad chain, or has emptied the transmit queue.
LEMMA TransmitStep ==
  ASSUME ConsoleInv, SkipChain \/ Answer \/ WriteStdout \/ TxDone
  PROVE  ConsoleInv'
<1> USE DEF ConsoleInv, TypeOK, MoreTypes, EachInputByteOnce, InputIsAnnounced
<1> USE DEF terminal, thread, shared, work, guest, observed
<1>1. CASE SkipChain
  <2>1. Tail(tx_avail) \in Seq(Seq(Bytes) \union {BadChain})
    BY <1>1, HeadTailProperties DEF SkipChain
  <2> QED  BY <1>1, <2>1 DEF SkipChain
<1>2. CASE Answer
  BY SMTT(40), ZenonT(40), <1>2 DEF Answer
<1>3. CASE WriteStdout
  <2>1. chain' \in Seq(Bytes)
    BY <1>3 DEF WriteStdout
  <2> QED  BY <1>3, <2>1 DEF WriteStdout
<1>4. CASE TxDone
  BY ZenonT(40), SMTT(40), <1>4 DEF TxDone
<1> QED  BY ZenonT(40), SMTT(40), <1>1, <1>2, <1>3, <1>4

\* The worker on a receive buffer: what moves from data to the guest is in taken.
LEMMA FillStep ==
  ASSUME ConsoleInv, NEW n \in Buffers, FillBuffer(n)
  PROVE  ConsoleInv' /\ Len(taken') - Len(taken) = Len(received') - Len(received)
<1> DEFINE m == Min({n, Len(data)})
           front == SubSeq(data, 1, m)
           rest == SubSeq(data, m + 1, Len(data))
<1>1. data \in Seq(Typed) /\ taken \in Seq(Typed) /\ received \in Seq(Typed) /\ input_buffer \in Seq(Typed)
  BY DEF ConsoleInv, TypeOK, MoreTypes, Typed
<1>2. n \in Nat /\ Len(data) \in Nat
  BY <1>1, ConsoleAssumption DEF FillBuffer
<1>3. m \in 0 .. Len(data)
  <2>1. \E x \in {n, Len(data)} : \A y \in {n, Len(data)} : x =< y
    BY <1>2
  <2>2. m \in {n, Len(data)} /\ \A y \in {n, Len(data)} : m =< y
    BY <2>1 DEF Min
  <2> QED  BY <1>2, <2>2
<1>4. /\ received' = received \o front /\ taken' = taken \o front /\ data' = rest
      /\ pc = "rx" /\ used_any' = TRUE /\ rx_used' = rx_used + 1 /\ rx_avail > 0 /\ rx_avail' = rx_avail - 1
      /\ UNCHANGED <<tty, reader, quitting, shutdown, input_buffer, input_event, pc, chain, stop_event,
                     tx_event, tx_avail, irq, entered>>
  BY DEF FillBuffer, TakeBuffer, terminal, thread, shared
<1> HIDE DEF m
<1>5. front \in Seq(Typed) /\ rest \in Seq(Typed)
  BY <1>1, <1>3, CutType
<1>6. data = front \o rest
  BY ZenonT(40), SMTT(40), <1>1, <1>3, CutJoins
<1> HIDE DEF front, rest
<1>7. taken' \in Seq(Typed) /\ received' \in Seq(Typed)
  BY <1>1, <1>4, <1>5, ConcatType
<1>8. Len(taken') - Len(taken) = Len(received') - Len(received)
  <2>1. Len(taken') = Len(taken) + Len(front) /\ Len(received') = Len(received) + Len(front)
    BY <1>1, <1>4, <1>5, ConcatProperties
  <2>2. Len(taken) \in Nat /\ Len(received) \in Nat /\ Len(front) \in Nat
    BY <1>1, <1>5
  <2> QED  BY <2>1, <2>2
<1>9. TypeOK'
  BY <1>4, <1>5 DEF ConsoleInv, TypeOK, Typed
<1>10. MoreTypes'
  BY <1>4, <1>7 DEF ConsoleInv, MoreTypes
<1>11. EachInputByteOnce'
  <2>1. (taken \o front) \o rest \o input_buffer = taken \o data \o input_buffer
    BY <1>1, <1>5, <1>6, FrontOrder
  <2> QED  BY <1>4, <2>1 DEF ConsoleInv, EachInputByteOnce
<1>12. InputIsAnnounced'
  BY <1>4 DEF ConsoleInv, InputIsAnnounced
<1> QED  BY <1>4, <1>8, <1>9, <1>10, <1>11, <1>12 DEF ConsoleInv

\* The worker passes over a receive chain that it cannot write to.
LEMMA SkipStep ==
  ASSUME ConsoleInv, SkipBuffer
  PROVE  ConsoleInv'
BY DEF ConsoleInv, TypeOK, MoreTypes, EachInputByteOnce, InputIsAnnounced, SkipBuffer, TakeBuffer,
       terminal, thread, shared

\* The end of a pass: what is left is dropped, and that only without a buffer.
LEMMA RxDoneStep ==
  ASSUME ConsoleInv, RxDone
  PROVE  /\ ConsoleInv'
         /\ rx_avail # 0 => taken' = taken
<1>1. /\ pc = "rx" /\ (data = <<>> \/ rx_avail = 0)
      /\ taken' = taken \o data /\ data' = <<>> /\ irq' = (irq \/ used_any)
      /\ used_any' = FALSE /\ pc' = "wait"
      /\ UNCHANGED <<tty, reader, quitting, shutdown, input_buffer, input_event, chain, stop_event,
                     tx_event, tx_avail, rx_avail, rx_used, entered, received>>
  BY SMTT(40), ZenonT(40) DEF RxDone, terminal, thread, shared
<1>2. data \in Seq(Typed) /\ taken \in Seq(Typed) /\ input_buffer \in Seq(Typed)
  BY DEF ConsoleInv, TypeOK, MoreTypes, Typed
<1>3. taken' \in Seq(Typed) /\ data' \in Seq(Typed)
  BY <1>1, <1>2, ConcatType
<1>4. TypeOK'
  BY <1>1, <1>3 DEF ConsoleInv, TypeOK, Typed
<1>5. MoreTypes'
  BY <1>1, <1>3 DEF ConsoleInv, MoreTypes
<1>6. EachInputByteOnce'
  <2>1. (taken \o data) \o <<>> \o input_buffer = taken \o data \o input_buffer
    BY <1>2, MoveOrder
  <2> QED  BY <1>1, <2>1 DEF ConsoleInv, EachInputByteOnce
<1>7. InputIsAnnounced'
  BY <1>1 DEF ConsoleInv, InputIsAnnounced
<1>8. rx_used' > 0 => irq'
  BY ZenonT(40), SMTT(40), <1>1 DEF ConsoleInv
<1>9. rx_avail # 0 => taken' = taken
  BY <1>1, <1>2, ConcatEmptySeq
<1> QED  BY <1>1, <1>4, <1>5, <1>6, <1>7, <1>8, <1>9 DEF ConsoleInv

\* The user and the guest driver.
LEMMA OthersStep ==
  ASSUME ConsoleInv,
         \/ \E s \in Keys : TypeKeys(s)
         \/ \E s \in Outputs : Transmit(s)
         \/ PostBuffer \/ TakeInterrupt
  PROVE  ConsoleInv'
<1> USE DEF ConsoleInv, TypeOK, MoreTypes, EachInputByteOnce, InputIsAnnounced
<1> USE DEF terminal, thread, shared, work, guest, observed
<1>1. ASSUME NEW s \in Keys, TypeKeys(s) PROVE ConsoleInv'
  <2>1. tty' \in Seq(Bytes)
    BY ZenonT(40), SMTT(40), <1>1, ConsoleAssumption, ConcatType DEF TypeKeys
  <2> QED  BY SMTT(40), ZenonT(40), <1>1, <2>1 DEF TypeKeys
<1>2. ASSUME NEW s \in Outputs, Transmit(s) PROVE ConsoleInv'
  <2>1. tx_avail' \in Seq(Seq(Bytes) \union {BadChain})
    BY <1>2, ConsoleAssumption, AppendProperties DEF Transmit
  <2> QED  BY SMTT(40), ZenonT(40), <1>2, <2>1 DEF Transmit
<1>3. CASE PostBuffer
  BY <1>3 DEF PostBuffer
<1>4. CASE TakeInterrupt
  <2>1. TypeOK'
    BY <1>4 DEF TakeInterrupt
  <2>2. /\ MoreTypes' /\ EachInputByteOnce' /\ InputIsAnnounced'
        /\ pc' # "rx" => data' = <<>>
        /\ rx_used' = 0
    BY <1>4 DEF TakeInterrupt
  <2> HIDE DEF TypeOK, MoreTypes, EachInputByteOnce, InputIsAnnounced
  <2> QED  BY SMTT(40), ZenonT(40), <2>1, <2>2
<1> QED  BY ZenonT(40), SMTT(40), <1>1, <1>2, <1>3, <1>4

\* The invariant holds when the worker starts ...
LEMMA InitLemma == Init => ConsoleInv
<1> SUFFICES ASSUME Init PROVE ConsoleInv
  OBVIOUS
<1>1. \A S : <<>> \in Seq(S)
  OBVIOUS
<1>2. <<>> = <<>> \o <<>> \o <<>>
  OBVIOUS
<1>3. TypeOK
  BY <1>1 DEF Init, TypeOK
<1>4. MoreTypes /\ EachInputByteOnce /\ InputIsAnnounced
  BY <1>1, <1>2 DEF Init, MoreTypes, EachInputByteOnce, InputIsAnnounced
<1> QED  BY <1>3, <1>4 DEF Init, ConsoleInv

\* ... and every step keeps it.
LEMMA NextLemma == ConsoleInv /\ [Next]_vars => ConsoleInv'
<1> SUFFICES ASSUME ConsoleInv, [Next]_vars PROVE ConsoleInv'
  OBVIOUS
<1>1. CASE Reader \/ StdinEnds
  BY <1>1, ReadStep, SignalStep DEF Reader
<1>2. CASE activate \/ reset
  BY <1>2, WaitStep
<1>3. CASE Worker
  BY <1>3, WaitStep, TakeStep, FilterStep, TransmitStep, FillStep, SkipStep, RxDoneStep DEF Worker
<1>4. CASE \/ \E s \in Keys : TypeKeys(s)
           \/ \E s \in Outputs : Transmit(s)
           \/ PostBuffer \/ TakeInterrupt
  BY <1>4, OthersStep
<1>5. CASE UNCHANGED vars
  BY <1>5 DEF vars, terminal, thread, shared, work, guest, observed, ConsoleInv, TypeOK, MoreTypes,
              EachInputByteOnce, InputIsAnnounced
<1> QED  BY <1>1, <1>2, <1>3, <1>4, <1>5 DEF Next

-----------------------------------------------------------------------------

\* Whatever is typed and transmitted, however reads cut it up and buffers hold it, and
\* whenever the worker is stopped and started: no byte of input is lost, repeated or
\* passed over between the terminal, the shared buffer and the guest; input in the buffer
\* has its signal; and a worker that waits has interrupted for the buffers it returned.
THEOREM InputIsKeptAlways == Spec => []InputIsKept
<1>1. ConsoleInv => InputIsKept
  BY DEF ConsoleInv, InputIsKept, ReturnedIsSignalled
<1> QED  BY <1>1, InitLemma, NextLemma, PTL DEF Spec

\* console/worker.rs, line 227: no step drops input while a receive buffer is there,
\* whatever the sizes of the buffers.
THEOREM DroppedOnlyWithoutBufferAlways == Spec => DroppedOnlyWithoutBuffer
<1> DEFINE Drops == Len(taken') - Len(taken) # Len(received') - Len(received)
<1>1. ASSUME ConsoleInv, Next, Drops PROVE rx_avail = 0
  <2>1. \A n \in Buffers : ~FillBuffer(n)
    BY <1>1, FillStep
  <2>2. Len(taken) \in Nat /\ Len(received) \in Nat
    BY <1>1 DEF ConsoleInv, MoreTypes
  <2>3. ~(UNCHANGED <<taken, received>>)
    BY <1>1, <2>2
  <2>4. RxDone
    BY ZenonT(40), SMTT(40), <1>1, <2>1, <2>3 DEF Next, Reader, Worker, Read, Enter, Signal, Quit, StdinEnds, activate, reset,
       WakeTx, WakeInput, TakeInput, WakeStop, Filter, SkipChain, Answer, WriteStdout, TxDone,
       SkipBuffer, TypeKeys, Transmit, PostBuffer, TakeInterrupt, observed
  <2>5. received' = received
    BY <2>4 DEF RxDone
  <2> QED  BY <1>1, <2>3, <2>4, <2>5, RxDoneStep DEF ConsoleInv, MoreTypes
<1>2. ConsoleInv /\ [Next]_vars => [Drops => rx_avail = 0]_vars
  BY <1>1
<1> QED  BY <1>2, InitLemma, NextLemma, PTL DEF Spec, DroppedOnlyWithoutBuffer
=============================================================================
