--------------------------- MODULE NetWorkerProofs --------------------------
(***************************************************************************)
(* Proofs about the net device's back end, for every number of frames,     *)
(* buffers, chains and activations, every size of pipe and batch, and      *)
(* every choice of kinds of frame, buffer and chain.                       *)
(*                                                                         *)
(* A frame moves along a line: the pipe s, the shared list r, the worker's *)
(* batch p, the guest d.  The lemmas named Move... say what each move does *)
(* to four such sequences, the frames g given up, the number n of frames   *)
(* sent and the frames b that were put back; the steps of the threads are  *)
(* then instances of them.                                                 *)
(***************************************************************************)
EXTENDS NetWorker, TLAPS

Frames == 0 .. MaxFrames

\* The threads and the child live and end together.
Life ==
  /\ dev = "idle" => gv \in {"none", "dead"} /\ stdout = <<>> /\ ~pid_file
  /\ dev \in {"idle", "spawning", "panicked"} <=> pc = "none"
  /\ pc = "none" <=> reader = "none"
  /\ pc = "none" => rx_pending = <<>>
  /\ dev = "spawning" => gv # "none"
  /\ dev \in {"active", "join"} => gv \in {"ready", "dead"}
  /\ gv \in {"none", "starting"} => stdout = <<>> /\ ~pid_file
  /\ pc \in {"reader", "done"} => gv = "dead" /\ ~pid_file
  /\ pc = "done" => reader = "done" /\ rx_pending = <<>>
  /\ reader = "done" => gv = "dead" /\ stdout = <<>>
  /\ pc # "rx" => packets = <<>>

\* No frame is in a sequence twice, or in two places; garbage may be.
Once(s) == \A i, j \in 1 .. Len(s) : s[i] = s[j] /\ s[i] # 0 => i = j
Apart(S, T) == \A x \in S : x \in T => x = 0

Placed(d, p, r, s, g, n) ==
  /\ Once(d) /\ Once(p) /\ Once(r) /\ Once(s)
  /\ Apart(ToSet(d), ToSet(p)) /\ Apart(ToSet(d), ToSet(r)) /\ Apart(ToSet(d), ToSet(s))
  /\ Apart(ToSet(p), ToSet(r)) /\ Apart(ToSet(p), ToSet(s)) /\ Apart(ToSet(r), ToSet(s))
  /\ Apart(ToSet(d), g) /\ Apart(ToSet(p), g) /\ Apart(ToSet(r), g) /\ Apart(ToSet(s), g)
  /\ \A f \in ToSet(d) \union ToSet(p) \union ToSet(r) \union ToSet(s) \union g : f <= n
  /\ \A f \in 1 .. n : f \in ToSet(d) \union ToSet(p) \union ToSet(r) \union ToSet(s) \union g

\* What comes behind in a sequence, or further from the guest, was sent later, unless
\* it is garbage or was put back.
Rising(s, b) == \A i, j \in 1 .. Len(s) : i < j => s[j] = 0 \/ s[j] \in b \/ s[i] < s[j]
Ahead(S, T, b) == \A x \in S, y \in T : y = 0 \/ y \in b \/ x < y

Ordered(d, p, r, s, b) ==
  /\ Rising(d, b) /\ Rising(p, b) /\ Rising(r, b) /\ Rising(s, b)
  /\ Ahead(ToSet(d), ToSet(p), b) /\ Ahead(ToSet(d), ToSet(r), b) /\ Ahead(ToSet(d), ToSet(s), b)
  /\ Ahead(ToSet(p), ToSet(r), b) /\ Ahead(ToSet(p), ToSet(s), b) /\ Ahead(ToSet(r), ToSet(s), b)

Typed(d, p, r, s, g, n, b) ==
  /\ d \in Seq(Frames) /\ p \in Seq(Frames) /\ r \in Seq(Frames) /\ s \in Seq(Frames)
  /\ g \subseteq Frames /\ n \in Frames /\ b \subseteq Frames

InLine(d, p, r, s, g, n, b) ==
  /\ Typed(d, p, r, s, g, n, b)
  /\ Placed(d, p, r, s, g, n)
  /\ Ordered(d, p, r, s, b)

Line == InLine(delivered, packets, rx_pending, stdout, gone, sent, requeued)

\* Signals on their way, wherever the worker is.
Announced ==
  /\ \/ pc = "take" \/ rx_ready \/ reader = "peek"
     \/ ToSet(rx_pending) \subseteq requeued
  /\ (\E i \in DOMAIN rx_used : rx_used[i] # 0) => irq \/ (pc = "rx" /\ used_any)

\* The counters that TypeOK leaves open.
Counters == stdin \in Nat /\ rx_avail \in Nat /\ tx_avail \in Nat /\ rx_used \in Seq(Frames)

IInv == TypeOK /\ Counters /\ Life /\ Line /\ Announced

-----------------------------------------------------------------------------
(* Sequences of frames. *)

\* Frames are numbers, and 0 is one of them.
LEMMA FramesLemma == Frames \subseteq Nat /\ 0 \in Frames /\ MaxFrames \in Nat
BY NetAssumption DEF Frames

\* Pipes and batches hold something.
LEMMA SizeFacts == PipeSize \in Nat /\ BATCH_SIZE \in Nat \ {0} /\ PipeSize > 0
BY NetAssumption

\* What is in a queue of frames is a frame.
LEMMA ToSetType ==
  ASSUME NEW q \in Seq(Frames)
  PROVE  ToSet(q) \subseteq Frames
<1>1. ASSUME NEW i \in DOMAIN q PROVE q[i] \in Frames
  OBVIOUS
<1> QED  BY <1>1 DEF ToSet

\* The places in a queue of frames.
LEMMA DomainLemma ==
  ASSUME NEW q \in Seq(Frames)
  PROVE  DOMAIN q = 1 .. Len(q)
OBVIOUS

\* An empty queue of frames.
LEMMA EmptyLemma ==
  /\ <<>> \in Seq(Frames) /\ ToSet(<<>>) = {} /\ Once(<<>>)
  /\ \A b : Rising(<<>>, b)
BY DEF ToSet, Once, Rising

\* A queue with a frame put at its end.
LEMMA AppendLemma ==
  ASSUME NEW s \in Seq(Frames), NEW f \in Frames
  PROVE  /\ Append(s, f) \in Seq(Frames) /\ ToSet(Append(s, f)) = ToSet(s) \union {f}
         /\ Once(s) /\ (f \in ToSet(s) => f = 0) => Once(Append(s, f))
         /\ \A b : Rising(s, b) /\ Ahead(ToSet(s), {f}, b) => Rising(Append(s, f), b)
<1> DEFINE t == Append(s, f)
<1>1. t \in Seq(Frames) /\ Len(t) = Len(s) + 1 /\ Len(s) \in Nat
      /\ (\A i \in 1 .. Len(s) : t[i] = s[i]) /\ t[Len(s) + 1] = f
  OBVIOUS
<1>2. DOMAIN t = 1 .. Len(s) + 1 /\ DOMAIN s = 1 .. Len(s)
  BY <1>1
<1> HIDE DEF t
<1>3. ToSet(t) = ToSet(s) \union {f}
  BY <1>1, <1>2 DEF ToSet
<1>4. ASSUME Once(s), f \in ToSet(s) => f = 0 PROVE Once(t)
  BY <1>1, <1>2, <1>4 DEF Once, ToSet
<1>5. ASSUME NEW b, Rising(s, b), Ahead(ToSet(s), {f}, b) PROVE Rising(t, b)
  BY <1>1, <1>2, <1>5 DEF Rising, Ahead, ToSet
<1> QED
  BY <1>1, <1>3, <1>4, <1>5 DEF t

\* A queue whose first frame was taken.
LEMMA TailLemma ==
  ASSUME NEW s \in Seq(Frames), s # <<>>
  PROVE  /\ Tail(s) \in Seq(Frames) /\ Head(s) \in Frames
         /\ ToSet(s) = {Head(s)} \union ToSet(Tail(s))
         /\ Once(s) => Once(Tail(s)) /\ Apart({Head(s)}, ToSet(Tail(s)))
         /\ \A b : Rising(s, b) => Rising(Tail(s), b) /\ Ahead({Head(s)}, ToSet(Tail(s)), b)
<1> DEFINE t == Tail(s)
           h == Head(s)
<1>1. t \in Seq(Frames) /\ Len(t) = Len(s) - 1 /\ Len(s) \in Nat \ {0}
      /\ (\A i \in 1 .. Len(t) : t[i] = s[i + 1]) /\ h = s[1] /\ h \in Frames
  OBVIOUS
<1>2. DOMAIN t = 1 .. Len(t) /\ DOMAIN s = 1 .. Len(s)
  BY <1>1
<1> HIDE DEF t, h
<1>3. ToSet(s) = {h} \union ToSet(t)
  <2>1. ASSUME NEW x \in ToSet(s) PROVE x \in {h} \union ToSet(t)
    <3>1. PICK i \in 1 .. Len(s) : x = s[i]
      BY <1>2 DEF ToSet
    <3>2. i = 1 \/ (i - 1 \in 1 .. Len(t) /\ t[i - 1] = s[i])
      BY <1>1
    <3> QED
      BY <1>1, <1>2, <3>1, <3>2 DEF ToSet
  <2>2. ASSUME NEW x \in {h} \union ToSet(t) PROVE x \in ToSet(s)
    BY <1>1, <1>2 DEF ToSet
  <2> QED
    BY <2>1, <2>2
<1>4. ASSUME Once(s) PROVE Once(t) /\ Apart({h}, ToSet(t))
  <2>1. Once(t)
    BY <1>1, <1>4 DEF Once
  <2>2. ASSUME NEW i \in 1 .. Len(t), t[i] = h PROVE h = 0
    BY <1>1, <1>4, <2>2 DEF Once
  <2> QED
    BY <1>2, <2>1, <2>2 DEF Apart, ToSet
<1>5. ASSUME NEW b, Rising(s, b) PROVE Rising(t, b) /\ Ahead({h}, ToSet(t), b)
  <2>1. Rising(t, b)
    BY <1>1, <1>5 DEF Rising
  <2>2. ASSUME NEW i \in 1 .. Len(t) PROVE t[i] = 0 \/ t[i] \in b \/ h < t[i]
    BY <1>1, <1>5 DEF Rising
  <2> QED
    BY <1>2, <2>1, <2>2 DEF Ahead, ToSet
<1> QED
  BY <1>1, <1>3, <1>4, <1>5 DEF t, h

\* A queue whose last frame was taken, for a frame that is put back.
LEMMA FrontLemma ==
  ASSUME NEW s \in Seq(Frames), s # <<>>
  PROVE  /\ Front(s) \in Seq(Frames) /\ Last(s) \in Frames /\ Len(Front(s)) = Len(s) - 1
         /\ ToSet(s) = ToSet(Front(s)) \union {Last(s)}
         /\ Once(s) => Once(Front(s)) /\ Apart({Last(s)}, ToSet(Front(s)))
         /\ \A b : Rising(s, b) => Rising(Front(s), b)
<1> DEFINE t == Front(s)
           z == Last(s)
<1>1. t \in Seq(Frames) /\ Len(t) = Len(s) - 1 /\ Len(s) \in Nat \ {0}
      /\ (\A i \in 1 .. Len(t) : t[i] = s[i]) /\ z = s[Len(s)] /\ z \in Frames
  <2>1. Len(s) \in Nat \ {0}
    OBVIOUS
  <2>2. s[Len(s)] \in Frames /\ \A i \in 1 .. Len(s) - 1 : s[i] \in Frames
    BY <2>1
  <2>3. t = SubSeq(s, 1, Len(s) - 1)
    BY DEF Front
  <2>4. t = [i \in 1 .. Len(s) - 1 |-> s[i]]
    BY <2>1, <2>3
  <2>5. t \in Seq(Frames)
    BY <2>1, <2>2, <2>4
  <2>6. Len(t) = Len(s) - 1
    BY <2>1, <2>4
  <2>7. \A i \in 1 .. Len(t) : t[i] = s[i]
    BY <2>1, <2>4, <2>6
  <2> QED
    BY <2>1, <2>2, <2>5, <2>6, <2>7 DEF Last
<1>2. DOMAIN t = 1 .. Len(t) /\ DOMAIN s = 1 .. Len(s)
  BY <1>1
<1> HIDE DEF t, z
<1>3. ToSet(s) = ToSet(t) \union {z}
  BY <1>1, <1>2 DEF ToSet
<1>4. ASSUME Once(s) PROVE Once(t) /\ Apart({z}, ToSet(t))
  <2>1. Once(t)
    BY <1>1, <1>4 DEF Once
  <2>2. ASSUME NEW i \in 1 .. Len(t), t[i] = z PROVE z = 0
    BY <1>1, <1>4, <2>2 DEF Once
  <2> QED
    BY <1>2, <2>1, <2>2 DEF Apart, ToSet
<1>5. ASSUME NEW b, Rising(s, b) PROVE Rising(t, b)
  BY <1>1, <1>5 DEF Rising
<1> QED
  BY <1>1, <1>3, <1>4, <1>5 DEF t, z

\* One sequence behind another.
LEMMA JoinLemma ==
  ASSUME NEW s \in Seq(Frames), NEW t \in Seq(Frames)
  PROVE  /\ s \o t \in Seq(Frames) /\ ToSet(s \o t) = ToSet(s) \union ToSet(t)
         /\ Len(s \o t) = Len(s) + Len(t)
         /\ Once(s) /\ Once(t) /\ Apart(ToSet(s), ToSet(t)) => Once(s \o t)
         /\ \A b : Rising(s, b) /\ Rising(t, b) /\ Ahead(ToSet(s), ToSet(t), b) => Rising(s \o t, b)
<1> DEFINE u == s \o t
<1>1. u \in Seq(Frames) /\ Len(u) = Len(s) + Len(t) /\ Len(s) \in Nat /\ Len(t) \in Nat
      /\ \A i \in 1 .. Len(u) : u[i] = IF i <= Len(s) THEN s[i] ELSE t[i - Len(s)]
  OBVIOUS
<1>2. DOMAIN u = 1 .. Len(u) /\ DOMAIN s = 1 .. Len(s) /\ DOMAIN t = 1 .. Len(t)
  BY <1>1
<1> HIDE DEF u
<1>3. \A i \in 1 .. Len(u) : \/ i \in 1 .. Len(s) /\ u[i] = s[i]
                             \/ i - Len(s) \in 1 .. Len(t) /\ u[i] = t[i - Len(s)] /\ i > Len(s)
  BY <1>1
<1>4. ToSet(u) = ToSet(s) \union ToSet(t)
  <2>1. ASSUME NEW x \in ToSet(u) PROVE x \in ToSet(s) \union ToSet(t)
    BY <1>2, <1>3 DEF ToSet
  <2>2. ASSUME NEW i \in 1 .. Len(t) PROVE t[i] \in ToSet(u)
    <3>1. PICK k \in Nat : k = i + Len(s)
      BY <1>1
    <3>2. k \in 1 .. Len(u) /\ ~(k <= Len(s)) /\ k - Len(s) = i
      BY <1>1, <3>1
    <3>3. u[k] = t[i]
      BY <1>1, <3>2
    <3> QED
      BY <1>2, <3>2, <3>3 DEF ToSet
  <2>3. ASSUME NEW i \in 1 .. Len(s) PROVE s[i] \in ToSet(u)
    BY <1>1, <1>2 DEF ToSet
  <2> QED
    BY <1>2, <2>1, <2>2, <2>3 DEF ToSet
<1>5. (\A i \in 1 .. Len(s) : s[i] \in ToSet(s)) /\ (\A i \in 1 .. Len(t) : t[i] \in ToSet(t))
  BY <1>2 DEF ToSet
<1>6. ASSUME Once(s), Once(t), Apart(ToSet(s), ToSet(t)) PROVE Once(u)
  <2> SUFFICES ASSUME NEW i \in 1 .. Len(u), NEW j \in 1 .. Len(u), u[i] = u[j], u[i] # 0
               PROVE  i = j
    BY DEF Once
  <2> USE <1>1, <1>3, <1>5, <1>6
  <2>1. CASE i \in 1 .. Len(s) /\ j \in 1 .. Len(s)
    BY <2>1 DEF Once
  <2>2. CASE i > Len(s) /\ j > Len(s)
    BY SMTT(40), ZenonT(40), <2>2 DEF Once
  <2>3. CASE i \in 1 .. Len(s) /\ j > Len(s)
    BY SMTT(40), ZenonT(40), <2>3 DEF Apart
  <2>4. CASE i > Len(s) /\ j \in 1 .. Len(s)
    BY <2>4 DEF Apart
  <2> QED
    BY <2>1, <2>2, <2>3, <2>4
<1>7. ASSUME NEW b, Rising(s, b), Rising(t, b), Ahead(ToSet(s), ToSet(t), b) PROVE Rising(u, b)
  <2> SUFFICES ASSUME NEW i \in 1 .. Len(u), NEW j \in 1 .. Len(u), i < j
               PROVE  u[j] = 0 \/ u[j] \in b \/ u[i] < u[j]
    BY DEF Rising
  <2> USE <1>1, <1>3, <1>5, <1>7
  <2>1. CASE j \in 1 .. Len(s)
    BY <2>1 DEF Rising
  <2>2. CASE i > Len(s)
    <3>1. i - Len(s) \in 1 .. Len(t) /\ u[i] = t[i - Len(s)]
      BY <2>2
    <3>2. j - Len(s) \in 1 .. Len(t) /\ u[j] = t[j - Len(s)]
      BY <2>2
    <3>3. i - Len(s) < j - Len(s)
      BY <2>2
    <3> QED
      BY ONLY <1>7, <3>1, <3>2, <3>3 DEF Rising
  <2>3. CASE i \in 1 .. Len(s) /\ j > Len(s)
    <3>1. u[i] \in ToSet(s) /\ u[j] \in ToSet(t)
      BY SMTT(40), ZenonT(40), <2>3
    <3> QED
      BY ONLY <1>7, <3>1 DEF Ahead
  <2> QED
    BY <2>1, <2>2, <2>3
<1> QED
  BY <1>1, <1>4, <1>6, <1>7 DEF u

\* Putting frames back only takes obligations away.
LEMMA PutBackLemma ==
  ASSUME NEW b, NEW c, b \subseteq c
  PROVE  /\ \A s : Rising(s, b) => Rising(s, c)
         /\ \A S, T : Ahead(S, T, b) => Ahead(S, T, c)
BY DEF Rising, Ahead
-----------------------------------------------------------------------------
(* The moves of a frame along the line. *)

\* What a step adds to the pipe or the list without a frame of its own.
LEMMA MoveGarbageIn ==
  ASSUME NEW d, NEW p, NEW r, NEW s, NEW g, NEW n, NEW b, InLine(d, p, r, s, g, n, b)
  PROVE  InLine(d, p, Append(r, 0), s, g, n, b) /\ InLine(d, p, r, <<0>> \o s, g, n, b)
<1> USE DEF InLine, Typed
<1>1. /\ Append(r, 0) \in Seq(Frames) /\ ToSet(Append(r, 0)) = ToSet(r) \union {0}
      /\ Once(r) => Once(Append(r, 0))
      /\ Rising(r, b) => Rising(Append(r, 0), b)
  BY AppendLemma, FramesLemma DEF Ahead
<1>2. /\ <<0>> \in Seq(Frames) /\ ToSet(<<0>>) = {0} /\ Once(<<0>>) /\ Rising(<<0>>, b)
  BY FramesLemma DEF ToSet, Once, Rising
<1>3. (\A x \in ToSet(s) : x = 0 \/ 0 < x) /\ 0 <= n
  <2>1. \A x \in Frames : x = 0 \/ 0 < x
    BY FramesLemma
  <2>2. ToSet(s) \subseteq Frames
    BY DEF ToSet
  <2>3. 0 <= n
    BY FramesLemma
  <2> QED
    BY <2>1, <2>2, <2>3
<1>4. Apart(ToSet(<<0>>), ToSet(s)) /\ Ahead(ToSet(<<0>>), ToSet(s), b)
  BY <1>2, <1>3 DEF Apart, Ahead
<1>5. /\ <<0>> \o s \in Seq(Frames) /\ ToSet(<<0>> \o s) = {0} \union ToSet(s)
      /\ Once(s) => Once(<<0>> \o s)
      /\ Rising(s, b) => Rising(<<0>> \o s, b)
  BY ZenonT(40), SMTT(40), <1>2, <1>4, JoinLemma
<1>6. Placed(d, p, Append(r, 0), s, g, n) /\ Ordered(d, p, Append(r, 0), s, b)
  BY <1>1, <1>3 DEF Placed, Ordered, Apart, Ahead
<1>7. Placed(d, p, r, <<0>> \o s, g, n) /\ Ordered(d, p, r, <<0>> \o s, b)
  BY SMTT(40), ZenonT(40), <1>3, <1>5 DEF Placed, Ordered, Apart, Ahead
<1> QED
  BY <1>1, <1>5, <1>6, <1>7

\* gvproxy sends the next frame.
LEMMA MoveSent ==
  ASSUME NEW d, NEW p, NEW r, NEW s, NEW g, NEW n, NEW b, InLine(d, p, r, s, g, n, b), n < MaxFrames
  PROVE  InLine(d, p, r, Append(s, n + 1), g, n + 1, b)
<1> USE DEF InLine, Typed
<1>1. n + 1 \in Frames
  BY FramesLemma DEF Frames
<1>2. /\ ToSet(d) \subseteq Frames /\ ToSet(p) \subseteq Frames /\ ToSet(r) \subseteq Frames
      /\ ToSet(s) \subseteq Frames
  BY DEF ToSet
<1>3. \A f \in ToSet(d) \union ToSet(p) \union ToSet(r) \union ToSet(s) \union g : f < n + 1 /\ f \in Nat
  <2> SUFFICES ASSUME NEW f \in ToSet(d) \union ToSet(p) \union ToSet(r) \union ToSet(s) \union g
               PROVE  f < n + 1 /\ f \in Nat
    OBVIOUS
  <2>1. f \in Nat /\ n \in Nat
    BY <1>2, FramesLemma
  <2>2. f <= n
    BY DEF Placed
  <2> QED
    BY ONLY <2>1, <2>2
<1>4. /\ Append(s, n + 1) \in Seq(Frames) /\ ToSet(Append(s, n + 1)) = ToSet(s) \union {n + 1}
      /\ Once(Append(s, n + 1)) /\ Rising(Append(s, n + 1), b)
  BY SMTT(40), ZenonT(40), <1>1, <1>3, AppendLemma DEF Placed, Ordered, Ahead
<1>5. Placed(d, p, r, Append(s, n + 1), g, n + 1)
  BY <1>1, <1>3, <1>4, FramesLemma DEF Placed, Apart
<1>6. Ordered(d, p, r, Append(s, n + 1), b)
  BY <1>3, <1>4 DEF Ordered, Ahead
<1> QED
  BY <1>1, <1>4, <1>5, <1>6

\* The reader pushes the first frame of the pipe on the list, or gives it up.
LEMMA MoveRead ==
  ASSUME NEW d, NEW p, NEW r, NEW s, NEW g, NEW n, NEW b, InLine(d, p, r, s, g, n, b), s # <<>>
  PROVE  /\ InLine(d, p, Append(r, Head(s)), Tail(s), g, n, b)
         /\ InLine(d, p, r, Tail(s), g \union {Head(s)}, n, b)
<1> USE DEF InLine, Typed
<1>1. /\ Tail(s) \in Seq(Frames) /\ Head(s) \in Frames /\ ToSet(s) = {Head(s)} \union ToSet(Tail(s))
      /\ Once(Tail(s)) /\ Apart({Head(s)}, ToSet(Tail(s)))
      /\ Rising(Tail(s), b) /\ Ahead({Head(s)}, ToSet(Tail(s)), b)
  BY ZenonT(40), SMTT(40), TailLemma DEF Placed, Ordered
<1>2. (Head(s) \in ToSet(r) => Head(s) = 0) /\ Ahead(ToSet(r), {Head(s)}, b)
  BY <1>1 DEF Placed, Ordered, Apart, Ahead
<1>3. /\ Append(r, Head(s)) \in Seq(Frames) /\ ToSet(Append(r, Head(s))) = ToSet(r) \union {Head(s)}
      /\ Once(Append(r, Head(s))) /\ Rising(Append(r, Head(s)), b)
  BY <1>1, <1>2, AppendLemma DEF Placed, Ordered
<1>4. Placed(d, p, Append(r, Head(s)), Tail(s), g, n)
  BY <1>1, <1>3 DEF Placed, Apart
<1>5. Ordered(d, p, Append(r, Head(s)), Tail(s), b)
  BY <1>1, <1>3 DEF Ordered, Ahead
<1>6. Placed(d, p, r, Tail(s), g \union {Head(s)}, n) /\ Ordered(d, p, r, Tail(s), b)
  BY <1>1 DEF Placed, Ordered, Apart, Ahead
<1> QED
  BY <1>1, <1>3, <1>4, <1>5, <1>6

\* A dying child leaves its last frame half written.
LEMMA MoveCut ==
  ASSUME NEW d, NEW p, NEW r, NEW s, NEW g, NEW n, NEW b, InLine(d, p, r, s, g, n, b), s # <<>>
  PROVE  InLine(d, p, r, Front(s), g \union {Last(s)}, n, b)
<1> USE DEF InLine, Typed
<1>1. /\ Front(s) \in Seq(Frames) /\ Last(s) \in Frames /\ ToSet(s) = ToSet(Front(s)) \union {Last(s)}
      /\ Once(Front(s)) /\ Apart({Last(s)}, ToSet(Front(s))) /\ Rising(Front(s), b)
  BY FrontLemma DEF Placed, Ordered
<1>2. Placed(d, p, r, Front(s), g \union {Last(s)}, n) /\ Ordered(d, p, r, Front(s), b)
  BY <1>1 DEF Placed, Ordered, Apart, Ahead
<1> QED
  BY <1>1, <1>2

\* The worker takes the whole list.
LEMMA MoveTake ==
  ASSUME NEW d, NEW r, NEW s, NEW g, NEW n, NEW b, InLine(d, <<>>, r, s, g, n, b)
  PROVE  InLine(d, r, <<>>, s, g, n, b)
<1> USE DEF InLine, Typed
<1>1. Placed(d, r, <<>>, s, g, n)
  BY EmptyLemma DEF Placed, Apart
<1>2. Ordered(d, r, <<>>, s, b)
  BY EmptyLemma DEF Ordered, Ahead
<1> QED
  BY <1>1, <1>2

\* What is left of the batch goes behind the list, and may be overtaken from now on.
LEMMA MoveBack ==
  ASSUME NEW d, NEW p, NEW r, NEW s, NEW g, NEW n, NEW b, InLine(d, p, r, s, g, n, b)
  PROVE  InLine(d, <<>>, r \o p, s, g, n, b \union ToSet(p))
<1> DEFINE c == b \union ToSet(p)
<1> USE DEF InLine, Typed
<1>1. c \subseteq Frames /\ b \subseteq c
  BY ToSetType
<1>2. /\ Rising(d, c) /\ Rising(r, c) /\ Rising(p, c) /\ Rising(s, c)
      /\ Ahead(ToSet(d), ToSet(p), c) /\ Ahead(ToSet(d), ToSet(r), c) /\ Ahead(ToSet(d), ToSet(s), c)
      /\ Ahead(ToSet(p), ToSet(s), c) /\ Ahead(ToSet(r), ToSet(s), c)
  BY SMTT(40), ZenonT(40), <1>1, PutBackLemma DEF Ordered
<1>3. Ahead(ToSet(r), ToSet(p), c) /\ Apart(ToSet(r), ToSet(p))
  BY DEF Ahead, Apart, Placed
<1> HIDE DEF c
<1>4. /\ r \o p \in Seq(Frames) /\ ToSet(r \o p) = ToSet(r) \union ToSet(p)
      /\ Once(r \o p) /\ Rising(r \o p, c)
  BY <1>2, <1>3, JoinLemma DEF Placed
<1>5. Placed(d, <<>>, r \o p, s, g, n)
  BY <1>4, EmptyLemma DEF Placed, Apart
<1>6. Ordered(d, <<>>, r \o p, s, c)
  BY <1>2, <1>4, EmptyLemma DEF Ordered, Ahead
<1> QED
  BY <1>1, <1>4, <1>5, <1>6, EmptyLemma DEF c

\* The first frame of the batch reaches the guest, or is given up.
LEMMA MoveGuest ==
  ASSUME NEW d, NEW p, NEW r, NEW s, NEW g, NEW n, NEW b, InLine(d, p, r, s, g, n, b), p # <<>>
  PROVE  /\ InLine(Append(d, Head(p)), Tail(p), r, s, g, n, b)
         /\ InLine(d, Tail(p), r, s, g \union {Head(p)}, n, b)
         /\ Head(p) \in Frames
<1> USE DEF InLine, Typed
<1>1. /\ Tail(p) \in Seq(Frames) /\ Head(p) \in Frames /\ ToSet(p) = {Head(p)} \union ToSet(Tail(p))
      /\ Once(Tail(p)) /\ Apart({Head(p)}, ToSet(Tail(p)))
      /\ Rising(Tail(p), b) /\ Ahead({Head(p)}, ToSet(Tail(p)), b)
  BY ZenonT(40), SMTT(40), TailLemma DEF Placed, Ordered
<1>2. (Head(p) \in ToSet(d) => Head(p) = 0) /\ Ahead(ToSet(d), {Head(p)}, b)
  BY SMTT(40), ZenonT(40), <1>1 DEF Placed, Ordered, Apart, Ahead
<1>3. /\ Append(d, Head(p)) \in Seq(Frames) /\ ToSet(Append(d, Head(p))) = ToSet(d) \union {Head(p)}
      /\ Once(Append(d, Head(p))) /\ Rising(Append(d, Head(p)), b)
  BY <1>1, <1>2, AppendLemma DEF Placed, Ordered
<1>4. Placed(Append(d, Head(p)), Tail(p), r, s, g, n)
  BY <1>1, <1>3 DEF Placed, Apart
<1>5. Ordered(Append(d, Head(p)), Tail(p), r, s, b)
  BY <1>1, <1>3 DEF Ordered, Ahead
<1>6. Placed(d, Tail(p), r, s, g \union {Head(p)}, n) /\ Ordered(d, Tail(p), r, s, b)
  BY SMTT(40), ZenonT(40), <1>1 DEF Placed, Ordered, Apart, Ahead
<1> QED
  BY <1>1, <1>3, <1>4, <1>5, <1>6

\* What nobody took from the list goes with the worker.
LEMMA MoveDrop ==
  ASSUME NEW d, NEW p, NEW r, NEW s, NEW g, NEW n, NEW b, InLine(d, p, r, s, g, n, b)
  PROVE  InLine(d, p, <<>>, s, g \union ToSet(r), n, b)
<1> USE DEF InLine, Typed
<1>1. ToSet(r) \subseteq Frames
  BY ToSetType
<1>2. Placed(d, p, <<>>, s, g \union ToSet(r), n)
  BY EmptyLemma DEF Placed, Apart
<1>3. Ordered(d, p, <<>>, s, b)
  BY EmptyLemma DEF Ordered, Ahead
<1> QED
  BY <1>1, <1>2, <1>3, EmptyLemma
-----------------------------------------------------------------------------
(* The steps of the threads. *)

\* Whatever read_frame makes of the pipe, the line stays in order.
LEMMA ReadLemma ==
  ASSUME IInv, stdout # <<>>, NEW r \in read_frame, AfterRead(r), PushFrame(r)
  PROVE  /\ r.ok \in BOOLEAN /\ synced' \in BOOLEAN /\ Len(stdout') <= PipeSize
         /\ InLine(delivered, packets, rx_pending', stdout', gone', sent, requeued)
         /\ r.ok \/ rx_pending' = rx_pending
<1> DEFINE h == Head(stdout)
           t == Tail(stdout)
<1>1. r \in {Frame(h), Frame(0), Refused(<<>>), Refused(<<0>>)}
  BY NetAssumption DEF read_frame, Garbage
<1>2. InLine(delivered, packets, rx_pending, stdout, gone, sent, requeued)
  BY DEF IInv, Line
<1>3. stdout \in Seq(Frames) /\ t \in Seq(Frames) /\ Len(t) = Len(stdout) - 1 /\ Len(stdout) \in Nat
  BY <1>2 DEF InLine, Typed
<1>4. Len(stdout) <= PipeSize /\ PipeSize \in Nat
  BY NetAssumption DEF IInv, TypeOK
<1>5. <<>> \o t = t /\ Len(t) <= PipeSize /\ Len(<<0>> \o t) <= PipeSize
  <2>1. <<>> \o t = t /\ Len(<<0>> \o t) = Len(t) + 1
    BY <1>3
  <2> QED
    BY <1>3, <1>4, <2>1
<1>6. /\ InLine(delivered, packets, Append(rx_pending, h), t, gone, sent, requeued)
      /\ InLine(delivered, packets, rx_pending, t, gone \union {h}, sent, requeued)
  BY <1>2, MoveRead
<1>7. /\ InLine(delivered, packets, Append(rx_pending, 0), t, gone \union {h}, sent, requeued)
      /\ InLine(delivered, packets, rx_pending, <<0>> \o t, gone \union {h}, sent, requeued)
  BY <1>6, MoveGarbageIn
<1>8. synced' \in BOOLEAN
  BY DEF AfterRead
<1> HIDE DEF h, t
<1>9. /\ stdout' = r.rest \o t
      /\ gone' = IF r.ok /\ r.frame = h THEN gone ELSE gone \union {h}
      /\ rx_pending' = IF r.ok THEN Append(rx_pending, r.frame) ELSE rx_pending
  BY DEF AfterRead, PushFrame, h, t
<1>10. CASE r = Frame(h)
  <2>1. r.ok = TRUE /\ r.frame = h /\ r.rest = <<>>
    BY <1>10 DEF Frame
  <2>2. stdout' = t /\ gone' = gone /\ rx_pending' = Append(rx_pending, h)
    BY SMTT(40), ZenonT(40), <1>5, <1>9, <2>1
  <2> QED
    BY ONLY <1>5, <1>6, <1>8, <2>1, <2>2
<1>11. CASE r = Frame(0) /\ h # 0
  <2>1. r.ok = TRUE /\ r.frame = 0 /\ r.rest = <<>>
    BY <1>11 DEF Frame
  <2>2. stdout' = t /\ gone' = gone \union {h} /\ rx_pending' = Append(rx_pending, 0)
    BY SMTT(40), ZenonT(40), <1>5, <1>9, <1>11, <2>1
  <2> QED
    BY ONLY <1>5, <1>7, <1>8, <2>1, <2>2
<1>12. CASE r = Refused(<<>>)
  <2>1. r.ok = FALSE /\ r.rest = <<>>
    BY <1>12 DEF Refused
  <2>2. stdout' = t /\ gone' = gone \union {h} /\ rx_pending' = rx_pending
    BY <1>5, <1>9, <2>1
  <2> QED
    BY ONLY <1>5, <1>6, <1>8, <2>1, <2>2
<1>13. CASE r = Refused(<<0>>)
  <2>1. r.ok = FALSE /\ r.rest = <<0>>
    BY <1>13 DEF Refused
  <2>2. stdout' = <<0>> \o t /\ gone' = gone \union {h} /\ rx_pending' = rx_pending
    BY <1>9, <2>1
  <2> QED
    BY ONLY <1>5, <1>7, <1>8, <2>1, <2>2
<1> QED
  BY <1>1, <1>10, <1>11, <1>12, <1>13

\* A dying child keeps the rest of its pipe in order.
LEMMA DieLemma ==
  ASSUME IInv, Die
  PROVE  /\ InLine(delivered, packets, rx_pending, stdout', gone', sent, requeued)
         /\ Len(stdout') <= PipeSize /\ gv' = "dead" /\ stdin' = 0
         /\ stdout = <<>> => stdout' = <<>>
<1>1. InLine(delivered, packets, rx_pending, stdout, gone, sent, requeued)
  BY DEF IInv, Line
<1>2. stdout \in Seq(Frames) /\ Len(stdout) \in Nat /\ Len(stdout) <= PipeSize /\ PipeSize \in Nat
  BY <1>1, NetAssumption DEF IInv, TypeOK, InLine, Typed
<1>3. CASE UNCHANGED <<stdout, gone>>
  BY <1>1, <1>2, <1>3 DEF Die
<1>4. CASE stdout # <<>> /\ stdout' = Front(stdout) /\ gone' = gone \union {Last(stdout)}
  <2>1. InLine(delivered, packets, rx_pending, stdout', gone', sent, requeued)
    BY <1>1, <1>4, MoveCut
  <2>2. Len(stdout') <= PipeSize
    <3>1. Len(Front(stdout)) = Len(stdout) - 1
      BY <1>2, <1>4, FrontLemma
    <3> QED
      BY <1>2, <1>4, <3>1
  <2> QED
    BY <1>4, <2>1, <2>2 DEF Die
<1> QED
  BY <1>3, <1>4 DEF Die

\* Every step keeps the frames in line.
LEMMA LineLemma == IInv /\ [Next]_vars => Line'
<1> SUFFICES ASSUME IInv, [Next]_vars
             PROVE  InLine(delivered', packets', rx_pending', stdout', gone', sent', requeued')
  BY DEF Line
<1> USE DEF child, thread, shared, work, rx, observed
<1>1. InLine(delivered, packets, rx_pending, stdout, gone, sent, requeued)
  BY DEF IInv, Line
<1>2. CASE UNCHANGED <<delivered, packets, rx_pending, stdout, gone, sent, requeued>>
  BY <1>1, <1>2
<1>3. CASE SpawnChild
  <2>1. stdout = <<>>
    BY <1>3 DEF SpawnChild, IInv, Life
  <2> QED
    BY <1>1, <1>3, <2>1 DEF SpawnChild
<1>4. CASE GvSend
  <2>1. InLine(delivered, packets, rx_pending, Append(stdout, sent + 1), gone, sent + 1, requeued)
    BY <1>1, <1>4, MoveSent DEF GvSend
  <2> QED
    BY <1>4, <2>1 DEF GvSend
<1>5. CASE GvCrash
  BY <1>5, DieLemma DEF GvCrash
<1>6. CASE DropGvProxy
  <2>1. InLine(delivered, packets, rx_pending, stdout', gone', sent, requeued)
    BY <1>1, <1>6, DieLemma DEF DropGvProxy
  <2> QED
    BY <1>6, <2>1 DEF DropGvProxy
<1>7. CASE ReadFirst
  BY <1>7, ReadLemma DEF ReadFirst
<1>8. CASE ReadMore
  BY <1>8, ReadLemma DEF ReadMore
<1>9. CASE TakePending
  <2>1. packets = <<>>
    BY <1>9 DEF TakePending, IInv, Life
  <2>2. InLine(delivered, rx_pending, <<>>, stdout, gone, sent, requeued)
    BY <1>1, <2>1, MoveTake
  <2> QED
    BY <1>9, <2>2 DEF TakePending
<1>10. CASE JoinReader
  <2>1. InLine(delivered, packets, <<>>, stdout, gone \union ToSet(rx_pending), sent, requeued)
    BY <1>1, MoveDrop
  <2> QED
    BY <1>10, <2>1 DEF JoinReader
<1>11. CASE NoBuffer
  <2>1. InLine(delivered, <<>>, rx_pending \o packets, stdout, gone, sent, requeued \union ToSet(packets))
    BY <1>1, MoveBack
  <2> QED
    BY <1>11, <2>1 DEF NoBuffer, Requeue
<1>12. CASE SkipBuffer \/ BufferTooSmall
  <2>1. packets # <<>> /\ packets' = Tail(packets) /\ gone' = gone \union {Head(packets)}
        /\ UNCHANGED <<delivered, rx_pending, stdout, sent, requeued>>
    BY <1>12 DEF SkipBuffer, BufferTooSmall, TakeBuffer
  <2>2. InLine(delivered, Tail(packets), rx_pending, stdout, gone \union {Head(packets)}, sent, requeued)
    BY ZenonT(40), SMTT(40), <1>1, <2>1, MoveGuest
  <2> QED
    BY <2>1, <2>2
<1>13. CASE Deliver
  <2>1. packets # <<>> /\ packets' = Tail(packets) /\ delivered' = Append(delivered, Head(packets))
        /\ UNCHANGED <<rx_pending, stdout, gone, sent, requeued>>
    BY <1>13 DEF Deliver, TakeBuffer
  <2>2. InLine(Append(delivered, Head(packets)), Tail(packets), rx_pending, stdout, gone, sent, requeued)
    BY ZenonT(40), SMTT(40), <1>1, <2>1, MoveGuest
  <2> QED
    BY <2>1, <2>2
<1>14. CASE \/ ChildReady \/ StartThreads \/ SpawnTimeout \/ reset \/ Joined \/ GvReceive
            \/ ReadEof \/ SignalReady \/ WaitFailed
            \/ PostBuffer \/ Transmit \/ TakeInterrupt \/ UNCHANGED vars
  BY ZenonT(40), SMTT(40), <1>2, <1>14 DEF ChildReady, StartThreads, SpawnTimeout, reset, Joined, GvReceive, ReadEof,
     SignalReady, WaitFailed, PostBuffer, Transmit, TakeInterrupt, vars
<1>15. CASE \/ WakeTx \/ WakeRx \/ WakeStop \/ RxDone \/ (\E k \in ChainKinds : TxPop(k))
            \/ TxDone \/ TxNotify \/ TxWrite \/ TxReturn
  BY SMTT(40), ZenonT(40), <1>2, <1>15 DEF WakeTx, WakeRx, WakeStop, RxDone, TxPop, TxDone, TxNotify, TxWrite, TxReturn
<1> QED
  BY ZenonT(40), SMTT(40), <1>3, <1>4, <1>5, <1>6, <1>7, <1>8, <1>9, <1>10, <1>11, <1>12, <1>13, <1>14, <1>15
  DEF Next, Reader, Worker

\* Every step keeps what relates the threads' positions to the helper's life.
LEMMA LifeLemma == IInv /\ [Next]_vars => Life'
<1> SUFFICES ASSUME IInv, [Next]_vars PROVE Life'
  OBVIOUS
<1> USE DEF child, thread, shared, work, rx, observed
<1>1. /\ Life
      /\ dev \in {"idle", "spawning", "active", "join", "panicked"}
      /\ gv \in {"none", "starting", "ready", "dead"}
      /\ reader \in {"none", "read", "peek", "done"}
      /\ pc \in {"none", "wait", "take", "drop", "reader", "done", "rx", "tx",
                 "txnotify", "write", "return"}
  BY DEF IInv, TypeOK
<1> USE DEF Life
<1>2. CASE UNCHANGED vars
  BY <1>1, <1>2 DEF vars
<1>3. CASE SpawnChild
  BY <1>1, <1>3 DEF SpawnChild
<1>4. CASE ChildReady
  BY <1>1, <1>4 DEF ChildReady
<1>5. CASE StartThreads
  BY <1>1, <1>5 DEF StartThreads
<1>6. CASE SpawnTimeout
  BY <1>1, <1>6 DEF SpawnTimeout
<1>7. CASE reset
  BY <1>1, <1>7 DEF reset
<1>8. CASE Joined
  BY <1>1, <1>8 DEF Joined
<1>9. CASE GvSend
  BY <1>1, <1>9 DEF GvSend
<1>10. CASE GvReceive
  BY <1>1, <1>10 DEF GvReceive
<1>11. CASE GvCrash
  <2>1. gv' = "dead" /\ (stdout = <<>> => stdout' = <<>>)
    BY <1>11, DieLemma DEF GvCrash
  <2> QED
    BY <1>1, <1>11, <2>1 DEF GvCrash
<1>12. CASE DropGvProxy
  <2>1. gv' = "dead" /\ (stdout = <<>> => stdout' = <<>>)
    BY <1>12, DieLemma DEF DropGvProxy
  <2> QED
    BY <1>1, <1>12, <2>1 DEF DropGvProxy
<1>13. CASE ReadFirst
  <2>1. reader = "read" /\ reader' \in {"peek", "read"} /\ stdout # <<>>
        /\ UNCHANGED <<dev, gv, pid_file, pc, packets>>
    BY <1>13 DEF ReadFirst
  <2> QED
    BY <1>1, <2>1
<1>14. CASE ReadMore
  <2>1. reader = "peek" /\ reader' = reader /\ stdout # <<>>
        /\ UNCHANGED <<dev, gv, pid_file, pc, packets>>
    BY <1>14 DEF ReadMore
  <2> QED
    BY <1>1, <2>1
<1>15. CASE ReadEof \/ SignalReady
  BY SMTT(40), ZenonT(40), <1>1, <1>15 DEF ReadEof, SignalReady
<1>16. CASE WakeTx \/ WakeRx \/ WakeStop \/ WaitFailed
  BY <1>1, <1>16 DEF WakeTx, WakeRx, WakeStop, WaitFailed
<1>17. CASE TakePending
  BY <1>1, <1>17 DEF TakePending
<1>18. CASE JoinReader
  BY <1>1, <1>18 DEF JoinReader
<1>19. CASE NoBuffer
  BY SMTT(40), ZenonT(40), <1>1, <1>19 DEF NoBuffer
<1>20. CASE SkipBuffer \/ BufferTooSmall \/ Deliver
  BY <1>1, <1>20 DEF SkipBuffer, BufferTooSmall, Deliver, TakeBuffer
<1>21. CASE RxDone
  BY <1>1, <1>21 DEF RxDone
<1>22. CASE \E k \in ChainKinds : TxPop(k)
  <2>1. pc' \in {"write", "return", "tx"} /\ pc = "tx"
    BY SMTT(40), ZenonT(40), <1>22, NetAssumption DEF TxPop
  <2> QED
    BY ZenonT(40), SMTT(40), <1>1, <1>22, <2>1 DEF TxPop
<1>23. CASE TxDone \/ TxNotify \/ TxWrite \/ TxReturn
  BY SMTT(40), ZenonT(40), <1>1, <1>23 DEF TxDone, TxNotify, TxWrite, TxReturn
<1>24. CASE PostBuffer \/ Transmit \/ TakeInterrupt
  BY SMTT(40), ZenonT(40), <1>1, <1>24 DEF PostBuffer, Transmit, TakeInterrupt
<1> QED
  BY ZenonT(40), SMTT(40), <1>2, <1>3, <1>4, <1>5, <1>6, <1>7, <1>8, <1>9, <1>10, <1>11, <1>12, <1>13, <1>14, <1>15,
     <1>16, <1>17, <1>18, <1>19, <1>20, <1>21, <1>22, <1>23, <1>24
  DEF Next, Reader, Worker

\* Every step keeps a waiting frame announced.
LEMMA AnnouncedLemma == IInv /\ [Next]_vars => Announced'
<1> SUFFICES ASSUME IInv, [Next]_vars PROVE Announced'
  OBVIOUS
<1> USE DEF child, thread, shared, work, rx, observed
<1>1. Life /\ Announced
  BY SMTT(40), ZenonT(40) DEF IInv
<1> USE DEF Announced
<1>2. CASE UNCHANGED vars
  BY SMTT(40), ZenonT(40), <1>1, <1>2 DEF vars
<1>3. CASE SpawnChild \/ ChildReady \/ SpawnTimeout \/ reset
  BY <1>1, <1>3 DEF SpawnChild, ChildReady, SpawnTimeout, reset
<1>4. CASE StartThreads \/ Joined
  BY SMTT(40), ZenonT(40), <1>1, <1>4, EmptyLemma DEF StartThreads, Joined, Life
<1>5. CASE GvSend \/ GvReceive \/ GvCrash
  BY <1>1, <1>5 DEF GvSend, GvReceive, GvCrash
<1>6. CASE ReadFirst
  <2>1. PICK r \in read_frame : /\ AfterRead(r) /\ PushFrame(r)
                                /\ reader' = IF r.ok THEN "peek" ELSE "read"
    BY <1>6 DEF ReadFirst
  <2>2. r.ok \in BOOLEAN /\ (r.ok \/ rx_pending' = rx_pending)
    BY <1>6, <2>1, ReadLemma DEF ReadFirst
  <2>3. reader = "read" /\ UNCHANGED <<rx_ready, pc, used_any, rx_used, irq, requeued>>
    BY <1>6 DEF ReadFirst
  <2> QED
    BY <1>1, <2>1, <2>2, <2>3
<1>7. CASE ReadMore
  BY <1>1, <1>7 DEF ReadMore
<1>8. CASE ReadEof \/ SignalReady
  BY SMTT(40), ZenonT(40), <1>1, <1>8 DEF ReadEof, SignalReady
<1>9. CASE WakeTx \/ WakeRx \/ WakeStop \/ WaitFailed \/ DropGvProxy
  BY <1>1, <1>9 DEF WakeTx, WakeRx, WakeStop, WaitFailed, DropGvProxy
<1>10. CASE TakePending
  BY <1>1, <1>10, EmptyLemma DEF TakePending
<1>11. CASE JoinReader
  BY <1>1, <1>11, EmptyLemma DEF JoinReader
<1>12. CASE NoBuffer
  <2>1. ToSet(rx_pending') = ToSet(rx_pending) \union ToSet(packets)
    BY <1>12, JoinLemma DEF NoBuffer, Requeue, IInv, Line, InLine, Typed
  <2> QED
    BY SMTT(40), ZenonT(40), <1>1, <1>12, <2>1 DEF NoBuffer, Requeue
<1>13. CASE SkipBuffer
  BY SMTT(40), ZenonT(40), <1>1, <1>13 DEF SkipBuffer, TakeBuffer
<1>14. CASE BufferTooSmall
  <2>1. rx_used \in Seq(Frames) /\ rx_used' = Append(rx_used, 0)
    BY <1>14 DEF BufferTooSmall, IInv, Counters
  <2>2. ASSUME NEW i \in DOMAIN rx_used', rx_used'[i] # 0
        PROVE  i \in DOMAIN rx_used /\ rx_used[i] # 0
    BY <2>1, <2>2
  <2> QED
    BY <1>1, <1>14, <2>2 DEF BufferTooSmall, TakeBuffer
<1>15. CASE Deliver
  BY <1>1, <1>15 DEF Deliver, TakeBuffer
<1>16. CASE RxDone
  BY ZenonT(40), SMTT(40), <1>1, <1>16 DEF RxDone
<1>17. CASE TxDone \/ TxNotify \/ TxWrite \/ TxReturn
  BY SMTT(40), ZenonT(40), <1>1, <1>17 DEF TxDone, TxNotify, TxWrite, TxReturn
<1>18. CASE \E k \in ChainKinds : TxPop(k)
  <2>1. pc = "tx" /\ UNCHANGED <<rx_ready, reader, rx_pending, requeued, used_any, rx_used, irq>>
    BY <1>18 DEF TxPop
  <2> QED
    BY <1>1, <2>1
<1>19. CASE PostBuffer \/ Transmit
  BY <1>1, <1>19 DEF PostBuffer, Transmit
<1>20. CASE TakeInterrupt
  BY SMTT(40), ZenonT(40), <1>1, <1>20 DEF TakeInterrupt
<1> QED
  BY ZenonT(40), SMTT(40), <1>2, <1>3, <1>4, <1>5, <1>6, <1>7, <1>8, <1>9, <1>10, <1>11, <1>12, <1>13, <1>14, <1>15,
     <1>16, <1>17, <1>18, <1>19, <1>20
  DEF Next, Reader, Worker
\* The parts of TypeOK that the line does not state.
Positions ==
  /\ dev \in {"idle", "spawning", "active", "join", "panicked"}
  /\ gv \in {"none", "starting", "ready", "dead"}
  /\ reader \in {"none", "read", "peek", "done"}
  /\ pc \in {"none", "wait", "take", "drop", "reader", "done", "rx", "tx",
             "txnotify", "write", "return"}
Flags == {pid_file, synced, rx_ready, used_any, stop_event, tx_event, irq} \subseteq BOOLEAN
Limits ==
  /\ Len(stdout) <= PipeSize /\ stdin <= PipeSize
  /\ n_frame \in (IF reader = "peek" THEN 1 .. BATCH_SIZE ELSE {0})

\* The type invariant from its parts.
LEMMA PartsLemma == Positions /\ Flags /\ Limits /\ Line => TypeOK
BY SMTT(40), ZenonT(40) DEF Positions, Flags, Limits, Line, InLine, Typed, TypeOK, Frames

\* Every step keeps the threads at known positions.
LEMMA PositionsLemma == IInv /\ [Next]_vars => Positions'
<1> SUFFICES ASSUME IInv, [Next]_vars PROVE Positions'
  BY SMTT(40), ZenonT(40)
<1> USE DEF child, thread, shared, work, rx, observed
<1>1. Positions
  BY DEF IInv, TypeOK, Positions
<1> USE DEF Positions
<1>2. CASE \/ SpawnChild \/ ChildReady \/ StartThreads \/ SpawnTimeout \/ reset \/ Joined
           \/ GvSend \/ GvReceive \/ UNCHANGED vars
  BY ZenonT(40), SMTT(40), <1>1, <1>2 DEF SpawnChild, ChildReady, StartThreads, SpawnTimeout, reset, Joined, GvSend,
     GvReceive, vars
<1>3. CASE GvCrash \/ DropGvProxy
  BY SMTT(40), ZenonT(40), <1>1, <1>3 DEF GvCrash, DropGvProxy, Die
<1>4. CASE Reader
  BY <1>1, <1>4 DEF Reader, ReadFirst, ReadEof, ReadMore, SignalReady
<1>5. CASE \/ WakeTx \/ WakeRx \/ TakePending \/ WakeStop \/ WaitFailed \/ JoinReader
           \/ NoBuffer \/ RxDone
  BY ZenonT(40), SMTT(40), <1>1, <1>5 DEF WakeTx, WakeRx, TakePending, WakeStop, WaitFailed, JoinReader, NoBuffer, RxDone
<1>6. CASE SkipBuffer \/ BufferTooSmall \/ Deliver
  BY <1>1, <1>6 DEF SkipBuffer, BufferTooSmall, Deliver
<1>7. CASE \E k \in ChainKinds : TxPop(k)
  <2>1. pc' \in {"write", "return", "tx"}
    BY SMTT(40), ZenonT(40), <1>7, NetAssumption DEF TxPop
  <2> QED
    BY ZenonT(40), SMTT(40), <1>1, <1>7, <2>1 DEF TxPop
<1>8. CASE TxDone \/ TxNotify \/ TxWrite \/ TxReturn
  BY SMTT(40), ZenonT(40), <1>1, <1>8 DEF TxDone, TxNotify, TxWrite, TxReturn
<1>9. CASE PostBuffer \/ Transmit \/ TakeInterrupt
  BY SMTT(40), ZenonT(40), <1>1, <1>9 DEF PostBuffer, Transmit, TakeInterrupt
<1> QED
  BY <1>2, <1>3, <1>4, <1>5, <1>6, <1>7, <1>8, <1>9 DEF Next, Worker

\* Every step keeps the types of the events and flags.
LEMMA FlagsLemma == IInv /\ [Next]_vars => Flags'
<1> SUFFICES ASSUME IInv, [Next]_vars PROVE Flags'
  OBVIOUS
<1> USE DEF child, thread, shared, work, rx, observed
<1>1. /\ pid_file \in BOOLEAN /\ synced \in BOOLEAN /\ rx_ready \in BOOLEAN /\ used_any \in BOOLEAN
      /\ stop_event \in BOOLEAN /\ tx_event \in BOOLEAN /\ irq \in BOOLEAN
  BY SMTT(40), ZenonT(40) DEF IInv, TypeOK
<1> SUFFICES /\ pid_file' \in BOOLEAN /\ synced' \in BOOLEAN /\ rx_ready' \in BOOLEAN
             /\ used_any' \in BOOLEAN /\ stop_event' \in BOOLEAN /\ tx_event' \in BOOLEAN
             /\ irq' \in BOOLEAN
  BY DEF Flags
<1>2. CASE \/ SpawnChild \/ ChildReady \/ StartThreads \/ SpawnTimeout \/ reset \/ Joined
           \/ GvSend \/ GvReceive \/ UNCHANGED vars
  BY ZenonT(40), SMTT(40), <1>1, <1>2 DEF SpawnChild, ChildReady, StartThreads, SpawnTimeout, reset, Joined, GvSend,
     GvReceive, vars
<1>3. CASE GvCrash \/ DropGvProxy
  BY ZenonT(40), SMTT(40), <1>1, <1>3 DEF GvCrash, DropGvProxy
<1>4. CASE Reader
  BY ZenonT(40), SMTT(40), <1>1, <1>4 DEF Reader, ReadFirst, ReadEof, ReadMore, SignalReady, AfterRead
<1>5. CASE \/ WakeTx \/ WakeRx \/ TakePending \/ WakeStop \/ WaitFailed \/ JoinReader
           \/ NoBuffer \/ RxDone
  BY ZenonT(40), SMTT(40), <1>1, <1>5 DEF WakeTx, WakeRx, TakePending, WakeStop, WaitFailed, JoinReader, NoBuffer, RxDone
<1>6. CASE SkipBuffer \/ BufferTooSmall \/ Deliver
  BY ZenonT(40), SMTT(40), <1>1, <1>6 DEF SkipBuffer, BufferTooSmall, Deliver
<1>7. CASE \/ (\E k \in ChainKinds : TxPop(k)) \/ TxDone \/ TxNotify \/ TxWrite \/ TxReturn
  BY ZenonT(40), SMTT(40), <1>1, <1>7 DEF TxPop, TxDone, TxNotify, TxWrite, TxReturn
<1>8. CASE PostBuffer \/ Transmit \/ TakeInterrupt
  BY <1>1, <1>8 DEF PostBuffer, Transmit, TakeInterrupt
<1> QED
  BY <1>2, <1>3, <1>4, <1>5, <1>6, <1>7, <1>8 DEF Next, Worker

\* Every step keeps the queues and the counters within their limits.
LEMMA LimitsLemma == IInv /\ [Next]_vars => Limits' /\ Counters'
<1> SUFFICES ASSUME IInv, [Next]_vars PROVE Limits' /\ Counters'
  OBVIOUS
<1> USE DEF child, thread, shared, work, rx, observed
<1>1. Limits /\ Counters
  BY DEF IInv, TypeOK, Limits
<1>2. PipeSize \in Nat /\ BATCH_SIZE \in Nat \ {0} /\ PipeSize > 0
  BY SizeFacts
<1> USE DEF Limits, Counters
<1>3. CASE /\ UNCHANGED <<stdout, stdin, reader, n_frame, rx_avail, tx_avail, rx_used>>
  BY SMTT(40), ZenonT(40), <1>1, <1>3
<1>4. CASE \/ ChildReady \/ SpawnTimeout \/ reset \/ WaitFailed \/ UNCHANGED vars
  BY <1>3, <1>4 DEF ChildReady, SpawnTimeout, reset, WaitFailed, vars
<1>5. CASE \/ WakeTx \/ WakeRx \/ TakePending \/ WakeStop \/ JoinReader \/ NoBuffer
           \/ RxDone \/ TxDone \/ TxNotify \/ TxReturn
  BY ZenonT(40), SMTT(40), <1>3, <1>5 DEF WakeTx, WakeRx, TakePending, WakeStop, JoinReader, NoBuffer, RxDone, TxDone,
     TxNotify, TxReturn
<1>6. CASE SpawnChild
  BY SMTT(40), ZenonT(40), <1>1, <1>2, <1>6 DEF SpawnChild
<1>7. CASE StartThreads
  BY <1>1, <1>7 DEF StartThreads, IInv, Life
<1>8. CASE Joined
  BY <1>1, <1>8, EmptyLemma DEF Joined
<1>9. CASE GvSend
  <2>1. stdout \in Seq(Frames) /\ stdout' = Append(stdout, sent + 1) /\ Len(stdout) < PipeSize
    BY <1>9 DEF GvSend, IInv, Line, InLine, Typed
  <2>2. Len(stdout) \in Nat /\ Len(stdout') = Len(stdout) + 1
    BY <2>1
  <2>3. Len(stdout') <= PipeSize
    BY <1>2, <2>1, <2>2
  <2> QED
    BY <1>1, <1>9, <2>3 DEF GvSend
<1>10. CASE GvReceive
  <2>1. stdin' \in Nat /\ stdin' <= PipeSize
    BY <1>1, <1>2, <1>10 DEF GvReceive
  <2> QED
    BY <1>1, <1>10, <2>1 DEF GvReceive
<1>11. CASE GvCrash
  <2>1. Len(stdout') <= PipeSize /\ stdin' = 0
    BY <1>11, DieLemma DEF GvCrash
  <2> QED
    BY <1>1, <1>2, <1>11, <2>1 DEF GvCrash
<1>12. CASE DropGvProxy
  <2>1. (Len(stdout') <= PipeSize /\ stdin' = 0) \/ UNCHANGED <<stdout, stdin>>
    BY <1>12, DieLemma DEF DropGvProxy
  <2> QED
    BY <1>1, <1>2, <1>12, <2>1 DEF DropGvProxy
<1>13. CASE ReadFirst
  <2>1. PICK r \in read_frame : /\ AfterRead(r) /\ PushFrame(r)
                                /\ reader' = IF r.ok THEN "peek" ELSE "read"
    BY <1>13 DEF ReadFirst
  <2>2. r.ok \in BOOLEAN /\ Len(stdout') <= PipeSize
    BY <1>13, <2>1, ReadLemma DEF ReadFirst
  <2>3. reader = "read" /\ n_frame = 0
    BY <1>1, <1>13 DEF ReadFirst
  <2>4. n_frame' = IF r.ok THEN n_frame + 1 ELSE n_frame
    BY <2>1 DEF PushFrame
  <2>5. n_frame' \in (IF reader' = "peek" THEN 1 .. BATCH_SIZE ELSE {0})
    BY ONLY <1>2, <2>1, <2>3, <2>4
  <2> QED
    BY <1>1, <1>13, <2>2, <2>5 DEF ReadFirst
<1>14. CASE ReadMore
  <2>1. PICK r \in read_frame : AfterRead(r) /\ PushFrame(r)
    BY <1>14 DEF ReadMore
  <2>2. Len(stdout') <= PipeSize
    BY <1>14, <2>1, ReadLemma DEF ReadMore
  <2>3. reader = "peek" /\ reader' = "peek" /\ n_frame \in 1 .. BATCH_SIZE /\ n_frame < BATCH_SIZE
    BY <1>1, <1>14 DEF ReadMore
  <2>4. n_frame' = n_frame + 1 \/ n_frame' = n_frame
    BY <2>1 DEF PushFrame
  <2>5. n_frame' \in 1 .. BATCH_SIZE
    BY ONLY <1>2, <2>3, <2>4
  <2> QED
    BY <1>1, <1>14, <2>2, <2>3, <2>5 DEF ReadMore
<1>15. CASE ReadEof \/ SignalReady
  BY <1>1, <1>15 DEF ReadEof, SignalReady
<1>16. CASE SkipBuffer
  BY <1>1, <1>16 DEF SkipBuffer, TakeBuffer
<1>17. CASE BufferTooSmall \/ Deliver
  <2>1. Head(packets) \in Frames
    BY ZenonT(40), SMTT(40), <1>17, MoveGuest DEF BufferTooSmall, Deliver, TakeBuffer, IInv, Line
  <2>2. rx_used' \in Seq(Frames)
    BY SMTT(40), ZenonT(40), <1>1, <1>17, <2>1, AppendLemma, FramesLemma DEF BufferTooSmall, Deliver
  <2>3. rx_avail' \in Nat
    BY <1>1, <1>17 DEF BufferTooSmall, Deliver, TakeBuffer
  <2> QED
    BY SMTT(40), ZenonT(40), <1>1, <1>17, <2>2, <2>3 DEF BufferTooSmall, Deliver
<1>18. CASE \E k \in ChainKinds : TxPop(k)
  <2>1. tx_avail' \in Nat
    BY <1>1, <1>18 DEF TxPop
  <2> QED
    BY <1>1, <1>18, <2>1 DEF TxPop
<1>19. CASE TxWrite
  <2>1. stdin' \in Nat /\ stdin' <= PipeSize
    BY SMTT(40), ZenonT(40), <1>1, <1>2, <1>19 DEF TxWrite
  <2> QED
    BY <1>1, <1>19, <2>1 DEF TxWrite
<1>20. CASE PostBuffer \/ Transmit \/ TakeInterrupt
  <2>1. rx_avail' \in Nat /\ tx_avail' \in Nat /\ UNCHANGED <<stdout, stdin, reader, n_frame>>
    BY SMTT(40), ZenonT(40), <1>1, <1>20 DEF PostBuffer, Transmit, TakeInterrupt
  <2>2. rx_used' = rx_used \/ rx_used' = <<>>
    BY <1>20 DEF PostBuffer, Transmit, TakeInterrupt
  <2> QED
    BY ZenonT(40), SMTT(40), <1>1, <2>1, <2>2, EmptyLemma
<1> QED
  BY ZenonT(40), SMTT(40), <1>4, <1>5, <1>6, <1>7, <1>8, <1>9, <1>10, <1>11, <1>12, <1>13, <1>14, <1>15, <1>16, <1>17,
     <1>18, <1>19, <1>20
  DEF Next, Reader, Worker

\* The invariant holds before the device is activated.
LEMMA InitLemma == Init => IInv
<1> SUFFICES ASSUME Init PROVE IInv
  OBVIOUS
<1> USE DEF Init
<1>1. Line
  <2>1. Typed(<<>>, <<>>, <<>>, <<>>, {}, 0, {})
    BY SMTT(40), ZenonT(40), FramesLemma, EmptyLemma DEF Typed
  <2>2. Placed(<<>>, <<>>, <<>>, <<>>, {}, 0) /\ Ordered(<<>>, <<>>, <<>>, <<>>, {})
    BY SMTT(40), ZenonT(40), EmptyLemma DEF Placed, Ordered, Apart, Ahead
  <2> QED
    BY <2>1, <2>2 DEF Line, InLine
<1>2. Positions /\ Flags
  BY SMTT(40), ZenonT(40) DEF Positions, Flags
<1>3. Limits /\ Counters
  BY SMTT(40), ZenonT(40), NetAssumption, EmptyLemma DEF Limits, Counters
<1>4. Life /\ Announced
  BY EmptyLemma DEF Life, Announced
<1> QED
  BY <1>1, <1>2, <1>3, <1>4, PartsLemma DEF IInv

\* Every step of the threads, the child and the driver keeps the invariant.
LEMMA StepLemma == IInv /\ [Next]_vars => IInv'
<1>1. (Positions /\ Flags /\ Limits /\ Line => TypeOK)'
  BY PartsLemma, PTL
<1> QED
  BY <1>1, LineLemma, LifeLemma, AnnouncedLemma, PositionsLemma, FlagsLemma, LimitsLemma DEF IInv
-----------------------------------------------------------------------------
(* The theorems. *)

\* The inductive invariant holds throughout: the life of threads and child, the line
\* of frames and the signals fit each other.
THEOREM Invariance == Spec => []IInv
BY InitLemma, StepLemma, PTL DEF Spec

\* Pipes and batches keep their limits, and lists hold frames.
THEOREM TypeOKAlways == Spec => []TypeOK
<1>1. IInv => TypeOK
  BY SMTT(40), ZenonT(40) DEF IInv
<1> QED
  BY <1>1, Invariance, PTL

\* Frames in line are in one place each.
LEMMA OnePlaceLemma == IInv => EachFrameInOnePlace
<1> SUFFICES ASSUME IInv PROVE EachFrameInOnePlace
  OBVIOUS
<1>1. /\ Typed(delivered, packets, rx_pending, stdout, gone, sent, requeued)
      /\ Placed(delivered, packets, rx_pending, stdout, gone, sent)
  BY SMTT(40), ZenonT(40) DEF IInv, Line, InLine
<1> DEFINE places == <<stdout, rx_pending, packets, delivered>>
<1>0. /\ places[1] = stdout /\ places[2] = rx_pending /\ places[3] = packets /\ places[4] = delivered
      /\ 1 .. 4 = {1, 2, 3, 4}
  OBVIOUS
<1> HIDE DEF places
<1>2. \A p \in 1 .. 4 : places[p] \in Seq(Frames) /\ Once(places[p]) /\ Apart(ToSet(places[p]), gone)
  <2>1. /\ {stdout, rx_pending, packets, delivered} \subseteq Seq(Frames)
        /\ \A q \in {stdout, rx_pending, packets, delivered} : Once(q) /\ Apart(ToSet(q), gone)
    BY <1>1 DEF Typed, Placed
  <2>2. \A p \in 1 .. 4 : places[p] \in {stdout, rx_pending, packets, delivered}
    BY <1>0
  <2> QED  BY SMTT(40), ZenonT(40), <2>1, <2>2
<1>3. \A p, q \in 1 .. 4 : p # q => Apart(ToSet(places[p]), ToSet(places[q]))
  <2>1. \A S, T : Apart(S, T) => Apart(T, S)
    BY SMTT(40), ZenonT(40) DEF Apart
  <2>2. /\ Apart(ToSet(places[4]), ToSet(places[3])) /\ Apart(ToSet(places[4]), ToSet(places[2]))
        /\ Apart(ToSet(places[4]), ToSet(places[1])) /\ Apart(ToSet(places[3]), ToSet(places[2]))
        /\ Apart(ToSet(places[3]), ToSet(places[1])) /\ Apart(ToSet(places[2]), ToSet(places[1]))
    BY <1>0, <1>1 DEF Placed
  <2> QED  BY <1>0, <2>1, <2>2
<1> DEFINE All == ToSet(delivered) \union ToSet(packets) \union ToSet(rx_pending) \union ToSet(stdout)
           Union == UNION {ToSet(places[p]) : p \in 1 .. 4}
<1>4. Union = All
  BY <1>0
<1> HIDE DEF All, Union
<1>5. \A p \in 1 .. 4 : DOMAIN places[p] = 1 .. Len(places[p])
  BY ZenonT(40), SMTT(40), <1>2, DomainLemma
<1>6. ASSUME NEW p \in 1 .. 4, NEW q \in 1 .. 4, NEW i \in DOMAIN places[p], NEW j \in DOMAIN places[q],
             places[p][i] = places[q][j], places[p][i] # Garbage
      PROVE  p = q /\ i = j
  <2>1. p = q
    BY <1>3, <1>6 DEF Apart, ToSet, Garbage
  <2>2. i \in 1 .. Len(places[p]) /\ j \in 1 .. Len(places[p])
    BY <1>5, <2>1
  <2> QED
    BY ZenonT(40), SMTT(40), <1>2, <1>6, <2>1, <2>2 DEF Once, Garbage
<1>7. \A p \in 1 .. 4 : ToSet(places[p]) \intersect gone \subseteq {Garbage}
  BY <1>2 DEF Apart, Garbage
<1>8. (All \union gone) \ {Garbage} = 1 .. sent
  <2>1. (\A f \in All \union gone : f <= sent) /\ (\A f \in 1 .. sent : f \in All \union gone)
    BY <1>1 DEF Placed, All
  <2>2. /\ ToSet(delivered) \subseteq Frames /\ ToSet(packets) \subseteq Frames
        /\ ToSet(rx_pending) \subseteq Frames /\ ToSet(stdout) \subseteq Frames
    BY <1>1, ToSetType DEF Typed
  <2>3. All \union gone \subseteq Nat /\ sent \in Nat
    BY <1>1, <2>2, FramesLemma DEF Typed, All
  <2> QED
    BY SMTT(40), ZenonT(40), <2>1, <2>3 DEF Garbage
<1>9. (Union \union gone) \ {Garbage} = 1 .. sent
  BY <1>4, <1>8
<1> QED
  BY SMTT(40), ZenonT(40), <1>6, <1>7, <1>9 DEF EachFrameInOnePlace, places, Union

\* Handing the list over and putting it back neither loses a frame nor delivers one
\* twice (rx_reader_loop, process_rx_virtio_queue), whatever the reader makes of the pipe.
THEOREM EachFrameInOnePlaceAlways == Spec => []EachFrameInOnePlace
BY OnePlaceLemma, Invariance, PTL

\* A frame in the shared list has a signal on its way to the worker, one in the used
\* ring has its interrupt, unless the worker itself put it back.
THEOREM FramesAreAnnouncedAlways == Spec => []FramesAreAnnounced
<1>1. IInv => FramesAreAnnounced
  BY DEF IInv, Announced, FramesAreAnnounced, PendingIsAnnounced, DeliveredIsSignalled
<1> QED
  BY <1>1, Invariance, PTL

\* Frames reach the guest in the order gvproxy sent them, but for those the worker put
\* back behind newer ones (line 358).
THEOREM OnlyRequeuedAreOvertakenAlways == Spec => []OnlyRequeuedAreOvertaken
<1>1. ASSUME IInv PROVE OnlyRequeuedAreOvertaken
  <2>1. delivered \in Seq(Frames) /\ Rising(delivered, requeued)
    BY <1>1 DEF IInv, Line, InLine, Typed, Ordered
  <2> SUFFICES ASSUME NEW i \in DOMAIN delivered, NEW j \in DOMAIN delivered,
                      i < j, delivered[j] < delivered[i]
               PROVE  delivered[j] \in requeued \union {Garbage}
    BY DEF OnlyRequeuedAreOvertaken
  <2>2. i \in 1 .. Len(delivered) /\ j \in 1 .. Len(delivered)
    BY <2>1
  <2>3. delivered[i] \in Nat /\ delivered[j] \in Nat
    <3>1. delivered[i] \in Frames /\ delivered[j] \in Frames
      BY <2>1, <2>2
    <3> QED
      BY SMTT(40), ZenonT(40), <3>1, FramesLemma
  <2>4. delivered[j] = 0 \/ delivered[j] \in requeued \/ delivered[i] < delivered[j]
    BY <2>1, <2>2 DEF Rising
  <2> QED
    BY <2>3, <2>4 DEF Garbage
<1> QED
  BY <1>1, Invariance, PTL

\* The PID file that spawn finds belongs to a child that is initialised: every way out of
\* the worker removes the file of the child before.
THEOREM PidFileMeansReadyAlways == Spec => []PidFileMeansReady
<1>1. IInv => PidFileMeansReady
  BY DEF IInv, Life, PidFileMeansReady
<1> QED
  BY <1>1, Invariance, PTL
=============================================================================
