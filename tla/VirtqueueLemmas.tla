--------------------------- MODULE VirtqueueLemmas --------------------------
(***************************************************************************)
(* How chains move through the rings: facts about indices, ring slots and  *)
(* sequences of chains, and the proof that every step of driver and device *)
(* moves at most one chain from one place to the next.                     *)
(***************************************************************************)
EXTENDS Virtqueue, FiniteSetTheorems, TLAPS

\* The chains on their way to the device and back, as the channel sees them.
Sent == InFlight \o Waiting

Held == IF pc = "process" THEN 1 ELSE 0
Back == Sub(next_used, last_used)
Fresh == Sub(avail_idx, kick_from)

\* No chain is counted twice, so the rings never overflow; the worker's position
\* says whether an element waits for its index to be published.
Counts ==
  /\ Cardinality(free) + Cardinality(leaked) + len + Held + Back = Size
  /\ next_used = IF pc = "index" THEN Add(used_idx, 1) ELSE used_idx
  /\ pc = "index" => Back > 0
  /\ batch + len + Held <= MaxBatch

\* The chains of F, those of L, those of s and those of r are all chains, once each.
AllApart(F, L, s, r) ==
  /\ \A i, j \in 1 .. Len(s) : s[i] = s[j] => i = j
  /\ \A i, j \in 1 .. Len(r) : r[i] = r[j] => i = j
  /\ \A i \in 1 .. Len(s) : s[i] \notin F \union L
  /\ \A j \in 1 .. Len(r) : r[j] \notin F \union L
  /\ \A i \in 1 .. Len(s), j \in 1 .. Len(r) : s[i] # r[j]
  /\ F \intersect L = {}
  /\ \A h \in Heads : \/ h \in F \union L
                      \/ \E i \in 1 .. Len(s) : s[i] = h
                      \/ \E j \in 1 .. Len(r) : r[j] = h

\* Each chain is in one place.
Places == AllApart(free, leaked, Sent, Returned)

-----------------------------------------------------------------------------
(* Indices and slots. *)

\* Linear facts about the constants, apart from the one about remainders.
LEMMA Bounds == Size \in Nat \ {0} /\ Wrap \in Nat \ {0} /\ 2 * Size <= Wrap /\ MaxBatch \in Nat
BY VirtqueueAssumption

\* Wrapping addition and subtraction of indices, without remainders.
LEMMA AddLemma ==
  ASSUME NEW a \in Idx, NEW b \in Idx
  PROVE  Add(a, b) \in Idx /\ Add(a, b) = IF a + b < Wrap THEN a + b ELSE a + b - Wrap
BY Bounds DEF Add, Idx

\* The distance between two u16 indices, without the remainder.
LEMMA SubLemma ==
  ASSUME NEW a \in Idx, NEW b \in Idx
  PROVE  Sub(a, b) \in Idx /\ Sub(a, b) = IF b <= a THEN a - b ELSE a - b + Wrap
BY Bounds DEF Sub, Idx

\* Moving either end of a window of indices by one; where the window ends.
LEMMA WindowLemma ==
  ASSUME NEW a \in Idx, NEW b \in Idx
  PROVE  /\ 1 \in Idx /\ Add(a, 1) \in Idx
         /\ Sub(a, b) < Wrap - 1 => Sub(Add(a, 1), b) = Sub(a, b) + 1
         /\ Sub(a, b) > 0 => Sub(a, Add(b, 1)) = Sub(a, b) - 1
         /\ Sub(a, b) = 0 <=> a = b
         /\ Add(b, Sub(a, b)) = a
<1>1. 1 \in Idx
  BY Bounds DEF Idx
<1>2. /\ Add(a, 1) \in Idx /\ Add(a, 1) = IF a + 1 < Wrap THEN a + 1 ELSE a + 1 - Wrap
      /\ Add(b, 1) \in Idx /\ Add(b, 1) = IF b + 1 < Wrap THEN b + 1 ELSE b + 1 - Wrap
      /\ Sub(a, b) \in Idx /\ Sub(a, b) = IF b <= a THEN a - b ELSE a - b + Wrap
  BY <1>1, AddLemma, SubLemma
<1>3. /\ Sub(Add(a, 1), b) = IF b <= Add(a, 1) THEN Add(a, 1) - b ELSE Add(a, 1) - b + Wrap
      /\ Sub(a, Add(b, 1)) = IF Add(b, 1) <= a THEN a - Add(b, 1) ELSE a - Add(b, 1) + Wrap
      /\ Add(b, Sub(a, b)) = IF b + Sub(a, b) < Wrap THEN b + Sub(a, b) ELSE b + Sub(a, b) - Wrap
  BY <1>2, AddLemma, SubLemma
<1>4. Sub(a, b) < Wrap - 1 => Sub(Add(a, 1), b) = Sub(a, b) + 1
  BY <1>2, <1>3, Bounds DEF Idx
<1>5. Sub(a, b) > 0 => Sub(a, Add(b, 1)) = Sub(a, b) - 1
  BY <1>2, <1>3, Bounds DEF Idx
<1>6. (Sub(a, b) = 0 <=> a = b) /\ Add(b, Sub(a, b)) = a
  BY <1>2, <1>3, Bounds DEF Idx
<1> QED
  BY <1>1, <1>2, <1>4, <1>5, <1>6

\* A window that starts one later holds the same slots, counted from one less.
LEMMA ShiftLemma ==
  ASSUME NEW x \in Idx, NEW i \in Idx, i + 1 \in Idx
  PROVE  Add(Add(x, 1), i) = Add(x, i + 1)
<1>1. 1 \in Idx
  BY Bounds DEF Idx
<1>2. /\ Add(x, 1) \in Idx /\ Add(x, 1) = IF x + 1 < Wrap THEN x + 1 ELSE x + 1 - Wrap
      /\ Add(x, i + 1) = IF x + (i + 1) < Wrap THEN x + (i + 1) ELSE x + (i + 1) - Wrap
  BY <1>1, AddLemma
<1>3. Add(Add(x, 1), i) = IF Add(x, 1) + i < Wrap THEN Add(x, 1) + i ELSE Add(x, 1) + i - Wrap
  BY <1>2, AddLemma
<1> QED
  BY <1>2, <1>3, Bounds DEF Idx

\* What % and \div are.
LEMMA RemainderLemma ==
  ASSUME NEW m \in Nat \ {0}, NEW x \in Int
  PROVE  x % m \in 0 .. m - 1 /\ x = (m * (x \div m)) + (x % m) /\ x \div m \in Int
OBVIOUS

\* Numbers with the same remainder differ by a multiple.
LEMMA CongruentLemma ==
  ASSUME NEW m \in Nat \ {0}, NEW x \in Int, NEW y \in Int, x % m = y % m
  PROVE  \E t \in Int : x - y = m * t
<1>1. (x \div m) - (y \div m) \in Int /\ x - y = m * ((x \div m) - (y \div m))
  BY RemainderLemma
<1> QED
  BY <1>1

\* No multiple of m lies strictly between 0 and m.
LEMMA MultipleLemma ==
  ASSUME NEW m \in Nat \ {0}, NEW t \in Int
  PROVE  m * t \notin 1 .. m - 1
OBVIOUS

\* The index width is a multiple of the queue size.
LEMMA WrapLemma == \E k \in Int : Wrap = Size * k
<1>1. Wrap = (Size * (Wrap \div Size)) + (Wrap % Size) /\ Wrap \div Size \in Int
  BY Bounds, RemainderLemma
<1>2. Wrap = Size * (Wrap \div Size)
  BY <1>1, VirtqueueAssumption
<1> QED
  BY <1>1, <1>2

\* Indices that are less than a queue apart have slots of their own, across the
\* wrap too.
LEMMA SlotLemma ==
  ASSUME NEW x \in Idx, NEW i \in 0 .. Size - 1, NEW j \in 0 .. Size - 1, i < j
  PROVE  Add(x, i) % Size # Add(x, j) % Size
<1> DEFINE a == Add(x, i)
           b == Add(x, j)
<1>1. i \in Idx /\ j \in Idx /\ i \in Int /\ j \in Int /\ j - i \in 1 .. Size - 1
  BY Bounds DEF Idx
<1>2. /\ a \in Idx /\ a = IF x + i < Wrap THEN x + i ELSE x + i - Wrap
      /\ b \in Idx /\ b = IF x + j < Wrap THEN x + j ELSE x + j - Wrap
  BY <1>1, AddLemma
<1>3. a \in Int /\ b \in Int /\ (j - i = b - a \/ j - i = b - a + Wrap)
  BY <1>1, <1>2, Bounds DEF Idx
<1>4. PICK k \in Int : Wrap = Size * k
  BY WrapLemma
<1> HIDE DEF a, b
<1>5. ASSUME NEW t \in Int, b - a = Size * t PROVE FALSE
  <2>1. CASE j - i = b - a
    BY <2>1, <1>5, <1>1, Bounds, MultipleLemma
  <2>2. CASE j - i = b - a + Wrap
    <3>1. j - i = Size * (t + k) /\ t + k \in Int
      BY Bounds, <2>2, <1>5, <1>4, <1>1
    <3> QED
      BY Bounds, <3>1, MultipleLemma, <1>1
  <2> QED
    BY <1>3, <2>1, <2>2
<1>6. a % Size = b % Size => \E t \in Int : b - a = Size * t
  BY <1>3, Bounds, CongruentLemma
<1> QED
  BY <1>5, <1>6 DEF a, b

\* A slot number is one of the ring's.
LEMMA SlotType == ASSUME NEW x \in Idx PROVE x % Size \in Slots
BY Bounds, RemainderLemma DEF Idx, Slots

-----------------------------------------------------------------------------
(* The rings as sequences. *)

\* Every index and distance of the queue is a u16.
LEMMA IndexTypes ==
  ASSUME TypeOK
  PROVE  /\ avail_idx \in Idx /\ used_event \in Idx /\ used_idx \in Idx /\ avail_event \in Idx
         /\ next_avail \in Idx /\ next_used \in Idx /\ num_added \in Idx /\ kick_from \in Idx
         /\ last_used \in Idx
         /\ len \in Idx /\ Back \in Idx /\ Fresh \in Idx
<1>1. /\ avail_idx \in Idx /\ used_event \in Idx /\ used_idx \in Idx /\ avail_event \in Idx
      /\ next_avail \in Idx /\ next_used \in Idx /\ num_added \in Idx /\ kick_from \in Idx
      /\ last_used \in Idx
  BY DEF TypeOK
<1> QED
  BY <1>1, SubLemma DEF len, Back, Fresh

Distances == len \in Idx /\ Back \in Idx /\ Fresh \in Idx

\* The same for the distances, in a form that can be primed.
LEMMA DistanceTypes == TypeOK => Distances
BY IndexTypes DEF Distances

\* Facts about sequences of chains.
LEMMA SeqEqLemma ==
  ASSUME NEW s \in Seq(Heads), NEW t \in Seq(Heads), Len(s) = Len(t),
         \A i \in 1 .. Len(s) : s[i] = t[i]
  PROVE  s = t
OBVIOUS

\* Appending to the right part of a concatenation appends to the whole.
LEMMA AppendLemma ==
  ASSUME NEW s \in Seq(Heads), NEW t \in Seq(Heads), NEW h \in Heads
  PROVE  s \o Append(t, h) = Append(s \o t, h)
OBVIOUS

\* The empty sequence is neutral.
LEMMA EmptyLemma == ASSUME NEW t \in Seq(Heads) PROVE <<>> \o t = t
OBVIOUS

\* A sequence with one element put in front.
LEMMA ConsLemma ==
  ASSUME NEW t \in Seq(Heads), NEW h \in Heads
  PROVE  /\ <<h>> \o t \in Seq(Heads) /\ <<h>> \o t # <<>> /\ Len(<<h>> \o t) = 1 + Len(t)
         /\ Head(<<h>> \o t) = h /\ Tail(<<h>> \o t) = t
OBVIOUS

\* A sequence is its head and its tail.
LEMMA HeadTailLemma ==
  ASSUME NEW t \in Seq(Heads), t # <<>>
  PROVE  <<Head(t)>> \o Tail(t) = t /\ Head(t) \in Heads /\ Tail(t) \in Seq(Heads)
OBVIOUS

\* What n entries of a ring hold, from an index on.
Window(ring, from, n) == [i \in 1 .. n |-> ring[Add(from, i - 1) % Size]]

\* The n entries of a ring from an index on.
LEMMA WindowType ==
  ASSUME NEW ring \in [Slots -> Heads], NEW from \in Idx, NEW n \in Idx
  PROVE  Window(ring, from, n) \in Seq(Heads) /\ Len(Window(ring, from, n)) = n
<1>1. ASSUME NEW i \in 1 .. n PROVE ring[Add(from, i - 1) % Size] \in Heads
  <2>1. i - 1 \in Idx
    BY Bounds DEF Idx
  <2>2. Add(from, i - 1) % Size \in Slots
    BY <2>1, AddLemma, SlotType
  <2> QED
    BY <2>2
<1>2. Window(ring, from, n) \in [1 .. n -> Heads] /\ n \in Nat
  BY <1>1, Bounds DEF Window, Idx
<1> QED
  BY <1>2

\* A chain put in the slot after the window is its last one, and no other changes.
LEMMA PutLemma ==
  ASSUME NEW ring \in [Slots -> Heads], NEW from \in Idx, NEW n \in 0 .. Size - 1,
         NEW h \in Heads, NEW next \in Idx, next = Add(from, n)
  PROVE  Window([ring EXCEPT ![next % Size] = h], from, n + 1) = Append(Window(ring, from, n), h)
<1> DEFINE new == [ring EXCEPT ![next % Size] = h]
           w == Window(ring, from, n)
           v == Window(new, from, n + 1)
<1>1. n \in Idx /\ n + 1 \in Idx /\ n \in Nat
  BY Bounds DEF Idx
<1>2. next % Size \in Slots /\ new \in [Slots -> Heads]
  BY SlotType
<1>3. w \in Seq(Heads) /\ Len(w) = n /\ v \in Seq(Heads) /\ Len(v) = n + 1
  <2> HIDE DEF new
  <2> QED
    BY <1>1, <1>2, WindowType
<1>4. ASSUME NEW k \in 1 .. n PROVE v[k] = w[k]
  <2>1. k - 1 \in 0 .. Size - 1 /\ k - 1 < n /\ k \in 1 .. n + 1 /\ k - 1 \in Idx
    BY <1>1, Bounds DEF Idx
  <2>2. Add(from, k - 1) % Size # next % Size
    BY <2>1, SlotLemma
  <2>3. Add(from, k - 1) % Size \in Slots
    BY <2>1, AddLemma, SlotType
  <2> QED
    BY <1>1, <2>1, <2>2, <2>3 DEF Window
<1>5. v[n + 1] = h
  <2>1. Add(from, (n + 1) - 1) % Size = next % Size /\ n + 1 \in 1 .. n + 1
    BY <1>1
  <2> QED
    BY <1>2, <2>1 DEF Window
<1> HIDE DEF w, v, new
<1>6. /\ Append(w, h) \in Seq(Heads) /\ Len(Append(w, h)) = n + 1 /\ Append(w, h)[n + 1] = h
      /\ \A k \in 1 .. n : Append(w, h)[k] = w[k]
  BY <1>1, <1>3
<1>7. \A k \in 1 .. n + 1 : v[k] = Append(w, h)[k]
  BY <1>1, <1>4, <1>5, <1>6
<1>8. v = Append(w, h)
  BY <1>3, <1>6, <1>7, SeqEqLemma
<1> QED
  BY <1>8 DEF w, v, new

\* Moving the start of a window takes its first chain.
LEMMA TakeLemma ==
  ASSUME NEW ring \in [Slots -> Heads], NEW from \in Idx, NEW n \in Idx, n > 0
  PROVE  /\ Window(ring, from, n) # <<>> /\ Head(Window(ring, from, n)) = ring[from % Size]
         /\ Window(ring, Add(from, 1), n - 1) = Tail(Window(ring, from, n))
<1> DEFINE w == Window(ring, from, n)
           v == Window(ring, Add(from, 1), n - 1)
<1>1. n \in Nat /\ n - 1 \in Idx /\ 1 \in Idx /\ 0 \in Idx /\ n < Wrap
  BY Bounds DEF Idx
<1>2. w \in Seq(Heads) /\ Len(w) = n /\ v \in Seq(Heads) /\ Len(v) = n - 1
  BY <1>1, AddLemma, WindowType
<1>3. ASSUME NEW k \in 1 .. n - 1 PROVE v[k] = w[k + 1]
  <2>1. k - 1 \in Idx /\ (k - 1) + 1 \in Idx /\ (k - 1) + 1 = (k + 1) - 1 /\ k + 1 \in 1 .. n
    BY <1>1, Bounds DEF Idx
  <2>2. Add(Add(from, 1), k - 1) = Add(from, (k + 1) - 1)
    BY <2>1, ShiftLemma
  <2> QED
    BY <2>1, <2>2 DEF Window
<1>4. w[1] = ring[from % Size]
  <2>1. Add(from, 0) = from
    BY <1>1, AddLemma, Bounds DEF Idx
  <2>2. Add(from, 1 - 1) = from /\ 1 \in 1 .. n
    BY <1>1, <2>1
  <2> QED
    BY <2>2 DEF Window
<1> HIDE DEF w, v
<1>5. w # <<>> /\ Head(w) = w[1]
  BY <1>1, <1>2
<1>6. /\ Tail(w) \in Seq(Heads) /\ Len(Tail(w)) = n - 1
      /\ \A k \in 1 .. n - 1 : Tail(w)[k] = w[k + 1]
  BY <1>1, <1>2, <1>5
<1>7. v = Tail(w)
  BY <1>2, <1>3, <1>6, SeqEqLemma
<1> QED
  BY <1>4, <1>5, <1>7 DEF w, v

\* The rings hold sequences of chains.
Shape ==
  /\ len \in Nat /\ Back \in Nat /\ Held \in Nat
  /\ Waiting \in Seq(Heads) /\ Len(Waiting) = len
  /\ InFlight \in Seq(Heads) /\ Len(InFlight) = Held
  /\ Returned \in Seq(Heads) /\ Len(Returned) = Back
  /\ Sent \in Seq(Heads) /\ Len(Sent) = Held + len

\* What is on its way in the rings is a sequence of heads, as long as the indices say.
LEMMA ShapeLemma == TypeOK => Shape
<1> SUFFICES ASSUME TypeOK PROVE Shape
  OBVIOUS
<1>1. next_avail \in Idx /\ last_used \in Idx /\ len \in Idx /\ Back \in Idx
  BY IndexTypes
<1>2. Waiting = Window(avail_ring, next_avail, len) /\ Returned = Window(used_ring, last_used, Back)
  BY DEF Waiting, Returned, Window, Back
<1>3. /\ Waiting \in Seq(Heads) /\ Len(Waiting) = len
      /\ Returned \in Seq(Heads) /\ Len(Returned) = Back
  BY <1>1, <1>2, WindowType DEF TypeOK
<1>4. len \in Nat /\ Back \in Nat /\ Held \in Nat
  BY <1>1, Bounds DEF Idx, Held
<1>5. head \in Heads
  BY DEF TypeOK
<1>6. /\ InFlight \in Seq(Heads) /\ Len(InFlight) = Held
      /\ Sent \in Seq(Heads) /\ Len(Sent) = Held + len
  <2>1. CASE pc = "process"
    BY <1>3, <1>5, <2>1, ConsLemma DEF InFlight, Held, Sent
  <2>2. CASE pc # "process"
    BY <1>3, <1>4, <2>2, EmptyLemma DEF InFlight, Held, Sent
  <2> QED
    BY <2>1, <2>2
<1> QED
  BY <1>3, <1>4, <1>6 DEF Shape

\* Taking a chain from a set of chains, and adding one.
LEMMA CardLemma ==
  ASSUME NEW S \in SUBSET Heads, NEW h \in Heads
  PROVE  /\ Cardinality(S) \in Nat
         /\ h \in S => Cardinality(S) > 0 /\ Cardinality(S \ {h}) = Cardinality(S) - 1
         /\ h \notin S => Cardinality(S \union {h}) = Cardinality(S) + 1
<1>1. IsFiniteSet(S)
  <2>1. 0 \in Int /\ Size - 1 \in Int
    BY Bounds
  <2>2. IsFiniteSet(Heads)
    BY <2>1, FS_Interval DEF Heads, Slots
  <2> QED
    BY <2>2, FS_Subset
<1>2. Cardinality(S) \in Nat /\ IsFiniteSet(S \ {h}) /\ IsFiniteSet(S \union {h})
  BY <1>1, FS_CardinalityType, FS_RemoveElement, FS_AddElement
<1>3. h \in S => Cardinality(S) > 0
  BY SMTT(40), ZenonT(40), <1>1, <1>2, FS_EmptySet
<1> QED
  BY <1>1, <1>2, <1>3, FS_RemoveElement, FS_AddElement

-----------------------------------------------------------------------------
(* Types. *)

\* Every step keeps the types.
LEMMA TypeLemma ==
  ASSUME TypeOK, Counts, [Next]_vars
  PROVE  TypeOK'
<1> USE DEF TypeOK
<1>1. next_avail \in Idx /\ last_used \in Idx /\ len \in Idx /\ Back \in Idx /\ Wrap \in Nat \ {0}
  BY IndexTypes, Bounds
<1>2. \A x \in Idx : Add(x, 1) \in Idx /\ x % Size \in Slots
  BY WindowLemma, SlotType
<1>3. batch \in Nat /\ batch + len + Held <= MaxBatch
  BY Bounds DEF Counts
<1>4. CASE UNCHANGED vars
  BY SMTT(40), ZenonT(40), <1>4 DEF vars, guest, device, queue, worker, driver
<1>5. CASE Worker
  <2> USE DEF guest, device, queue, driver
  <2>1. CASE Wait
    BY ZenonT(40), SMTT(40), <2>1 DEF Wait
  <2>2. CASE disable_notification
    BY ZenonT(40), SMTT(40), <2>2 DEF disable_notification
  <2>3. CASE pop
    BY <2>3, <1>1, <1>2 DEF pop
  <2>4. CASE pop_none
    BY <2>4 DEF pop_none
  <2>5. CASE SkipChain
    BY <2>5 DEF SkipChain
  <2>6. CASE add_used_element
    <3>1. batch + 1 \in 0 .. MaxBatch
      BY <2>6, <1>1, <1>3, Bounds DEF add_used_element, Held, Idx
    <3> QED
      BY <2>6, <1>1, <1>2, <3>1 DEF add_used_element
  <2>7. CASE add_used_index
    BY SMTT(40), ZenonT(40), <2>7 DEF add_used_index
  <2>8. CASE Notify
    <3>1. 0 \in Idx /\ 0 \in 0 .. MaxBatch
      BY Bounds DEF Idx
    <3> QED
      BY <2>8, <3>1 DEF Notify
  <2>9. CASE enable_notification
    BY <2>9 DEF enable_notification
  <2>10. CASE recheck
    BY <2>10 DEF recheck
  <2> QED
    BY <1>5, <2>1, <2>2, <2>3, <2>4, <2>5, <2>6, <2>7, <2>8, <2>9, <2>10 DEF Worker
<1>6. ASSUME NEW h \in Heads, Submit(h) PROVE TypeOK'
  BY <1>6, <1>1, <1>2 DEF Submit, device, queue, worker
<1>7. CASE DecideKick
  BY SMTT(40), ZenonT(40), <1>7 DEF DecideKick, guest, device, queue, worker
<1>8. CASE QueueNotify
  BY SMTT(40), ZenonT(40), <1>8 DEF QueueNotify, guest, device, queue, worker
<1>9. CASE Handler
  <2> USE DEF guest, device, queue, worker
  <2>1. CASE TakeInterrupt
    BY <2>1 DEF TakeInterrupt
  <2>2. CASE Reap
    BY <2>2, <1>1, <1>2 DEF Reap
  <2>3. CASE Rearm
    BY SMTT(40), ZenonT(40), <2>3 DEF Rearm
  <2>4. CASE LookAgain
    BY <2>4 DEF LookAgain
  <2> QED
    BY <1>9, <2>1, <2>2, <2>3, <2>4 DEF Handler
<1> QED
  BY <1>4, <1>5, <1>6, <1>7, <1>8, <1>9 DEF Next

-----------------------------------------------------------------------------
(* What the steps do to the sequences. *)

\* Steps that touch neither ring nor the worker's chain change no sequence.
LEMMA SameSent ==
  ASSUME UNCHANGED <<avail_idx, avail_ring, next_avail, head>>, (pc = "process") = (pc' = "process")
  PROVE  Sent' = Sent /\ len' = len /\ Held' = Held
BY DEF Sent, InFlight, Waiting, len, Held

\* What was returned depends on the used ring and two indices only.
LEMMA SameReturned ==
  ASSUME UNCHANGED <<used_ring, next_used, last_used>>
  PROVE  Returned' = Returned /\ Back' = Back
BY DEF Returned, Back

\* A ring has a free slot for a chain that is not in it.
LEMMA RoomLemma ==
  ASSUME TypeOK, Counts
  PROVE  /\ len \in Nat /\ Back \in Nat /\ Held \in Nat
         /\ Held + len + Back <= Size
         /\ free # {} => Held + len + Back < Size
<1>1. len \in Nat /\ Back \in Nat /\ Held \in Nat
  BY IndexTypes DEF Idx, Held
<1>2. Cardinality(free) \in Nat /\ Cardinality(leaked) \in Nat
  <2>1. 0 \in Heads
    BY Bounds DEF Heads, Slots
  <2> QED
    BY <2>1, CardLemma DEF TypeOK
<1>3. free # {} => Cardinality(free) > 0
  BY CardLemma DEF TypeOK
<1> QED
  BY <1>1, <1>2, <1>3, Bounds DEF Counts

\* Submit puts the chain behind the ones that wait and overwrites none of them.
LEMMA SubmitLemma ==
  ASSUME TypeOK, Counts, NEW h \in Heads, Submit(h)
  PROVE  /\ Sent' = Append(Sent, h) /\ len' = len + 1 /\ Held' = Held
         /\ Returned' = Returned /\ Back' = Back
<1>1. /\ next_avail' = next_avail /\ pc' = pc /\ head' = head
      /\ UNCHANGED <<used_ring, next_used, last_used>>
      /\ h \in free /\ avail_idx' = Add(avail_idx, 1)
      /\ avail_ring' = [avail_ring EXCEPT ![avail_idx % Size] = h]
  BY SMTT(40), ZenonT(40) DEF Submit, device, queue, worker
<1>2. Returned' = Returned /\ Back' = Back
  BY <1>1, SameReturned
<1>3. Held' = Held /\ InFlight' = InFlight
  BY <1>1 DEF Held, InFlight
<1>4. len \in 0 .. Size - 1 /\ next_avail \in Idx /\ avail_idx \in Idx
  BY <1>1, RoomLemma, IndexTypes, Bounds
<1>5. len' = len + 1 /\ Add(next_avail, len) = avail_idx
  BY <1>1, <1>4, WindowLemma, Bounds DEF len
<1>6. avail_ring \in [Slots -> Heads] /\ Shape
  BY ShapeLemma DEF TypeOK
<1>7. /\ Waiting = Window(avail_ring, next_avail, len)
      /\ Waiting' = Window(avail_ring', next_avail, len + 1)
  BY SMTT(40), ZenonT(40), <1>1, <1>5 DEF Waiting, Window
<1>8. Waiting' = Append(Waiting, h)
  BY <1>1, <1>4, <1>5, <1>6, <1>7, PutLemma
<1> QED
  BY SMTT(40), ZenonT(40), <1>2, <1>3, <1>5, <1>6, <1>8, AppendLemma DEF Shape, Sent

\* pop takes the oldest chain that waits into the worker's hands.
LEMMA PopLemma ==
  ASSUME TypeOK, pop
  PROVE  /\ Sent' = Sent /\ len' = len - 1 /\ Held = 0 /\ Held' = 1
         /\ Returned' = Returned /\ Back' = Back
<1>1. /\ UNCHANGED <<avail_idx, avail_ring, used_ring, next_used, last_used>>
      /\ pc = "pop" /\ pc' = "process" /\ len # 0 /\ next_avail' = Add(next_avail, 1)
      /\ head' = avail_ring[next_avail % Size]
  BY SMTT(40), ZenonT(40) DEF pop, guest, device, driver
<1>2. Returned' = Returned /\ Back' = Back
  BY <1>1, SameReturned
<1>3. Held = 0 /\ Held' = 1 /\ InFlight = <<>> /\ InFlight' = <<head'>>
  BY <1>1 DEF Held, InFlight
<1>4. len \in Idx /\ len > 0 /\ next_avail \in Idx /\ avail_idx \in Idx
  BY SMTT(40), ZenonT(40), <1>1, IndexTypes, Bounds DEF Idx
<1>5. len' = len - 1
  BY <1>1, <1>4, WindowLemma DEF len
<1>6. avail_ring \in [Slots -> Heads] /\ Shape
  BY ShapeLemma DEF TypeOK
<1>7. /\ Waiting = Window(avail_ring, next_avail, len)
      /\ Waiting' = Window(avail_ring, Add(next_avail, 1), len - 1)
  BY <1>1, <1>5 DEF Waiting, Window
<1>8. Waiting # <<>> /\ head' = Head(Waiting) /\ Waiting' = Tail(Waiting)
  BY <1>1, <1>4, <1>6, <1>7, TakeLemma
<1>9. Sent = Waiting
  BY <1>3, <1>6, EmptyLemma DEF Shape, Sent
<1>10. Sent' = <<Head(Waiting)>> \o Tail(Waiting)
  BY <1>3, <1>8 DEF Sent
<1> QED
  BY <1>2, <1>3, <1>5, <1>6, <1>8, <1>9, <1>10, HeadTailLemma DEF Shape

\* When the worker is done with its chain the oldest one has left.
LEMMA DoneLemma ==
  ASSUME TypeOK, pc = "process", pc' # "process", UNCHANGED <<avail_idx, avail_ring, next_avail>>
  PROVE  /\ Sent # <<>> /\ Head(Sent) = head /\ Sent' = Tail(Sent)
         /\ len' = len /\ Held = 1 /\ Held' = 0
<1>1. len' = len /\ Waiting' = Waiting
  BY SMTT(40), ZenonT(40) DEF len, Waiting
<1>2. Held = 1 /\ Held' = 0 /\ InFlight = <<head>> /\ InFlight' = <<>>
  BY DEF Held, InFlight
<1>3. head \in Heads /\ Waiting \in Seq(Heads)
  BY ShapeLemma DEF TypeOK, Shape
<1>4. Sent = <<head>> \o Waiting /\ Sent' = Waiting
  BY <1>1, <1>2, <1>3, EmptyLemma DEF Sent
<1> QED
  BY <1>1, <1>2, <1>3, <1>4, ConsLemma

\* add_used_element puts the chain behind those on their way back.
LEMMA ElementLemma ==
  ASSUME TypeOK, Counts, add_used_element
  PROVE  Returned' = Append(Returned, head) /\ Back' = Back + 1
<1>1. /\ pc = "process" /\ next_used' = Add(next_used, 1) /\ last_used' = last_used
      /\ used_ring' = [used_ring EXCEPT ![next_used % Size] = head]
  BY DEF add_used_element, driver
<1>2. Back \in 0 .. Size - 1 /\ next_used \in Idx /\ last_used \in Idx
  BY <1>1, RoomLemma, IndexTypes, Bounds DEF Held
<1>3. Back' = Back + 1 /\ Add(last_used, Back) = next_used
  BY <1>1, <1>2, WindowLemma, Bounds DEF Back
<1>4. used_ring \in [Slots -> Heads] /\ head \in Heads
  BY SMTT(40), ZenonT(40) DEF TypeOK
<1>5. /\ Returned = Window(used_ring, last_used, Back)
      /\ Returned' = Window(used_ring', last_used, Back + 1)
  BY <1>1, <1>3 DEF Returned, Window, Back
<1> QED
  BY <1>1, <1>2, <1>3, <1>4, <1>5, PutLemma

\* Reap takes the oldest chain on its way back.
LEMMA ReapLemma ==
  ASSUME TypeOK, Counts, Reap
  PROVE  /\ Returned # <<>> /\ Returned' = Tail(Returned) /\ Back > 0 /\ Back' = Back - 1
         /\ free' = free \union {Head(Returned)}
<1>1. /\ next_used' = next_used /\ used_ring' = used_ring /\ last_used' = Add(last_used, 1)
      /\ last_used # used_idx /\ free' = free \union {used_ring[last_used % Size]}
  BY SMTT(40), ZenonT(40) DEF Reap, device, queue
<1>2. Back \in Idx /\ next_used \in Idx /\ last_used \in Idx /\ used_ring \in [Slots -> Heads]
  BY IndexTypes DEF TypeOK
<1>3. Back > 0
  <2>1. CASE pc = "index"
    BY SMTT(40), ZenonT(40), <2>1 DEF Counts
  <2>2. CASE pc # "index"
    BY <2>2, <1>1, <1>2, WindowLemma, Bounds DEF Counts, Back, Idx
  <2> QED
    BY <2>1, <2>2
<1>4. Back' = Back - 1
  BY <1>1, <1>2, <1>3, WindowLemma DEF Back
<1>5. /\ Returned = Window(used_ring, last_used, Back)
      /\ Returned' = Window(used_ring, Add(last_used, 1), Back - 1)
  BY <1>1, <1>4 DEF Returned, Window, Back
<1> QED
  BY <1>1, <1>2, <1>3, <1>4, <1>5, TakeLemma

-----------------------------------------------------------------------------
(* Moving a chain from one place to another leaves each chain in one place. *)

\* The driver makes a chain available: it leaves the free ones.
LEMMA MoveToSent ==
  ASSUME NEW F \in SUBSET Heads, NEW L \in SUBSET Heads, NEW s \in Seq(Heads), NEW r \in Seq(Heads),
         AllApart(F, L, s, r), NEW h \in F
  PROVE  AllApart(F \ {h}, L, Append(s, h), r)
<1>1. /\ Append(s, h) \in Seq(Heads) /\ Len(Append(s, h)) = Len(s) + 1 /\ Len(s) \in Nat
      /\ Append(s, h)[Len(s) + 1] = h /\ \A i \in 1 .. Len(s) : Append(s, h)[i] = s[i]
  BY SMTT(40), ZenonT(40)
<1> DEFINE t == Append(s, h)
<1> HIDE DEF t
<1>2. \A i \in 1 .. Len(t) : (i \in 1 .. Len(s) /\ t[i] = s[i]) \/ (i = Len(s) + 1 /\ t[i] = h)
  BY <1>1 DEF t
<1>3. \A i \in 1 .. Len(s) : i \in 1 .. Len(t) /\ t[i] = s[i]
  BY <1>1 DEF t
<1>4. Len(s) + 1 \in 1 .. Len(t) /\ t[Len(s) + 1] = h
  BY <1>1 DEF t
<1>5. \A i, j \in 1 .. Len(t) : t[i] = t[j] => i = j
  BY <1>2 DEF AllApart
<1>6. \A i \in 1 .. Len(t) : t[i] \notin (F \ {h}) \union L
  BY <1>2 DEF AllApart
<1>7. \A i \in 1 .. Len(t), j \in 1 .. Len(r) : t[i] # r[j]
  BY SMTT(40), ZenonT(40), <1>2 DEF AllApart
<1>8. ASSUME NEW g \in Heads
      PROVE  \/ g \in (F \ {h}) \union L
             \/ \E i \in 1 .. Len(t) : t[i] = g
             \/ \E j \in 1 .. Len(r) : r[j] = g
  BY SMTT(40), ZenonT(40), <1>3, <1>4 DEF AllApart
<1>9. AllApart(F \ {h}, L, t, r)
  BY <1>5, <1>6, <1>7, <1>8 DEF AllApart
<1> QED
  BY <1>9 DEF t

\* The chain at the front of a sequence leaves it.
LEMMA FrontLemma ==
  ASSUME NEW s \in Seq(Heads), s # <<>>
  PROVE  /\ Tail(s) \in Seq(Heads) /\ Len(Tail(s)) = Len(s) - 1 /\ Len(s) \in Nat /\ Len(s) > 0
         /\ Head(s) = s[1] /\ Head(s) \in Heads
         /\ \A i \in 1 .. Len(Tail(s)) : i + 1 \in 1 .. Len(s) /\ Tail(s)[i] = s[i + 1]
         /\ \A i \in 1 .. Len(s) : i = 1 \/ (i - 1 \in 1 .. Len(Tail(s)) /\ Tail(s)[i - 1] = s[i])
BY SMTT(40), ZenonT(40)

\* The device answers the oldest chain.
LEMMA MoveToReturned ==
  ASSUME NEW F \in SUBSET Heads, NEW L \in SUBSET Heads, NEW s \in Seq(Heads), NEW r \in Seq(Heads),
         AllApart(F, L, s, r), s # <<>>
  PROVE  AllApart(F, L, Tail(s), Append(r, Head(s)))
<1> DEFINE h == Head(s)
           u == Tail(s)
           t == Append(r, h)
<1>1. /\ Len(u) = Len(s) - 1 /\ Len(s) \in Nat /\ Len(s) > 0 /\ h = s[1] /\ h \in Heads
      /\ \A i \in 1 .. Len(u) : i + 1 \in 1 .. Len(s) /\ u[i] = s[i + 1]
      /\ \A i \in 1 .. Len(s) : i = 1 \/ (i - 1 \in 1 .. Len(u) /\ u[i - 1] = s[i])
  BY SMTT(40), ZenonT(40), FrontLemma
<1>2. /\ Len(t) = Len(r) + 1 /\ Len(r) \in Nat /\ t[Len(r) + 1] = h
      /\ \A i \in 1 .. Len(r) : t[i] = r[i]
  BY <1>1
<1> HIDE DEF h, u, t
<1>3. \A i \in 1 .. Len(t) : (i \in 1 .. Len(r) /\ t[i] = r[i]) \/ (i = Len(r) + 1 /\ t[i] = h)
  BY <1>2
<1>4. \A i \in 1 .. Len(r) : i \in 1 .. Len(t) /\ t[i] = r[i]
  BY <1>2
<1>5. Len(r) + 1 \in 1 .. Len(t) /\ t[Len(r) + 1] = h
  BY <1>2
<1>6. 1 \in 1 .. Len(s) /\ h = s[1]
  BY <1>1
<1>7. \A i \in 1 .. Len(u) : i + 1 \in 1 .. Len(s) /\ u[i] = s[i + 1] /\ i + 1 # 1
  BY <1>1
<1>8. \A i, j \in 1 .. Len(u) : u[i] = u[j] => i = j
  <2> TAKE i, j \in 1 .. Len(u)
  <2>1. u[i] = u[j] => i + 1 = j + 1
    BY SMTT(40), ZenonT(40), <1>7 DEF AllApart
  <2> QED
    BY <2>1, <1>1
<1>9. \A i, j \in 1 .. Len(t) : t[i] = t[j] => i = j
  BY <1>3, <1>6 DEF AllApart
<1>10. /\ \A i \in 1 .. Len(u) : u[i] \notin F \union L
       /\ \A j \in 1 .. Len(t) : t[j] \notin F \union L
  <2>1. \A i \in 1 .. Len(u) : u[i] \notin F \union L
    BY <1>7 DEF AllApart
  <2>2. \A j \in 1 .. Len(t) : t[j] \notin F \union L
    BY SMTT(40), ZenonT(40), <1>3, <1>6 DEF AllApart
  <2> QED  BY <2>1, <2>2
<1>11. \A i \in 1 .. Len(u), j \in 1 .. Len(t) : u[i] # t[j]
  BY SMTT(40), ZenonT(40), <1>3, <1>6, <1>7 DEF AllApart
<1>12. ASSUME NEW g \in Heads
       PROVE  \/ g \in F \union L
              \/ \E i \in 1 .. Len(u) : u[i] = g
              \/ \E j \in 1 .. Len(t) : t[j] = g
  <2>1. CASE \E i \in 1 .. Len(s) : s[i] = g
    BY <2>1, <1>1, <1>5
  <2>2. CASE \E j \in 1 .. Len(r) : r[j] = g
    BY <2>2, <1>4
  <2> QED
    BY <2>1, <2>2 DEF AllApart
<1>13. AllApart(F, L, u, t)
  BY <1>8, <1>9, <1>10, <1>11, <1>12 DEF AllApart
<1> QED
  BY <1>13 DEF h, u, t

\* The device passes over a chain it cannot read (next_avail moves on, nothing is returned).
LEMMA MoveToLeaked ==
  ASSUME NEW F \in SUBSET Heads, NEW L \in SUBSET Heads, NEW s \in Seq(Heads), NEW r \in Seq(Heads),
         AllApart(F, L, s, r), s # <<>>
  PROVE  AllApart(F, L \union {Head(s)}, Tail(s), r) /\ Head(s) \notin L
<1> DEFINE h == Head(s)
           u == Tail(s)
<1>1. /\ Len(u) = Len(s) - 1 /\ Len(s) \in Nat /\ Len(s) > 0 /\ h = s[1] /\ h \in Heads
      /\ \A i \in 1 .. Len(u) : i + 1 \in 1 .. Len(s) /\ u[i] = s[i + 1]
      /\ \A i \in 1 .. Len(s) : i = 1 \/ (i - 1 \in 1 .. Len(u) /\ u[i - 1] = s[i])
  BY FrontLemma
<1> HIDE DEF h, u
<1>2. 1 \in 1 .. Len(s) /\ h = s[1]
  BY <1>1
<1>3. \A i \in 1 .. Len(u) : i + 1 \in 1 .. Len(s) /\ u[i] = s[i + 1] /\ i + 1 # 1
  BY <1>1
<1>4. \A i, j \in 1 .. Len(u) : u[i] = u[j] => i = j
  <2> TAKE i, j \in 1 .. Len(u)
  <2>1. u[i] = u[j] => i + 1 = j + 1
    BY <1>3 DEF AllApart
  <2> QED
    BY <2>1, <1>1
<1>5. \A i \in 1 .. Len(u) : u[i] \notin F \union (L \union {h})
  BY <1>2, <1>3 DEF AllApart
<1>6. \A j \in 1 .. Len(r) : r[j] \notin F \union (L \union {h})
  BY <1>2 DEF AllApart
<1>7. \A i \in 1 .. Len(u), j \in 1 .. Len(r) : u[i] # r[j]
  BY <1>3 DEF AllApart
<1>8. F \intersect (L \union {h}) = {} /\ h \notin L
  BY <1>2 DEF AllApart
<1>9. ASSUME NEW g \in Heads
      PROVE  \/ g \in F \union (L \union {h})
             \/ \E i \in 1 .. Len(u) : u[i] = g
             \/ \E j \in 1 .. Len(r) : r[j] = g
  <2>1. CASE \E i \in 1 .. Len(s) : s[i] = g
    BY SMTT(40), ZenonT(40), <2>1, <1>1
  <2> QED
    BY <2>1 DEF AllApart
<1>10. AllApart(F, L \union {h}, u, r)
  BY <1>4, <1>5, <1>6, <1>7, <1>8, <1>9 DEF AllApart
<1> QED
  BY <1>8, <1>10 DEF h, u

\* The two sequences, and the two sets, play the same part.
LEMMA Mirror ==
  ASSUME NEW F, NEW L, NEW s, NEW r, AllApart(F, L, s, r)
  PROVE  AllApart(L, F, r, s)
BY SMTT(40), ZenonT(40) DEF AllApart

\* The driver takes back the oldest answer.
LEMMA MoveToFree ==
  ASSUME NEW F \in SUBSET Heads, NEW L \in SUBSET Heads, NEW s \in Seq(Heads), NEW r \in Seq(Heads),
         AllApart(F, L, s, r), r # <<>>
  PROVE  AllApart(F \union {Head(r)}, L, s, Tail(r)) /\ Head(r) \notin F
BY Mirror, MoveToLeaked

-----------------------------------------------------------------------------
(* Every step moves one chain to its next place, or none. *)

ToSent(h) ==
  /\ h \in free /\ free' = free \ {h}
  /\ Sent' = Append(Sent, h) /\ UNCHANGED <<Returned, leaked>>

ToReturned ==
  /\ Sent # <<>> /\ Sent' = Tail(Sent)
  /\ Returned' = Append(Returned, Head(Sent)) /\ UNCHANGED <<free, leaked>>

ToLeaked ==
  /\ Sent # <<>> /\ Sent' = Tail(Sent) /\ Head(Sent) \in BadHeads
  /\ leaked' = leaked \union {Head(Sent)} /\ UNCHANGED <<Returned, free>>

ToFree ==
  /\ Returned # <<>> /\ Returned' = Tail(Returned)
  /\ free' = free \union {Head(Returned)} /\ UNCHANGED <<Sent, leaked>>

Move ==
  \/ \E h \in Heads : ToSent(h)
  \/ ToReturned \/ ToLeaked \/ ToFree
  \/ UNCHANGED <<Sent, Returned, free, leaked>>

\* Seen from outside, a step moves at most one chain, from one place to the next.
LEMMA MoveLemma ==
  ASSUME TypeOK, Counts, [Next]_vars
  PROVE  Move
<1>1. CASE UNCHANGED vars
  <2>1. UNCHANGED <<avail_idx, avail_ring, next_avail, head, pc, used_ring, next_used, last_used, free, leaked>>
    BY <1>1 DEF vars, guest, device, queue, worker, driver
  <2> QED
    BY <2>1, SameSent, SameReturned DEF Move
<1>2. CASE Wait \/ disable_notification \/ pop_none \/ add_used_index \/ Notify
           \/ enable_notification \/ recheck \/ DecideKick \/ QueueNotify
           \/ TakeInterrupt \/ Rearm \/ LookAgain
  <2>1. /\ UNCHANGED <<avail_idx, avail_ring, next_avail, head, used_ring, next_used, last_used, free, leaked>>
        /\ (pc = "process") = (pc' = "process")
    BY ZenonT(40), SMTT(40), <1>2 DEF Wait, disable_notification, pop_none, add_used_index, Notify, enable_notification,
                recheck, DecideKick, QueueNotify, TakeInterrupt, Rearm, LookAgain,
                guest, device, queue, worker, driver
  <2> QED
    BY <2>1, SameSent, SameReturned DEF Move
<1>3. CASE pop
  <2>1. UNCHANGED <<free, leaked>>
    BY <1>3 DEF pop, driver
  <2> QED
    BY <1>3, <2>1, PopLemma DEF Move
<1>4. CASE SkipChain
  <2>1. /\ pc = "process" /\ pc' # "process" /\ head \in BadHeads /\ leaked' = leaked \union {head}
        /\ UNCHANGED <<avail_idx, avail_ring, next_avail, used_ring, next_used, last_used, free>>
    BY <1>4 DEF SkipChain, guest, device, queue, driver
  <2> QED
    BY <2>1, DoneLemma, SameReturned DEF Move, ToLeaked
<1>5. CASE add_used_element
  <2>1. /\ pc = "process" /\ pc' # "process"
        /\ UNCHANGED <<avail_idx, avail_ring, next_avail, free, leaked>>
    BY <1>5 DEF add_used_element, guest, driver
  <2> QED
    BY <1>5, <2>1, DoneLemma, ElementLemma DEF Move, ToReturned
<1>6. ASSUME NEW h \in Heads, Submit(h) PROVE Move
  <2>1. h \in free /\ free' = free \ {h} /\ leaked' = leaked
    BY <1>6 DEF Submit
  <2> QED
    BY <1>6, <2>1, SubmitLemma DEF Move, ToSent
<1>7. CASE Reap
  <2>1. /\ UNCHANGED <<avail_idx, avail_ring, next_avail, head, pc, leaked>>
    BY <1>7 DEF Reap, guest, queue, worker
  <2> QED
    BY <1>7, <2>1, ReapLemma, SameSent DEF Move, ToFree
<1> QED
  BY <1>1, <1>2, <1>3, <1>4, <1>5, <1>6, <1>7 DEF Next, Worker, Handler

\* Such a move keeps every chain in one place.
LEMMA PlacesLemma ==
  ASSUME TypeOK, Places, Move
  PROVE  Places'
<1>1. Sent \in Seq(Heads) /\ Returned \in Seq(Heads) /\ free \in SUBSET Heads /\ leaked \in SUBSET Heads
  BY ShapeLemma DEF Shape, TypeOK
<1>2. AllApart(free, leaked, Sent, Returned)
  BY DEF Places
<1> SUFFICES AllApart(free', leaked', Sent', Returned')
  BY DEF Places
<1>3. ASSUME NEW h \in Heads, ToSent(h) PROVE AllApart(free', leaked', Sent', Returned')
  BY <1>1, <1>2, <1>3, MoveToSent DEF ToSent
<1>4. CASE ToReturned
  BY <1>1, <1>2, <1>4, MoveToReturned DEF ToReturned
<1>5. CASE ToLeaked
  BY <1>1, <1>2, <1>5, MoveToLeaked DEF ToLeaked
<1>6. CASE ToFree
  BY <1>1, <1>2, <1>6, MoveToFree DEF ToFree
<1> QED
  BY <1>2, <1>3, <1>4, <1>5, <1>6 DEF Move
=============================================================================
