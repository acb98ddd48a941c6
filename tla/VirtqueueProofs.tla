--------------------------- MODULE VirtqueueProofs --------------------------
(***************************************************************************)
(* Proofs about the virtqueue, for every index width, queue size, set of   *)
(* chains that may be rejected and number of chains in a drain.            *)
(***************************************************************************)
EXTENDS VirtqueueLemmas

\* A sleeping worker has asked to be notified, and what it has not seen was made
\* available since the driver's last decision.
Kicks ==
  /\ drv # "added" => kick_from = avail_idx
  /\ pc \in {"wait", "recheck"} => IF event_idx_enabled THEN avail_event = next_avail
                                                       ELSE used_flags = 0
  /\ pc = "wait" /\ ~queue_evt /\ drv # "kick" => len <= Fresh

\* Outside a drain nothing awaits a decision to interrupt.
Phases ==
  /\ pc \in {"wait", "disable", "enable", "recheck"} => batch = 0
  /\ pc \in {"pop", "process"} /\ ~used_any => batch = 0
  /\ pc = "index" => batch > 0
  /\ event_idx_enabled => suppresses /\ num_added = batch % Wrap

\* A handler that does not run has asked to be interrupted, and what it has not
\* taken back was returned since the worker's last decision.
Signals ==
  /\ isr # "reap" => used_event = last_used
  /\ ~irq /\ isr = "idle" => Back <= batch

IInv == TypeOK /\ Counts /\ Places /\ Kicks /\ Phases

-----------------------------------------------------------------------------
(* The invariant is inductive. *)

\* As many chains as there are: what one place loses another gets.
LEMMA BalanceLemma ==
  ASSUME TypeOK, TypeOK', Counts, Places, Move
  PROVE  Cardinality(free') + Cardinality(leaked') + len' + Held' + Back' = Size
<1>1. Shape /\ Shape'
  BY ShapeLemma, PTL
<1>2. Sent \in Seq(Heads) /\ Returned \in Seq(Heads) /\ free \in SUBSET Heads /\ leaked \in SUBSET Heads
  BY <1>1 DEF Shape, TypeOK
<1>3. AllApart(free, leaked, Sent, Returned)
  BY DEF Places
<1>4. 0 \in Heads /\ Size \in Nat
  BY Bounds DEF Heads, Slots
<1>5. Cardinality(free) \in Nat /\ Cardinality(leaked) \in Nat /\ Len(Sent) \in Nat /\ Len(Returned) \in Nat
  <2>1. Cardinality(free) \in Nat /\ Cardinality(leaked) \in Nat
    BY <1>2, <1>4, CardLemma
  <2>2. Len(Sent) \in Nat /\ Len(Returned) \in Nat
    BY <1>2
  <2> QED
    BY <2>1, <2>2
<1>6. Cardinality(free) + Cardinality(leaked) + Len(Sent) + Len(Returned) = Size
  <2>1. Len(Sent) = Held + len /\ Len(Returned) = Back /\ Held \in Nat /\ len \in Nat /\ Back \in Nat
    BY <1>1 DEF Shape
  <2>2. Cardinality(free) + Cardinality(leaked) + len + Held + Back = Size
    BY DEF Counts
  <2> QED
    BY <1>4, <1>5, <2>1, <2>2
<1>7. Cardinality(free') + Cardinality(leaked') + Len(Sent') + Len(Returned') = Size
  <2>1. ASSUME NEW h \in Heads, ToSent(h)
        PROVE  Cardinality(free') + Cardinality(leaked') + Len(Sent') + Len(Returned') = Size
    <3>1. Cardinality(free \ {h}) = Cardinality(free) - 1
      BY <2>1, <1>2, CardLemma DEF ToSent
    <3>2. Len(Append(Sent, h)) = Len(Sent) + 1
      BY <1>2
    <3> QED
      BY SMTT(40), ZenonT(40), <3>1, <3>2, <2>1, <1>6, <1>4, <1>5 DEF ToSent
  <2>2. CASE ToReturned
    <3>1. Len(Tail(Sent)) = Len(Sent) - 1 /\ Len(Append(Returned, Head(Sent))) = Len(Returned) + 1
      <4>1. Len(Tail(Sent)) = Len(Sent) - 1 /\ Head(Sent) \in Heads
        BY <2>2, <1>2, FrontLemma DEF ToReturned
      <4> QED
        BY <1>2, <4>1
    <3>2. /\ Sent' = Tail(Sent) /\ Returned' = Append(Returned, Head(Sent))
          /\ free' = free /\ leaked' = leaked
      BY <2>2 DEF ToReturned
    <3>3. Len(Sent') = Len(Sent) - 1 /\ Len(Returned') = Len(Returned) + 1
      BY <3>1, <3>2
    <3> QED
      BY <3>2, <3>3, <1>6, <1>4, <1>5
  <2>3. CASE ToLeaked
    <3>1. Len(Tail(Sent)) = Len(Sent) - 1 /\ Head(Sent) \in Heads /\ Head(Sent) \notin leaked
      BY <2>3, <1>2, <1>3, FrontLemma, MoveToLeaked DEF ToLeaked
    <3>2. Cardinality(leaked \union {Head(Sent)}) = Cardinality(leaked) + 1
      BY <3>1, <1>2, CardLemma
    <3> QED
      BY <3>1, <3>2, <2>3, <1>6, <1>4, <1>5 DEF ToLeaked
  <2>4. CASE ToFree
    <3>1. Len(Tail(Returned)) = Len(Returned) - 1 /\ Head(Returned) \in Heads /\ Head(Returned) \notin free
      BY <2>4, <1>2, <1>3, FrontLemma, MoveToFree DEF ToFree
    <3>2. Cardinality(free \union {Head(Returned)}) = Cardinality(free) + 1
      BY <3>1, <1>2, CardLemma
    <3> QED
      BY <3>1, <3>2, <2>4, <1>6, <1>4, <1>5 DEF ToFree
  <2> QED
    BY <2>1, <2>2, <2>3, <2>4, <1>6 DEF Move
<1>8. Len(Sent') = Held' + len' /\ Len(Returned') = Back' /\ Held' \in Nat /\ len' \in Nat /\ Back' \in Nat
  BY <1>1 DEF Shape
<1>9. Cardinality(free') \in Nat /\ Cardinality(leaked') \in Nat
  BY ZenonT(40), SMTT(40), <1>4, CardLemma DEF TypeOK
<1> QED
  BY <1>4, <1>7, <1>8, <1>9

\* The indices keep counting what is in the rings.
LEMMA CountsLemma ==
  ASSUME TypeOK, TypeOK', Counts, Places, Move, [Next]_vars
  PROVE  Counts'
<1>1. /\ used_idx \in Idx /\ next_used \in Idx /\ last_used \in Idx
      /\ len \in Nat /\ Back \in Nat /\ Held \in Nat /\ batch \in Nat /\ MaxBatch \in Nat /\ Wrap \in Nat
  BY IndexTypes, RoomLemma, Bounds DEF TypeOK
<1>2. /\ next_used = IF pc = "index" THEN Add(used_idx, 1) ELSE used_idx
      /\ pc = "index" => Back > 0
      /\ batch + len + Held <= MaxBatch
  BY SMTT(40), ZenonT(40) DEF Counts
<1> DEFINE Rest ==
      /\ next_used = IF pc = "index" THEN Add(used_idx, 1) ELSE used_idx
      /\ pc = "index" => Back > 0
      /\ batch + len + Held <= MaxBatch
<1> SUFFICES Rest'
  BY BalanceLemma DEF Counts
<1>3. CASE UNCHANGED vars
  <2>1. UNCHANGED <<avail_idx, next_avail, pc, used_idx, next_used, last_used, batch>>
    BY <1>3 DEF vars, guest, device, queue, worker, driver
  <2> QED
    BY <2>1, <1>2 DEF len, Held, Back
<1>4. CASE Wait \/ disable_notification \/ pop_none \/ enable_notification \/ recheck
  <2>1. /\ UNCHANGED <<avail_idx, next_avail, used_idx, next_used, last_used, batch>>
        /\ pc # "process" /\ pc' # "process" /\ pc # "index" /\ pc' # "index"
    BY <1>4 DEF Wait, disable_notification, pop_none, enable_notification, recheck,
                guest, device, queue, driver
  <2> QED
    BY SMTT(40), ZenonT(40), <2>1, <1>2 DEF len, Held, Back
<1>5. CASE DecideKick \/ QueueNotify \/ TakeInterrupt \/ Rearm \/ LookAgain
  <2>1. UNCHANGED <<avail_idx, next_avail, used_idx, next_used, last_used, batch, pc>>
    BY <1>5 DEF DecideKick, QueueNotify, TakeInterrupt, Rearm, LookAgain, guest, device, queue, worker
  <2> QED
    BY SMTT(40), ZenonT(40), <2>1, <1>2 DEF len, Held, Back
<1>6. CASE pop
  <2>1. pc = "pop" /\ pc' = "process" /\ UNCHANGED <<used_idx, next_used, batch>>
    BY <1>6 DEF pop, device
  <2>2. len' = len - 1 /\ Held = 0 /\ Held' = 1
    BY <1>6, PopLemma
  <2> QED
    BY <2>1, <2>2, <1>1, <1>2
<1>7. CASE SkipChain
  <2>1. /\ pc = "process" /\ pc' = "pop" /\ UNCHANGED <<used_idx, next_used, batch>>
        /\ UNCHANGED <<avail_idx, avail_ring, next_avail>>
    BY <1>7 DEF SkipChain, guest, device, queue
  <2>2. len' = len /\ Held = 1 /\ Held' = 0
    BY <2>1, DoneLemma
  <2> QED
    BY <2>1, <2>2, <1>1, <1>2
<1>8. CASE add_used_element
  <2>1. /\ pc = "process" /\ pc' = "index" /\ used_idx' = used_idx
        /\ next_used' = Add(next_used, 1) /\ batch' = batch + 1
        /\ UNCHANGED <<avail_idx, avail_ring, next_avail>>
    BY <1>8 DEF add_used_element, guest
  <2>2. len' = len /\ Held = 1 /\ Held' = 0
    BY <2>1, DoneLemma
  <2>3. Back' = Back + 1
    BY <1>8, ElementLemma
  <2> QED
    BY <2>1, <2>2, <2>3, <1>1, <1>2
<1>9. CASE add_used_index
  <2>1. /\ pc = "index" /\ pc' = "pop" /\ used_idx' = next_used
        /\ UNCHANGED <<next_used, batch, avail_idx, next_avail>>
    BY <1>9 DEF add_used_index, guest, queue
  <2>2. len' = len /\ Held = 0 /\ Held' = 0
    BY <2>1 DEF len, Held
  <2> QED
    BY <2>1, <2>2, <1>1, <1>2
<1>10. CASE Notify
  <2>1. /\ pc = "notify" /\ pc' = "enable" /\ batch' = 0
        /\ UNCHANGED <<used_idx, next_used, avail_idx, next_avail>>
    BY <1>10 DEF Notify, guest, device
  <2>2. len' = len /\ Held = 0 /\ Held' = 0
    BY <2>1 DEF len, Held
  <2> QED
    BY <2>1, <2>2, <1>1, <1>2
<1>11. ASSUME NEW h \in Heads, Submit(h) PROVE Rest'
  <2>1. UNCHANGED <<used_idx, next_used, batch, pc>> /\ batch + len + Held < MaxBatch
    BY <1>11 DEF Submit, device, queue, worker, Held
  <2>2. len' = len + 1 /\ Held' = Held /\ Back' = Back
    BY <1>11, SubmitLemma
  <2> QED
    BY <2>1, <2>2, <1>1, <1>2
<1>12. CASE Reap
  <2>1. UNCHANGED <<used_idx, next_used, batch, pc, avail_idx, next_avail>> /\ last_used # used_idx
    BY <1>12 DEF Reap, guest, device, queue, worker
  <2>2. len' = len /\ Held' = Held
    BY <2>1 DEF len, Held
  <2>3. Back' = Back - 1
    BY <1>12, ReapLemma
  \* The element that waits for its index is not the one that was taken.
  <2>4. pc = "index" => Back > 1
    <3> SUFFICES ASSUME pc = "index" PROVE Back > 1
      BY SMTT(40), ZenonT(40)
    <3>1. Back = Sub(Add(used_idx, 1), last_used) /\ Back > 0
      BY <1>2 DEF Back
    <3>2. Sub(used_idx, last_used) \in Idx /\ Sub(used_idx, last_used) # 0
      BY <1>1, <2>1, SubLemma, WindowLemma
    <3>3. CASE Sub(used_idx, last_used) < Wrap - 1
      <4>1. Back = Sub(used_idx, last_used) + 1
        BY <3>1, <3>3, <1>1, WindowLemma
      <4> QED
        BY <4>1, <3>2, <1>1 DEF Idx
    <3>4. CASE Sub(used_idx, last_used) = Wrap - 1
      <4>1. /\ 1 \in Idx /\ Add(used_idx, 1) \in Idx
            /\ Add(used_idx, 1) = IF used_idx + 1 < Wrap THEN used_idx + 1 ELSE used_idx + 1 - Wrap
            /\ Sub(used_idx, last_used) = IF last_used <= used_idx THEN used_idx - last_used
                                                                   ELSE used_idx - last_used + Wrap
        BY <1>1, AddLemma, SubLemma, WindowLemma
      <4>2. Add(used_idx, 1) = last_used
        BY <4>1, <3>4, <1>1, Bounds DEF Idx
      <4> QED
        BY <4>1, <4>2, <3>1, <1>1, WindowLemma
    <3> QED
      BY <3>2, <3>3, <3>4, <1>1 DEF Idx
  <2> QED
    BY <2>1, <2>2, <2>3, <2>4, <1>1, <1>2
<1> QED
  BY <1>3, <1>4, <1>5, <1>6, <1>7, <1>8, <1>9, <1>10, <1>11, <1>12 DEF Next, Worker, Handler

-----------------------------------------------------------------------------
(* Notifications. *)

\* The driver's decision: a window that is not empty and holds no more than was made
\* available since the last one holds the index the device asked for.
LEMMA WantedLemma ==
  ASSUME NEW event \in Idx, NEW new \in Idx, NEW old \in Idx,
         Sub(new, event) # 0, Sub(new, event) <= Sub(new, old)
  PROVE  NeedEvent(event, new, old)
<1>1. Sub(new, event) \in Idx /\ Sub(new, old) \in Idx /\ 1 \in Idx
  BY SubLemma, WindowLemma
<1>2. Sub(Sub(new, event), 1) = Sub(new, event) - 1
  BY <1>1, SubLemma, Bounds DEF Idx
<1> QED
  BY <1>1, <1>2, Bounds DEF NeedEvent, Idx

\* A chain nobody looked at keeps its kick to come.
LEMMA KicksLemma ==
  ASSUME TypeOK, TypeOK', Counts, Kicks, [Next]_vars
  PROVE  Kicks'
<1>1. /\ avail_idx \in Idx /\ next_avail \in Idx /\ kick_from \in Idx /\ avail_event \in Idx
      /\ len \in Idx /\ Fresh \in Idx /\ len' \in Idx /\ Fresh' \in Idx
  <2>1. Distances'
    BY DistanceTypes, PTL
  <2> QED
    BY <2>1, IndexTypes DEF Distances
<1>2. CASE UNCHANGED vars
  BY <1>2 DEF Kicks, vars, guest, device, queue, worker, driver, len, Fresh
<1>3. CASE Wait \/ disable_notification \/ pop \/ pop_none \/ SkipChain \/ add_used_element
           \/ add_used_index \/ Notify
  <2>1. pc' \notin {"wait", "recheck"} /\ UNCHANGED <<avail_idx, drv, kick_from>>
    BY <1>3 DEF Wait, disable_notification, pop, pop_none, SkipChain, add_used_element,
                add_used_index, Notify, guest, driver
  <2> QED
    BY SMTT(40), ZenonT(40), <2>1 DEF Kicks
<1>4. CASE enable_notification
  <2>1. /\ pc' = "recheck" /\ UNCHANGED <<avail_idx, drv, kick_from, event_idx_enabled, next_avail>>
        /\ IF event_idx_enabled THEN avail_event' = next_avail ELSE used_flags' = 0
    BY <1>4 DEF enable_notification, guest, queue, driver
  <2> QED
    BY <2>1 DEF Kicks
<1>5. CASE recheck
  <2>1. /\ pc = "recheck" /\ (pc' = "wait" => avail_idx = next_avail)
        /\ UNCHANGED <<avail_idx, drv, kick_from, event_idx_enabled, next_avail, avail_event, used_flags>>
    BY <1>5 DEF recheck, guest, device, queue, driver
  <2>2. pc' = "wait" => len' = 0
    BY <2>1, <1>1, WindowLemma DEF len
  <2>3. pc' = "wait" => len' <= Fresh'
    BY <2>2, <1>1, Bounds DEF Idx
  <2> QED
    BY <2>1, <2>3 DEF Kicks
<1>6. ASSUME NEW h \in Heads, Submit(h) PROVE Kicks'
  <2>1. /\ drv \in {"idle", "added"} /\ drv' = "added" /\ avail_idx' = Add(avail_idx, 1) /\ Fresh < Wrap - 1
        /\ UNCHANGED <<kick_from, event_idx_enabled, next_avail, avail_event, used_flags, pc, queue_evt>>
    BY <1>6 DEF Submit, device, queue, worker, Fresh
  <2>2. len' = len + 1
    BY <1>6, SubmitLemma
  <2>3. Fresh' = Fresh + 1
    BY <2>1, <1>1, WindowLemma DEF Fresh
  <2>4. len <= Fresh => len' <= Fresh'
    BY <2>2, <2>3, <1>1, Bounds DEF Idx
  <2> QED
    BY <2>1, <2>4 DEF Kicks
<1>7. CASE DecideKick
  <2>1. /\ drv = "added" /\ kick_from' = avail_idx
        /\ drv' = IF (IF event_idx_enabled THEN NeedEvent(avail_event, avail_idx, kick_from)
                                           ELSE used_flags = 0) THEN "kick" ELSE "idle"
        /\ UNCHANGED <<avail_idx, event_idx_enabled, next_avail, avail_event, used_flags, pc, queue_evt>>
    BY SMTT(40), ZenonT(40), <1>7 DEF DecideKick, guest, device, queue, worker
  <2>2. pc' = "wait" /\ ~queue_evt' /\ drv' # "kick" => len = 0
    BY <2>1, <1>1, WantedLemma DEF Kicks, len, Fresh
  <2>3. len' = len
    BY <2>1 DEF len
  <2>4. len = 0 => len' <= Fresh'
    BY <2>3, <1>1, Bounds DEF Idx
  <2> QED
    BY <2>1, <2>2, <2>4 DEF Kicks
<1>8. CASE QueueNotify
  BY <1>8 DEF QueueNotify, Kicks, guest, device, queue, worker
<1>9. CASE Handler
  <2>1. UNCHANGED <<avail_idx, drv, kick_from, event_idx_enabled, next_avail, avail_event, used_flags, pc, queue_evt>>
    BY <1>9 DEF Handler, TakeInterrupt, Reap, Rearm, LookAgain, guest, device, queue, worker
  <2> QED
    BY SMTT(40), ZenonT(40), <2>1 DEF Kicks, len, Fresh
<1> QED
  BY <1>2, <1>3, <1>4, <1>5, <1>6, <1>7, <1>8, <1>9 DEF Next, Worker

\* Quotient and remainder are unique.
LEMMA QuotientLemma ==
  ASSUME NEW m \in Nat \ {0}, NEW x \in Int, NEW q \in Int, NEW r \in 0 .. m - 1, x = (m * q) + r
  PROVE  x % m = r
<1> DEFINE d == x \div m
           e == x % m
<1>1. e \in 0 .. m - 1 /\ x = (m * d) + e /\ d \in Int
  BY RemainderLemma
<1> HIDE DEF d, e
<1>2. q - d \in Int /\ d - q \in Int /\ m * (q - d) = e - r /\ m * (d - q) = r - e
  BY <1>1
<1>3. ~(e - r \in 1 .. m - 1) /\ ~(r - e \in 1 .. m - 1)
  BY <1>2, MultipleLemma
<1>4. e = r
  BY <1>1, <1>3
<1> QED
  BY <1>4 DEF e

\* The u16 value of a counter that grows by one.
LEMMA ModLemma ==
  ASSUME NEW b \in Nat
  PROVE  b % Wrap \in Idx /\ Add(b % Wrap, 1) = (b + 1) % Wrap /\ (b < Wrap => b % Wrap = b)
<1>1. Wrap \in Nat \ {0} /\ Wrap > 1 /\ b % Wrap \in 0 .. Wrap - 1
  BY Bounds
<1>2. b % Wrap \in Idx /\ (b < Wrap => b % Wrap = b)
  BY <1>1 DEF Idx
<1>3. ((b % Wrap) + 1) % Wrap = (b + 1) % Wrap
  <2> DEFINE q == b \div Wrap
             r == b % Wrap
  <2>1. q \in Int /\ r \in 0 .. Wrap - 1 /\ b = (Wrap * q) + r
    BY <1>1, RemainderLemma
  <2> HIDE DEF q, r
  <2>2. CASE r + 1 < Wrap
    <3>1. b + 1 = (Wrap * q) + (r + 1) /\ r + 1 \in 0 .. Wrap - 1
      BY <2>1, <2>2, <1>1
    <3>2. (b + 1) % Wrap = r + 1 /\ (r + 1) % Wrap = r + 1
      BY <3>1, <2>1, <1>1, QuotientLemma
    <3> QED
      BY <3>2 DEF r
  <2>3. CASE r + 1 = Wrap
    <3>1. b + 1 = (Wrap * (q + 1)) + 0 /\ r + 1 = (Wrap * 1) + 0 /\ q + 1 \in Int
      BY <2>1, <2>3, <1>1
    <3>2. (b + 1) % Wrap = 0 /\ (r + 1) % Wrap = 0
      BY <3>1, <2>1, <1>1, QuotientLemma
    <3> QED
      BY <3>2 DEF r
  <2> QED
    BY <2>1, <2>2, <2>3, <1>1
<1> QED
  BY <1>2, <1>3 DEF Add

\* Worker and driver keep what they know about where they are.
LEMMA PhasesLemma ==
  ASSUME TypeOK, Phases, [Next]_vars
  PROVE  Phases'
<1>1. batch \in Nat /\ (0 % Wrap) = 0
  BY Bounds DEF TypeOK
<1>2. CASE UNCHANGED vars
  BY SMTT(40), ZenonT(40), <1>2 DEF Phases, vars, queue, worker
<1>3. CASE Wait \/ disable_notification \/ pop \/ pop_none \/ SkipChain \/ add_used_index
           \/ enable_notification \/ recheck
  BY SMTT(40), ZenonT(40), <1>3 DEF Phases, Wait, disable_notification, pop, pop_none, SkipChain, add_used_index,
              enable_notification, recheck, queue
<1>4. CASE add_used_element
  <2>1. /\ pc' = "index" /\ batch' = batch + 1 /\ num_added' = Add(num_added, 1)
        /\ UNCHANGED <<event_idx_enabled, suppresses>>
    BY <1>4 DEF add_used_element
  <2>2. batch' > 0
    BY <1>1, <2>1
  <2>3. event_idx_enabled => num_added' = (batch + 1) % Wrap
    BY <1>1, <2>1, ModLemma DEF Phases
  <2> QED
    BY <2>1, <2>2, <2>3 DEF Phases
<1>5. CASE Notify
  <2>1. /\ pc' = "enable" /\ batch' = 0 /\ UNCHANGED <<event_idx_enabled, suppresses>>
        /\ num_added' = IF suppresses /\ event_idx_enabled THEN 0 ELSE num_added
    BY <1>5 DEF Notify
  <2> QED
    BY <1>1, <2>1 DEF Phases
<1>6. CASE (\E h \in Heads : Submit(h)) \/ DecideKick \/ QueueNotify \/ Handler
  <2>1. UNCHANGED <<pc, used_any, batch, event_idx_enabled, suppresses, num_added>>
    BY <1>6 DEF Submit, DecideKick, QueueNotify, Handler, TakeInterrupt, Reap, Rearm, LookAgain,
                queue, worker
  <2> QED
    BY SMTT(40), ZenonT(40), <2>1 DEF Phases
<1> QED
  BY <1>2, <1>3, <1>4, <1>5, <1>6 DEF Next, Worker

\* How far back the last decision to interrupt was.
LEMMA BackLemma ==
  ASSUME NEW x \in Idx, NEW b \in Idx
  PROVE  Sub(x, b) \in Idx /\ Sub(x, Sub(x, b)) = b
<1>1. Sub(x, b) \in Idx /\ Sub(x, b) = IF b <= x THEN x - b ELSE x - b + Wrap
  BY SubLemma
<1>2. Sub(x, Sub(x, b)) = IF Sub(x, b) <= x THEN x - Sub(x, b) ELSE x - Sub(x, b) + Wrap
  BY <1>1, SubLemma
<1> QED
  BY <1>1, <1>2, Bounds DEF Idx

\* An answer the driver did not see keeps its interrupt to come.
LEMMA SignalsLemma ==
  ASSUME MaxBatch < Wrap, TypeOK, TypeOK', Counts, Phases, Signals, [Next]_vars
  PROVE  Signals'
<1>1. /\ used_idx \in Idx /\ next_used \in Idx /\ last_used \in Idx /\ used_event \in Idx
      /\ Back \in Idx /\ Back' \in Idx /\ Back \in Nat /\ batch \in Nat /\ batch < Wrap /\ batch \in Idx
  <2>1. Distances'
    BY DistanceTypes, PTL
  <2>2. batch \in Nat /\ batch < Wrap /\ batch \in Idx
    BY Bounds DEF TypeOK, Idx
  <2>3. Back \in Idx /\ Back \in Nat
    BY IndexTypes DEF Idx
  <2> QED
    BY <2>1, <2>2, <2>3, IndexTypes DEF Distances
<1>2. CASE UNCHANGED vars
  BY <1>2 DEF Signals, Back, vars, guest, queue, worker, driver
<1>3. CASE Wait \/ disable_notification \/ pop \/ pop_none \/ SkipChain \/ add_used_index
           \/ enable_notification \/ recheck \/ (\E h \in Heads : Submit(h)) \/ DecideKick \/ QueueNotify
  <2>1. UNCHANGED <<isr, irq, used_event, last_used, next_used, batch>>
    BY ZenonT(40), SMTT(40), <1>3 DEF Wait, disable_notification, pop, pop_none, SkipChain, add_used_index,
                enable_notification, recheck, Submit, DecideKick, QueueNotify, guest, queue, worker, driver
  <2> QED
    BY <2>1 DEF Signals, Back
<1>4. CASE add_used_element
  <2>1. batch' = batch + 1 /\ UNCHANGED <<isr, irq, used_event, last_used>>
    BY <1>4 DEF add_used_element, guest, driver
  <2>2. Back' = Back + 1
    BY <1>4, ElementLemma
  <2>3. Back <= batch => Back' <= batch'
    BY <2>1, <2>2, <1>1
  <2> QED
    BY <2>1, <2>3 DEF Signals
<1>5. CASE Notify
  <2>1. /\ batch' = 0 /\ irq' = (irq \/ (suppresses => needs_notification))
        /\ UNCHANGED <<isr, used_event, last_used, next_used>>
    BY <1>5 DEF Notify, guest, driver
  <2>2. ASSUME ~irq', isr' = "idle" PROVE Back' <= batch'
    <3>1. ~irq /\ isr = "idle" /\ ~needs_notification
      BY <2>1, <2>2
    <3>2. Back <= batch /\ used_event = last_used
      BY <3>1 DEF Signals
    <3>3. /\ event_idx_enabled /\ num_added = batch
          /\ ~NeedEvent(last_used, next_used, Sub(next_used, batch))
      BY <3>1, <3>2, <1>1, ModLemma DEF needs_notification, Phases
    <3>4. Back = Sub(next_used, last_used) /\ Sub(next_used, Sub(next_used, batch)) = batch
          /\ Sub(next_used, batch) \in Idx
      BY <1>1, BackLemma DEF Back
    <3>5. Back = 0
      BY <3>2, <3>3, <3>4, <1>1, WantedLemma
    <3>6. Back' = Back
      BY <2>1 DEF Back
    <3> QED
      BY <3>5, <3>6, <2>1
  <2> QED
    BY <2>1, <2>2 DEF Signals
<1>6. CASE TakeInterrupt
  BY <1>6 DEF TakeInterrupt, Signals
<1>7. CASE Reap
  BY <1>7 DEF Reap, Signals
<1>8. CASE Rearm
  BY <1>8 DEF Rearm, Signals
<1>9. CASE LookAgain
  <2>1. /\ isr = "rearmed" /\ isr' = IF last_used # used_idx THEN "reap" ELSE "idle"
        /\ UNCHANGED <<used_event, last_used, next_used, batch>>
    BY <1>9 DEF LookAgain, guest, queue, worker
  <2>2. isr' = "idle" => Back <= batch
    <3> SUFFICES ASSUME last_used = used_idx PROVE Back <= batch
      BY <2>1
    <3>1. CASE pc # "index"
      <4>1. Back = 0
        BY <3>1, <1>1, WindowLemma DEF Counts, Back
      <4> QED
        BY <4>1, <1>1
    <3>2. CASE pc = "index"
      <4>1. Sub(used_idx, used_idx) = 0
        BY SMTT(40), ZenonT(40), <1>1, WindowLemma
      <4>2. Sub(Add(used_idx, 1), used_idx) = 0 + 1
        BY <4>1, <1>1, WindowLemma, Bounds
      <4>3. Back = 1
        BY <3>2, <4>2 DEF Counts, Back
      <4> QED
        BY <3>2, <4>3, <1>1 DEF Phases
    <3> QED
      BY <3>1, <3>2
  <2> QED
    BY <2>1, <2>2 DEF Signals, Back
<1> QED
  BY <1>2, <1>3, <1>4, <1>5, <1>6, <1>7, <1>8, <1>9 DEF Next, Worker, Handler

-----------------------------------------------------------------------------
(* The invariant, and what follows from it. *)

\* The invariants hold of a fresh queue, in which nothing is on its way.
LEMMA InitLemma ==
  ASSUME Init
  PROVE  IInv /\ Signals /\ Sent = <<>> /\ Returned = <<>>
<1>1. 0 \in Idx /\ 0 \in Heads /\ 0 \in 0 .. MaxBatch /\ (0 % Wrap) = 0 /\ Size \in Nat \ {0}
  BY SMTT(40), ZenonT(40), Bounds DEF Idx, Heads, Slots
<1>2. TypeOK
  BY <1>1 DEF Init, TypeOK, Heads
<1>3. len = 0 /\ Back = 0 /\ Held = 0 /\ Fresh = 0
  BY SMTT(40), ZenonT(40), <1>1, WindowLemma DEF Init, len, Back, Held, Fresh
<1>4. Shape
  BY <1>2, ShapeLemma
<1>5. Sent = <<>> /\ Returned = <<>>
  BY <1>3, <1>4 DEF Shape
<1>6. Cardinality(free) = Size /\ Cardinality(leaked) = 0
  <2>1. 0 \in Int /\ Size - 1 \in Int /\ ~(0 > Size - 1) /\ (Size - 1) - 0 + 1 = Size
    BY <1>1
  <2>2. Cardinality(0 .. Size - 1) = Size
    BY <2>1, FS_Interval
  <2> QED
    BY <2>2, FS_EmptySet DEF Init, Heads, Slots
<1>7. Counts
  BY <1>1, <1>3, <1>6, Bounds DEF Counts, Init
<1>8. Places
  BY <1>5 DEF Places, AllApart, Init
<1>9. Kicks /\ Phases /\ Signals
  BY <1>1, <1>3 DEF Kicks, Phases, Signals, Init
<1> QED
  BY <1>2, <1>5, <1>7, <1>8, <1>9 DEF IInv

\* Every step keeps the invariant and moves at most one chain.
LEMMA StepLemma ==
  ASSUME IInv, [Next]_vars
  PROVE  IInv' /\ Move
<1>1. TypeOK'
  BY TypeLemma DEF IInv
<1>2. Move
  BY MoveLemma DEF IInv
<1>3. Places' /\ Counts'
  BY <1>1, <1>2, PlacesLemma, CountsLemma DEF IInv
<1>4. Kicks' /\ Phases'
  BY <1>1, KicksLemma, PhasesLemma DEF IInv
<1> QED
  BY <1>1, <1>2, <1>3, <1>4 DEF IInv

\* The rings' indices and slots, the worker's position and the driver's, and the
\* count of chains fit together in every reachable state.
THEOREM Invariance == Spec => []IInv
<1>1. Init => IInv
  BY InitLemma
<1>2. IInv /\ [Next]_vars => IInv'
  BY StepLemma
<1> QED
  BY <1>1, <1>2, PTL DEF Spec

\* Every index stays below Wrap and every slot holds a chain, although indices wrap.
THEOREM TypeOKAlways == Spec => []TypeOK
<1>1. IInv => TypeOK
  BY SMTT(40), ZenonT(40) DEF IInv
<1> QED
  BY <1>1, Invariance, PTL

\* How often a chain occurs in a sequence that has none twice.
LEMMA OccursLemma ==
  ASSUME NEW t \in Seq(Heads), \A i, j \in 1 .. Len(t) : t[i] = t[j] => i = j, NEW h
  PROVE  Cardinality({i \in DOMAIN t : t[i] = h}) = IF \E i \in 1 .. Len(t) : t[i] = h THEN 1 ELSE 0
<1>1. DOMAIN t = 1 .. Len(t)
  OBVIOUS
<1>2. CASE \E i \in 1 .. Len(t) : t[i] = h
  <2>1. PICK k \in 1 .. Len(t) : t[k] = h
    BY <1>2
  <2>2. {i \in DOMAIN t : t[i] = h} = {k}
    BY <1>1, <2>1
  <2> QED
    BY <1>2, <2>2, FS_Singleton
<1>3. CASE ~ \E i \in 1 .. Len(t) : t[i] = h
  <2>1. {i \in DOMAIN t : t[i] = h} = {}
    BY <1>1, <1>3
  <2> QED
    BY <1>3, <2>1, FS_EmptySet
<1> QED
  BY <1>2, <1>3

\* The elements of a concatenation, by position.
LEMMA ConcatLemma ==
  ASSUME NEW s \in Seq(Heads), NEW t \in Seq(Heads)
  PROVE  /\ \A i \in 1 .. Len(s) : i \in 1 .. Len(s \o t) /\ (s \o t)[i] = s[i]
         /\ \A i \in 1 .. Len(t) : Len(s) + i \in 1 .. Len(s \o t) /\ (s \o t)[Len(s) + i] = t[i]
         /\ \A k \in 1 .. Len(s \o t) : \/ k \in 1 .. Len(s)
                                        \/ \E i \in 1 .. Len(t) : k = Len(s) + i
<1>1. Len(s) \in Nat /\ Len(t) \in Nat /\ Len(s \o t) = Len(s) + Len(t)
  BY SMTT(40), ZenonT(40)
<1>2. \A i \in 1 .. Len(s) : i \in 1 .. Len(s \o t) /\ (s \o t)[i] = s[i]
  BY <1>1
<1>3. \A i \in 1 .. Len(t) : Len(s) + i \in 1 .. Len(s \o t) /\ (s \o t)[Len(s) + i] = t[i]
  BY <1>1
<1>4. ASSUME NEW k \in 1 .. Len(s \o t), k \notin 1 .. Len(s)
      PROVE  \E i \in 1 .. Len(t) : k = Len(s) + i
  <2>1. k - Len(s) \in 1 .. Len(t) /\ k = Len(s) + (k - Len(s))
    BY <1>1, <1>4
  <2> QED
    BY <2>1
<1> QED
  BY <1>2, <1>3, <1>4

\* The inductive form of the property gives the one the run checks.
LEMMA OnePlaceLemma ==
  ASSUME TypeOK, Places
  PROVE  EachChainInOnePlace
<1>1. InFlight \in Seq(Heads) /\ Waiting \in Seq(Heads) /\ Returned \in Seq(Heads)
  BY ShapeLemma DEF Shape
<1>2. /\ \A i \in 1 .. Len(InFlight) : i \in 1 .. Len(Sent) /\ Sent[i] = InFlight[i]
      /\ \A i \in 1 .. Len(Waiting) : /\ Len(InFlight) + i \in 1 .. Len(Sent)
                                      /\ Sent[Len(InFlight) + i] = Waiting[i]
      /\ \A k \in 1 .. Len(Sent) : \/ k \in 1 .. Len(InFlight)
                                   \/ \E i \in 1 .. Len(Waiting) : k = Len(InFlight) + i
  BY <1>1, ConcatLemma DEF Sent
<1>3. Len(InFlight) \in Nat /\ Len(Waiting) \in Nat
  BY <1>1
<1>4. \A i, j \in 1 .. Len(InFlight) : InFlight[i] = InFlight[j] => i = j
  BY <1>2 DEF Places, AllApart
<1>5. \A i, j \in 1 .. Len(Waiting) : Waiting[i] = Waiting[j] => i = j
  <2> TAKE i, j \in 1 .. Len(Waiting)
  <2>1. /\ Len(InFlight) + i \in 1 .. Len(Sent) /\ Sent[Len(InFlight) + i] = Waiting[i]
        /\ Len(InFlight) + j \in 1 .. Len(Sent) /\ Sent[Len(InFlight) + j] = Waiting[j]
    BY <1>2
  <2>2. Waiting[i] = Waiting[j] => Len(InFlight) + i = Len(InFlight) + j
    BY <2>1 DEF Places, AllApart
  <2> QED
    BY <2>2, <1>3
<1>6. \A i \in 1 .. Len(InFlight), j \in 1 .. Len(Waiting) : InFlight[i] # Waiting[j]
  <2> TAKE i \in 1 .. Len(InFlight), j \in 1 .. Len(Waiting)
  <2>1. i # Len(InFlight) + j
    BY <1>3
  <2> QED
    BY <1>2, <2>1 DEF Places, AllApart
<1>7. \A i, j \in 1 .. Len(Returned) : Returned[i] = Returned[j] => i = j
  BY SMTT(40), ZenonT(40) DEF Places, AllApart
<1> SUFFICES ASSUME NEW h \in Heads
             PROVE  (IF h \in free THEN 1 ELSE 0) + (IF h \in leaked THEN 1 ELSE 0)
                    + Cardinality({i \in DOMAIN Waiting : Waiting[i] = h})
                    + Cardinality({i \in DOMAIN InFlight : InFlight[i] = h})
                    + Cardinality({i \in DOMAIN Returned : Returned[i] = h}) = 1
  BY SMTT(40), ZenonT(40) DEF EachChainInOnePlace
<1> DEFINE W == \E i \in 1 .. Len(Waiting) : Waiting[i] = h
           P == \E i \in 1 .. Len(InFlight) : InFlight[i] = h
           R == \E i \in 1 .. Len(Returned) : Returned[i] = h
<1>8. /\ Cardinality({i \in DOMAIN Waiting : Waiting[i] = h}) = IF W THEN 1 ELSE 0
      /\ Cardinality({i \in DOMAIN InFlight : InFlight[i] = h}) = IF P THEN 1 ELSE 0
      /\ Cardinality({i \in DOMAIN Returned : Returned[i] = h}) = IF R THEN 1 ELSE 0
  BY <1>1, <1>4, <1>5, <1>7, OccursLemma
<1>9. (\E k \in 1 .. Len(Sent) : Sent[k] = h) <=> W \/ P
  <2>1. ASSUME NEW k \in 1 .. Len(Sent), Sent[k] = h PROVE W \/ P
    <3>1. CASE k \in 1 .. Len(InFlight)
      BY <2>1, <3>1, <1>2
    <3>2. CASE k \notin 1 .. Len(InFlight)
      <4>1. PICK i \in 1 .. Len(Waiting) : k = Len(InFlight) + i
        BY <3>2, <1>2
      <4>2. Waiting[i] = h
        BY <4>1, <2>1, <1>2
      <4> QED
        BY <4>2
    <3> QED
      BY SMTT(40), ZenonT(40), <3>1, <3>2
  <2>2. W => \E k \in 1 .. Len(Sent) : Sent[k] = h
    BY SMTT(40), ZenonT(40), <1>2
  <2>3. P => \E k \in 1 .. Len(Sent) : Sent[k] = h
    BY <1>2
  <2> QED
    BY <2>1, <2>2, <2>3
<1>10. ~(W /\ P)
  BY <1>6
<1>11. /\ W \/ P => h \notin free /\ h \notin leaked /\ ~R
       /\ R => h \notin free /\ h \notin leaked
       /\ ~(h \in free /\ h \in leaked)
       /\ h \in free \/ h \in leaked \/ W \/ P \/ R
  BY <1>9 DEF Places, AllApart
<1> HIDE DEF W, P, R
<1> QED
  BY <1>8, <1>10, <1>11

\* The device hands out each chain once: a chain is free, waiting, being processed,
\* returned or skipped, and in one of these places only.
THEOREM EachChainInOnePlaceAlways == Spec => []EachChainInOnePlace
<1>1. IInv => EachChainInOnePlace
  BY OnePlaceLemma DEF IInv
<1> QED
  BY <1>1, Invariance, PTL

\* A worker that sleeps with no notification on its way has seen every chain.
THEOREM NoLostKickAlways == Spec => []NoLostKick
<1>1. IInv => NoLostKick
  <2> SUFFICES ASSUME IInv, pc = "wait", ~queue_evt, drv = "idle" PROVE avail_idx = next_avail
    BY SMTT(40), ZenonT(40) DEF NoLostKick
  <2>1. avail_idx \in Idx /\ next_avail \in Idx /\ kick_from \in Idx /\ len \in Idx
    BY IndexTypes DEF IInv
  <2>2. Fresh = 0 /\ len <= Fresh
    BY <2>1, WindowLemma DEF IInv, Kicks, Fresh
  <2>3. len = 0
    BY <2>1, <2>2, Bounds DEF Idx
  <2> QED
    BY <2>1, <2>3, WindowLemma DEF len
<1> QED
  BY <1>1, Invariance, PTL

\* With fewer than Wrap chains in a drain, a driver whose handler does not run and which
\* has no interrupt to take has taken back all that a sleeping worker returned.
THEOREM NoLostInterruptAlways ==
  ASSUME MaxBatch < Wrap
  PROVE  Spec => []NoLostInterrupt
<1>1. Init => IInv /\ Signals
  BY InitLemma
<1>2. (IInv /\ Signals) /\ [Next]_vars => (IInv /\ Signals)'
  <2> SUFFICES ASSUME IInv, Signals, [Next]_vars PROVE IInv' /\ Signals'
    OBVIOUS
  <2>1. IInv'
    BY StepLemma
  <2>2. Signals'
    BY <2>1, SignalsLemma DEF IInv
  <2> QED
    BY <2>1, <2>2
<1>3. IInv /\ Signals => NoLostInterrupt
  <2> SUFFICES ASSUME IInv, Signals, pc = "wait", ~irq, isr = "idle" PROVE used_idx = last_used
    BY SMTT(40), ZenonT(40) DEF NoLostInterrupt
  <2>1. next_used \in Idx /\ last_used \in Idx /\ Back \in Idx
    BY IndexTypes DEF IInv
  <2>2. Back <= 0 /\ next_used = used_idx
    BY DEF IInv, Signals, Phases, Counts
  <2>3. Back = 0
    BY <2>1, <2>2, Bounds DEF Idx
  <2> QED
    BY <2>1, <2>2, <2>3, WindowLemma DEF Back
<1> QED
  BY <1>1, <1>2, <1>3, PTL DEF Spec

\* Without regard to fairness, the rings implement the channel: whatever a step does to
\* indices, flags and positions, it submits, completes, refuses or takes back one
\* request of the channel, oldest first, or changes nothing there.
THEOREM ChannelSafety == Spec => Channel!Init /\ [][Channel!Next]_(Channel!channelVars)
<1>1. Init => Channel!Init
  BY InitLemma DEF Channel!Init, Sent, Init
<1>2. IInv /\ [Next]_vars => [Channel!Next]_(Channel!channelVars)
  <2> SUFFICES ASSUME IInv, [Next]_vars
               PROVE  Channel!Next \/ UNCHANGED Channel!channelVars
    BY SMTT(40), ZenonT(40)
  <2>1. Move
    BY StepLemma
  <2>2. ASSUME NEW h \in Heads, ToSent(h) PROVE Channel!Next
    <3>1. Sent \in Seq(Heads) /\ Returned \in Seq(Heads)
      BY SMTT(40), ZenonT(40), ShapeLemma DEF IInv, Shape
    <3>2. /\ h \notin leaked /\ \A i \in 1 .. Len(Sent) : Sent[i] # h
          /\ \A i \in 1 .. Len(Returned) : Returned[i] # h
      BY <2>2 DEF IInv, Places, AllApart, ToSent
    <3>3. h \notin Channel!ToSet(Sent) \union Channel!ToSet(Returned) \union leaked
      BY <3>1, <3>2 DEF Channel!ToSet
    <3>4. Channel!Submit(h)
      BY <3>3, <2>2 DEF Channel!Submit, ToSent, Sent
    <3> QED
      BY <3>4 DEF Channel!Next
  <2>3. CASE ToReturned
    BY <2>3 DEF ToReturned, Sent, Channel!Next, Channel!Complete
  <2>4. CASE ToLeaked
    BY <2>4 DEF ToLeaked, Sent, Channel!Next, Channel!Refuse
  <2>5. CASE ToFree
    BY <2>5 DEF ToFree, Sent, Channel!Next, Channel!Reap
  <2>6. CASE UNCHANGED <<Sent, Returned, free, leaked>>
    BY <2>6 DEF Sent, Channel!channelVars
  <2> QED
    BY <2>1, <2>2, <2>3, <2>4, <2>5, <2>6 DEF Move
<1> QED
  BY <1>1, <1>2, Invariance, PTL DEF Spec
=============================================================================
