--------------------------- MODULE DescriptorChain --------------------------
(***************************************************************************)
(* A descriptor chain (DescIter and DescriptorChain of                     *)
(* src/devices/virtio/queue.rs) and the Reader and Writer made of it       *)
(* (src/devices/virtio/descriptor_utils.rs).  The chain is whatever a      *)
(* driver left in the descriptor table t, from descriptor 0 on: it may     *)
(* link out of the table or back into itself.                              *)
(***************************************************************************)
EXTENDS DescriptorConsumer, FiniteSets, SequencesExt

CONSTANTS QueueSize,
          BufferSize, \* no descriptor is longer
          Tables      \* the descriptor tables of a driver

ASSUME QueueSizeAssumption == QueueSize \in Nat \ {0}

\* A table: index -> descriptor, with len, write, next (the link, NoLink without
\* the flag) and in_memory (the buffer is in RAM).
NoLink == QueueSize + 1

\* The values of DescIter::next.
Cursors == [index : 0 .. QueueSize, ttl : 0 .. QueueSize]
None == [index |-> QueueSize, ttl |-> 0]

has_next(t, d) == t[d.index].next # NoLink /\ d.ttl > 1

\* checked_new accepts an index of the table whose own link is one.
checked_new(t, i) ==
  i < QueueSize /\ (t[i].next = NoLink \/ QueueSize = 1 \/ t[i].next < QueueSize)

next_descriptor(t, d) ==
  IF has_next(t, d) /\ checked_new(t, t[d.index].next)
    THEN [index |-> t[d.index].next, ttl |-> d.ttl - 1]
    ELSE None

\* What DescIter::next yields until it returns None; WalkLimit calls at most, so
\* that a walk without an end can be seen as too long a one.
WalkLimit == 2 * QueueSize
Chain(t) ==
  LET From[n \in 0 .. WalkLimit, d \in Cursors] ==
        IF n = 0 \/ d = None THEN <<>> ELSE <<d.index>> \o From[n - 1, next_descriptor(t, d)]
  IN  From[WalkLimit, IF checked_new(t, 0) THEN [index |-> 0, ttl |-> QueueSize] ELSE None]

\* The position of the first writable descriptor, behind the end if there is none.
FirstWritable(t, c) ==
  LET w == {k \in 1 .. Len(c) : t[c[k]].write} IN IF w = {} THEN Len(c) + 1 ELSE Min(w)

\* readable() ends at the first writable descriptor, writable() starts there.
readable(t, c) == SubSeq(c, 1, FirstWritable(t, c) - 1)
writable(t, c) == SubSeq(c, FirstWritable(t, c), Len(c))

\* Reader::new and Writer::new make one slice of each descriptor, and fail for one
\* that is not in memory.
Slices(t, c) == [k \in 1 .. Len(c) |-> Slice(c[k] * BufferSize, t[c[k]].len)]
InMemory == [t \in Tables |-> \A i \in ToSet(Chain(t)) : t[i].in_memory]
Reader == [t \in Tables |-> Slices(t, readable(t, Chain(t)))]
Writer == [t \in Tables |-> Slices(t, writable(t, Chain(t)))]

-----------------------------------------------------------------------------
(* What is expected of a walk and of its use, for one table. *)

\* A chain that links back into itself is left after as many descriptors as the
\* queue has.
Bounded(t) == Len(Chain(t)) <= QueueSize

Links(t, i) == IF t[i].next < QueueSize THEN {t[i].next} ELSE {}

Reachable(t) ==
  LET Hop[n \in 0 .. QueueSize] ==
        IF n = 0 THEN {0} ELSE Hop[n - 1] \union UNION {Links(t, i) : i \in Hop[n - 1]}
  IN  Hop[QueueSize]

\* A walk through a table without bad links is at every descriptor that the head
\* leads to.
Complete(t) ==
  (\A i \in Reachable(t) : t[i].next # QueueSize) => ToSet(Chain(t)) = Reachable(t)

\* Consuming twice, in either way and whatever is asked for: what was taken and
\* what is left are the bytes in order.
EachByteOnce(buffers, callers, counts) ==
  \A c1 \in callers, c2 \in callers, n1 \in counts, n2 \in counts :
    LET k1 == Reports(c1, buffers, n1)
        b1 == Consumed(buffers, k1)
        k2 == Reports(c2, b1, n2)
    IN  SubSeq(Bytes(buffers), 1, k1) \o SubSeq(Bytes(b1), 1, k2) \o Bytes(Consumed(b1, k2))
          = Bytes(buffers)

\* Writable descriptors come last, as the comments of Reader and Writer require.
WellOrdered ==
  {t \in Tables : LET c == Chain(t)
                  IN  \A j, k \in 1 .. Len(c) : j < k /\ t[c[j]].write => t[c[k]].write}
=============================================================================
