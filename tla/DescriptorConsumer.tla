------------------------- MODULE DescriptorConsumer -------------------------
(***************************************************************************)
(* DescriptorChainConsumer of src/devices/virtio/descriptor_utils.rs, which *)
(* Reader and Writer are wrappers of: a list of slices of guest memory, of  *)
(* which reads and writes take bytes from the front.  A slice is a base    *)
(* address and a length.  No device calls split_at.                        *)
(*                                                                         *)
(* An operator named X_<fault> is a deliberately faulty variant of X that  *)
(* no specification uses: some property must tell it apart from X.         *)
(***************************************************************************)
EXTENDS Integers, Sequences

Slice(base, len) == [base |-> base, len |-> len]

\* VolatileSlice::offset.
Offset(vs, n) == Slice(vs.base + n, vs.len - n)

\* The combined length of the slices.
available_bytes(buffers) ==
  LET Total[i \in 0 .. Len(buffers)] == IF i = 0 THEN 0 ELSE Total[i - 1] + buffers[i].len
  IN  Total[Len(buffers)]

\* The slices that "consume" hands to its function: whole ones, until they hold
\* "count" bytes.
Selected(buffers, count) ==
  LET n == CHOOSE k \in 0 .. Len(buffers) :
             /\ k = Len(buffers) \/ available_bytes(SubSeq(buffers, 1, k)) >= count
             /\ \A j \in 0 .. k - 1 : available_bytes(SubSeq(buffers, 1, j)) < count
  IN  SubSeq(buffers, 1, n)

Consumed_WholeSlices(buffers, n) ==
  LET After[k \in 0 .. Len(buffers), rem \in 0 .. n] ==
        IF k = Len(buffers) \/ rem = 0 THEN SubSeq(buffers, k + 1, Len(buffers))
        ELSE After[k + 1, IF buffers[k + 1].len > rem THEN 0 ELSE rem - buffers[k + 1].len]
  IN  After[0, n]

\* What is left after n bytes: slices are dropped, and the one in which the n
\* bytes end is pushed back without them.
Consumed(buffers, n) ==
  LET After[k \in 0 .. Len(buffers), rem \in 0 .. n] ==
        IF k = Len(buffers) THEN <<>>
        ELSE LET vs == buffers[k + 1]
             IN  IF rem < vs.len THEN <<Offset(vs, rem)>> \o SubSeq(buffers, k + 2, Len(buffers))
                 ELSE After[k + 1, rem - vs.len]
  IN  After[0, n]

\* The addresses of the bytes, in order.
Bytes(buffers) ==
  LET Flat[i \in 0 .. Len(buffers)] ==
        IF i = 0 THEN <<>>
        ELSE Flat[i - 1] \o [k \in 1 .. buffers[i].len |-> buffers[i].base + k - 1]
  IN  Flat[Len(buffers)]

\* How many bytes the function that "consume" calls reports: copies ("io") stop
\* at the size of the caller's buffer, file I/O ("file") uses the slices up.
Reports(caller, buffers, count) ==
  LET given == available_bytes(Selected(buffers, count))
  IN  IF caller = "io" /\ count < given THEN count ELSE given
=============================================================================
