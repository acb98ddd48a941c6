--------------------------- MODULE MCBlockDevice ----------------------------
(* Sectors of two bytes, headers of two, segments of one; a queue of four. *)
EXTENDS BlockDevice, GuestMemoryAccess

Desc(len, write, link) == [len |-> len, write |-> write, next |-> link, in_memory |-> TRUE]

\* A chain of readable descriptors and then writable ones, of the lengths given.
Straight(out, in) ==
  LET n == Len(out) + Len(in)
  IN  [i \in 0 .. QueueSize - 1 |->
         Desc(IF i >= n THEN 0 ELSE (out \o in)[i + 1], i >= Len(out), IF i + 1 >= n THEN NoLink ELSE i + 1)]

Request(type, sector, num, table) == [type |-> type, sector |-> sector, num |-> num, table |-> table]

\* What a Linux driver makes: the status has a descriptor of its own.  A
\* header has one too, shares one with the segment, or is cut.
DataRequests ==
  {Request("IN", 1, 1, Straight(<<2>>, <<1, 1, 1>>)), Request("OUT", 0, 2, Straight(<<1, 3, 2>>, <<1>>)),
   Request("FLUSH", 0, 0, Straight(<<2>>, <<1>>)), Request("WRITE_ZEROES", 1, 1, Straight(<<3>>, <<1>>))}

\* Every other type, and odd forms: data that is not whole sectors, beyond the end, no
\* writable byte, no segment, no room for the identifier, no header, a header in
\* the writable part, a descriptor that is not in memory, a chain that is a loop.
OddRequests ==
  {Request("IN", 0, 0, Straight(<<2>>, <<1, 1>>)), Request("IN", 0, 0, Straight(<<2>>, <<>>)),
   Request("IN", 1, 2, Straight(<<2>>, <<2, 2, 1>>)), Request("IN", 0, 0, Straight(<<2>>, <<1>>)),
   Request("IN", 0, 2, Straight(<<1, 1>>, <<4, 1>>)),
   Request("OUT", 0, 1, Straight(<<4>>, <<>>)), Request("OUT", 0, 1, Straight(<<2, 1>>, <<1>>)),
   Request("GET_ID", 0, 0, Straight(<<2>>, <<3, 1>>)), Request("GET_ID", 0, 0, Straight(<<2>>, <<1>>)),
   Request("DISCARD", 0, 1, Straight(<<2, 1>>, <<1>>)), Request("DISCARD", 0, 1, Straight(<<2>>, <<1>>)),
   Request("WRITE_ZEROES", 0, 2, Straight(<<2>>, <<1>>)),
   Request("unknown", 0, 0, Straight(<<2>>, <<1>>)), Request("OUT", 0, 1, Straight(<<1>>, <<1>>)),
   Request("OUT", 0, 1, Straight(<<>>, <<2, 2, 1>>)),
   Request("OUT", 0, 1, [Straight(<<2, 2>>, <<1>>) EXCEPT ![1].in_memory = FALSE]),
   Request("FLUSH", 0, 0, [Straight(<<2>>, <<1>>) EXCEPT ![1].next = 0])}

SomeTables == {r.table : r \in DataRequests \union OddRequests}

\* Data requests only, or up to two odd ones.
SomeOffered(so_far) ==
  CASE so_far = <<>> -> DataRequests \union OddRequests
    [] so_far # <<>> /\ Last(so_far) \in DataRequests -> DataRequests
    [] so_far # <<>> /\ Last(so_far) \in OddRequests -> IF Len(so_far) < 2 THEN OddRequests ELSE {}

-----------------------------------------------------------------------------
(* The walk and its use, for every small table. *)

\* Every way to link four one-byte descriptors, loops and links out of the table
\* included.
LinkTables == [0 .. 3 -> {Desc(1, w, l) : w \in BOOLEAN, l \in 0 .. 5}]

\* Lists of up to three slices of every mixture of lengths, some of them empty.
SliceLists ==
  UNION {{[k \in 1 .. n |-> Slice(k * BufferSize, lens[k])] : lens \in [1 .. n -> {0, 1, 3}]} : n \in 0 .. 3}

AllBounded == \A t \in LinkTables : Bounded(t)
AllComplete == \A t \in LinkTables : Complete(t)
AllBytesOnce == \A b \in SliceLists : EachByteOnce(b, {"io", "file"}, {0, 1, 2, 4})

\* "used to prevent infinite chain cycles" (the field ttl): whatever table a running
\* worker meets, DescIter ends after as many descriptors as the queue has, that bound
\* cuts off no descriptor the head leads to, and Reader and Writer use every byte once
\* and in order, whatever mixture of copies and file I/O consumes it.
ChainsAreWalkedWhole == state = "runs" => AllBounded /\ AllComplete /\ AllBytesOnce

-----------------------------------------------------------------------------
(* The library under the descriptors' slices, vm-memory: pages of two bytes, words of
   two bits, at most three bytes to a call of the system, ten guest addresses. *)

Fresh(n) == [i \in 1 .. n |-> 100 + i]
Lists(S, n) == UNION {[1 .. k -> S] : k \in 0 .. n}

\* A slice of five bytes at an odd address, and the memory it is in.
Root == with_bitmap(9, 5, 0, 0)
Host == [bytes |-> [a \in 0 .. 31 |-> a], maps |-> [r \in {0} |-> new_bitmap(5)]]

\* Every bitmap of up to nine bytes.
Bitmaps == UNION {{Put(new_bitmap(n), p, TRUE) : p \in SUBSET (0 .. new_bitmap(n).size - 1)} : n \in 0 .. 9}

AllDirtyExact ==
  \A b \in Bitmaps :
    /\ \A start \in 0 .. 10 \union {USIZE_MAX - 1, USIZE_MAX}, len \in 0 .. 5 \union {USIZE_MAX} : ExactlyTouched(b, start, len)
    /\ \A more \in 0 .. 5 : KeptAndCollectedOnce(b, more)

AllInside == \A s \in Derived(Root) : InsideAndAligned(Root, s) /\ \A q \in Derived(s) : InsideAndAligned(Root, q)

AllWhole == \A dst, src \in 1 .. 16, total \in 0 .. 8 : CopiesEachByteOnce(dst, src, total)

AllMarked ==
  \A s \in Derived(Root), n \in 0 .. 4 :
    /\ \A addr \in 0 .. 6 : TransfersAndMarks(Host, Root, s, Fresh(n), addr)
    /\ \A size_of \in {1, 2} : ElementsCopied(Host, Root, s, Fresh(n), size_of)

\* Up to three calls that are interrupted, fail, or serve less than they were asked.
Turns == Lists({Interrupt, Failure, Short(0), Short(1), Short(2)}, 3)

AllExact ==
  /\ \A n \in 0 .. 5, turns \in Turns, socket \in BOOLEAN :
       LET s == subslice(Root, 0, n).ok
       IN  /\ \A k \in 0 .. 6 : ReadsExactly(Host, s, [data |-> Fresh(k), turns |-> turns, socket |-> socket])
           /\ WritesExactly(Host, s, [data |-> <<>>, turns |-> turns, socket |-> socket])
  /\ \A n \in 0 .. 3, len \in 0 .. 3, at \in 0 .. 5 :
       CursorsAdvance(Host, subslice(Root, 1, n).ok, [inner |-> Fresh(len), position |-> at])

\* Up to three regions of one to three bytes, at every address, with gaps and without;
\* next to each other in the guest is not next to each other in the host.
SomeRegions ==
  {r.ok : r \in {x \in {from_range(start, len, 3 * start + 1) : start \in 0 .. 8, len \in 0 .. 3} : IsOk(x)}}

Collections == {c \in Lists(SomeRegions, 3) : c = <<>> \/ IsOk(from_arc_regions(c))}

HostOfAll(c) == [bytes |-> [a \in 0 .. 31 |-> a], maps |-> [g \in {r.start : r \in Members(c)} |-> new_bitmap(3)]]

AllKept ==
  \A c \in Collections :
    /\ \A r \in SomeRegions : InsertIsExact(c, r) /\ RemoveIsExact(c, r.start, r.len)
    /\ \A addr \in 0 .. GUEST_MAX : FindIsExact(c, addr)

AllReached ==
  \A c \in Collections, addr \in 0 .. GUEST_MAX, n \in 0 .. 5 :
    CoversExactly(c, addr, n) /\ (n > 0 => TransfersAcross(c, HostOfAll(c), addr, Fresh(n)))

\* Slices of slices (offset, subslice, split_at, array references) lie in the first
\* one; copy_slice_volatile copies every byte once and aligned words in one access;
\* what write, read_exact_volatile_from, store and the copies of slices and arrays put
\* somewhere reads back from there; and AtomicBitmap holds exactly the pages that were
\* written, where a range saturates and when it grows too.
SlicesAreExact == state = "runs" => AllDirtyExact /\ AllInside /\ AllWhole /\ AllMarked

\* Guest memory is reached whole: insert_region and remove_region keep "a sorted set
\* of non-overlapping physical guest memory regions", find_region finds the region of
\* every address, get_slices, try_access and the accesses by guest address reach exactly
\* the bytes they were given up to the first gap, and read_exact_volatile and
\* write_all_volatile succeed exactly when all was transferred, interrupted, short and
\* failing calls included.
GuestAccessIsExact == state = "runs" => AllExact /\ AllKept /\ AllReached
=============================================================================
