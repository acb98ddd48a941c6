------------------------- MODULE GuestMemoryAccess --------------------------
(***************************************************************************)
(* Accesses to a collection of regions by guest address: the trait         *)
(* GuestMemory and its Bytes<GuestAddress> of the vendored crate vm-memory  *)
(* (guest_memory.rs), over the slices of the regions' mappings              *)
(* (mmap/windows.rs, region.rs).  The bitmap of a region is named by its    *)
(* guest address.  mem is the collection.                                   *)
(***************************************************************************)
EXTENDS VolatileIo, SequencesExt

\* MmapRegion::get_slice, and GuestRegionMmap::get_slice, which calls it.
region_get_slice(r, at, count) ==
  LET end == compute_offset(at, count)
  IN  IF ~IsOk(end) THEN end
      ELSE IF end.ok > r.len THEN Err("OutOfBounds")
      ELSE Ok(with_bitmap(r.host + at, count, r.start, slice_at(0, at)))

as_volatile_slice(r) == region_get_slice(r, 0, r.len).ok

region_get_host_address(r, at) == IF at < r.len THEN Ok(r.host + at) ELSE Err("InvalidBackendAddress")

\* Bytes<MemoryRegionAddress>: the operations of the slice of the whole region.
region_write(st, r, buf, at) == vs_write(st, as_volatile_slice(r), buf, at)
region_read(st, r, len, at) == vs_read(st, as_volatile_slice(r), len, at)
region_store(st, r, val, at) == vs_store(st, as_volatile_slice(r), val, at)
region_load(st, r, at, size_of) == vs_load(st, as_volatile_slice(r), at, size_of)
region_read_volatile_from(st, r, at, src, count) == vs_read_volatile_from(st, as_volatile_slice(r), at, src, count)
region_write_all_volatile_to(st, r, at, dst, count) == vs_write_all_volatile_to(st, as_volatile_slice(r), at, dst, count)

-----------------------------------------------------------------------------

checked_offset(mem, base, count) ==
  IF base + count <= GUEST_MAX /\ IsOk(find_region(mem, base + count)) THEN Ok(base + count) ELSE Err("None")

gm_last_addr(mem) == Max({0} \union {last_addr(r) : r \in Members(mem)})

get_host_address(mem, addr) ==
  LET r == find_region(mem, addr)
  IN  IF IsOk(r) THEN region_get_host_address(r.ok, to_region_addr(r.ok, addr).ok) ELSE Err("InvalidGuestAddress")

get_slice(mem, addr, count) ==
  LET r == find_region(mem, addr)
  IN  IF IsOk(r) THEN region_get_slice(r.ok, to_region_addr(r.ok, addr).ok, count) ELSE Err("InvalidGuestAddress")

\* The address after len more: zero is let through although it has wrapped.
Advance(addr, len) ==
  LET x == (addr + len) % (GUEST_MAX + 1)
  IN  IF x = 0 \/ addr + len <= GUEST_MAX THEN Ok(x) ELSE Err("GuestAddressOverflow")

next_slice_FromStart(mem, addr, count) ==
  LET r == find_region(mem, addr)
  IN  IF ~IsOk(r) THEN [item |-> Err("InvalidGuestAddress"), addr |-> addr, count |-> 0]
      ELSE LET len == Min({r.ok.len, count})
           IN  [item |-> region_get_slice(r.ok, 0, len), addr |-> Advance(addr, len).ok, count |-> count - len]

\* GuestMemorySliceIterator::do_next: the item, and where the iterator is after it;
\* next resets count to 0 on an error.
next_slice(mem, addr, count) ==
  LET r == find_region(mem, addr)
  IN  IF ~IsOk(r) THEN [item |-> Err("InvalidGuestAddress"), addr |-> addr, count |-> 0]
      ELSE LET at == to_region_addr(r.ok, addr).ok
               len == Min({r.ok.len - at, count})
               x == Advance(addr, len)
           IN  IF IsOk(x) THEN [item |-> region_get_slice(r.ok, at, len), addr |-> x.ok, count |-> count - len]
               ELSE [item |-> x, addr |-> addr, count |-> 0]

\* The items of get_slices: each step takes a byte or ends it.
get_slices(mem, addr, count) ==
  LET Step[k \in 0 .. count] ==
        IF k = 0 THEN [items |-> <<>>, addr |-> addr, count |-> count]
        ELSE LET l == Step[k - 1]
                 s == next_slice(mem, l.addr, l.count)
             IN  IF l.count = 0 THEN l ELSE [items |-> Append(l.items, s.item), addr |-> s.addr, count |-> s.count]
  IN  Step[count].items

check_range(mem, base, len) == \A i \in DOMAIN get_slices(mem, base, len) : IsOk(get_slices(mem, base, len)[i])

\* The error of the first item, or the slices before the first error.
stop_on_error(items) ==
  IF items # <<>> /\ ~IsOk(items[1]) THEN items[1] ELSE Ok(SelectSeq(items, IsOk))

\* try_fold of Op, which takes a memory, the other side and a slice; it ends at an error.
Each(Op(_, _, _), st, io, slices) ==
  FoldLeft(LAMBDA r, slice : IF ~IsOk(r.ret) THEN r
                             ELSE LET q == Op(r.st, r.io, slice.ok)
                                  IN  IF IsOk(q.ret) THEN [q EXCEPT !.ret = Ok(r.ret.ok + @.ok)] ELSE q,
           Done(st, io, Ok(0)), slices)

EachOk(Op(_, _, _), st, io, slices) ==
  IF IsOk(slices) THEN Each(Op, st, io, slices.ok) ELSE Done(st, io, slices)

Over(Op(_, _, _), mem, st, io, addr, count) == EachOk(Op, st, io, stop_on_error(get_slices(mem, addr, count)))

\* The slice-wise operations; io is the rest of the buffer, what was read, the source
\* or the destination.
WriteOne(st, buf, slice) ==
  LET r == vs_write(st, slice, buf, 0)
  IN  IF IsOk(r.ret) THEN Done(r.st, SubSeq(buf, r.ret.ok + 1, Len(buf)), r.ret) ELSE r
ReadOne(st, got, slice) ==
  LET r == vs_read(st, slice, slice.size, 0) IN Done(st, got \o r.ok, Ok(Len(r.ok)))
FromOne(st, src, slice) == vs_read_volatile_from(st, slice, 0, src, slice.size)
ToOne(st, dst, slice) ==
  LET r == vs_write_all_volatile_to(st, slice, 0, dst, slice.size)
  IN  IF IsOk(r.ret) THEN Done(r.st, r.io, Ok(slice.size)) ELSE r

gm_write(mem, st, buf, addr) == Over(WriteOne, mem, st, buf, addr, Len(buf))
gm_read(mem, st, len, addr) == Over(ReadOne, mem, st, <<>>, addr, len)
gm_read_volatile_from(mem, st, addr, src, count) == Over(FromOne, mem, st, src, addr, count)
gm_write_volatile_to(mem, st, addr, dst, count) == Over(ToOne, mem, st, dst, addr, count)

\* write_slice, read_slice and the exact and "all" variants: less than asked is an error.
Whole(r, count) == IF IsOk(r.ret) /\ r.ret.ok # count THEN [r EXCEPT !.ret = Err("PartialBuffer")] ELSE r

gm_write_slice(mem, st, buf, addr) == Whole(gm_write(mem, st, buf, addr), Len(buf))
gm_read_slice(mem, st, len, addr) == Whole(gm_read(mem, st, len, addr), len)
gm_read_exact_volatile_from(mem, st, addr, src, count) == Whole(gm_read_volatile_from(mem, st, addr, src, count), count)
gm_write_all_volatile_to(mem, st, addr, dst, count) == Whole(gm_write_volatile_to(mem, st, addr, dst, count), count)

\* Only the first slice is looked at.
gm_store(mem, st, val, addr) ==
  LET s == get_slices(mem, addr, Len(val))[1] IN IF IsOk(s) THEN vs_store(st, s.ok, val, 0) ELSE Done(st, NoIo, s)
gm_load(mem, st, addr, size_of) ==
  LET s == get_slices(mem, addr, size_of)[1] IN IF IsOk(s) THEN vs_load(st, s.ok, 0, size_of) ELSE s

\* try_access, with a callback that makes at most "most" bytes of progress at a time:
\* the guest addresses it is called for.  A pass of its loop is at cur.
try_access(mem, count, addr, most) ==
  LET Visit(l) ==
        LET r == find_region(mem, l.cur)
            len == Min({r.ok.len - to_region_addr(r.ok, l.cur).ok, count - Len(l.visited), most})
            x == Advance(l.cur, len)
            all == l.visited \o [i \in 1 .. len |-> l.cur + i - 1]
        IN  IF ~IsOk(r) THEN [l EXCEPT !.ret = IF l.visited = <<>> THEN Err("InvalidGuestAddress") ELSE Ok(l.visited)]
            ELSE IF len = 0 \/ Len(all) = count THEN [l EXCEPT !.ret = Ok(all)]
            ELSE IF ~IsOk(x) THEN [l EXCEPT !.ret = x]
            ELSE [l EXCEPT !.cur = x.ok, !.visited = all]
      Pass[k \in 0 .. count + 1] ==
        IF k = 0 THEN [cur |-> addr, visited |-> <<>>, ret |-> Err("runs")]
        ELSE LET l == Pass[k - 1] IN IF l.ret = Err("runs") THEN Visit(l) ELSE l
  IN  Pass[count + 1].ret

-----------------------------------------------------------------------------
(* What accesses by guest address promise. *)

Present(mem, addr) == \E r \in Members(mem) : Holds(r, addr)

\* The host address of a guest address, by the region that holds it.
HostOf(mem, addr) == LET r == CHOOSE q \in Members(mem) : Holds(q, addr) IN r.host + addr - r.start

\* How many of the bytes from addr on are there without a gap.
Contiguous(mem, addr, count) == Max({n \in 0 .. count : \A a \in addr .. addr + n - 1 : Present(mem, a)})

\* get_slices yields the host bytes of the range, each once and in order, up to the
\* first that is not there, and an error exactly for that one; try_access visits the
\* same bytes however little progress its callback makes.
CoversExactly(mem, addr, count) ==
  LET items == get_slices(mem, addr, count)
      n == Contiguous(mem, addr, count)
      Hosts(item) == IF IsOk(item) THEN [i \in 1 .. item.ok.size |-> item.ok.addr + i - 1] ELSE <<>>
  IN  /\ FlattenSeq([i \in DOMAIN items |-> Hosts(items[i])]) = [i \in 1 .. n |-> HostOf(mem, addr + i - 1)]
      /\ \A i \in DOMAIN items : IsOk(items[i]) <=> ~(n < count /\ i = Len(items))
      /\ check_range(mem, addr, count) <=> n = count
      /\ \A most \in 1 .. 3 :
           count > 0 => try_access(mem, count, addr, most) =
                          IF n = 0 THEN Err("InvalidGuestAddress") ELSE Ok([i \in 1 .. n |-> addr + i - 1])

\* The whole memory's bytes are those at the addresses, and every page of theirs is
\* marked in the bitmap of its region.
StoredAt(mem, st, after, addresses) ==
  /\ {a \in DOMAIN st.bytes : st.bytes[a] # after.bytes[a]} = {HostOf(mem, a) : a \in addresses}
  /\ \A r \in Members(mem) :
       Dirty(after.maps[r.start]) =
         Dirty(st.maps[r.start]) \union {(a - r.start) \div PAGE_SIZE : a \in {x \in addresses : Holds(r, x)}}

\* What a write w, a read f from a source, a read back, a write to a destination out
\* and an atomic store a of the same data did, of which n bytes can be reached.
Transferred(mem, st, addr, data, n, w, f, back, out, a) ==
  LET one == \E r \in Members(mem) : Holds(r, addr) /\ Holds(r, addr + Len(data) - 1) /\ HostOf(mem, addr) % Len(data) = 0
  IN  /\ StoredAt(mem, st, w.st, addr .. addr + n - 1) /\ f.st = w.st
      /\ IsOk(w.ret) <=> n > 0
      /\ n > 0 => w.ret = Ok(n) /\ f.ret = Ok(n) /\ back.io = SubSeq(data, 1, n) /\ out.io.data = SubSeq(data, 1, n)
      /\ IsOk(gm_write_slice(mem, st, data, addr).ret) <=> n = Len(data)
      /\ IsOk(gm_read_slice(mem, st, Len(data), addr).ret) <=> n = Len(data)
      /\ IsOk(out.ret) <=> n = Len(data)
      /\ Len(data) \in {1, 2, 4} =>
           /\ IsOk(a.ret) <=> one
           /\ StoredAt(mem, st, a.st, IF one THEN addr .. addr + Len(data) - 1 ELSE {})
           /\ one => gm_load(mem, a.st, addr, Len(data)) = Ok(data)

\* Data goes to and comes from the guest addresses it was asked for, across regions
\* that touch and up to a gap; the count says how much of it; an atomic access
\* is within one region or refused.
TransfersAcross(mem, st, addr, data) ==
  LET Checked(w) ==
        Transferred(mem, st, addr, data, Contiguous(mem, addr, Len(data)), w,
                    gm_read_volatile_from(mem, st, addr, [NoIo EXCEPT !.data = data], Len(data)),
                    gm_read(mem, w.st, Len(data), addr),
                    gm_write_all_volatile_to(mem, w.st, addr, NoIo, Len(data)),
                    gm_store(mem, st, data, addr))
  IN  Checked(gm_write(mem, st, data, addr))

=============================================================================
