--------------------------- MODULE VolatileMemory ---------------------------
(***************************************************************************)
(* VolatileSlice of the vendored crate vm-memory (volatile_memory.rs), with *)
(* its array and atomic references and its copies.                          *)
(*                                                                          *)
(* A slice is a host address, a size, the region rg whose bitmap it marks   *)
(* and its base_offset bm there.  A memory st is the bytes at the host       *)
(* addresses and the bitmaps of the regions.  An operation that changes it   *)
(* returns the new one next to its result, Ok(value) or Err(name).          *)
(***************************************************************************)
EXTENDS DirtyBitmap, RegionCollection, FiniteSetsExt

CONSTANTS ISIZE_MAX, \* isize::MAX
          U32_MAX    \* u32::MAX, the largest request that ReadFile, WriteFile, WSARecv and WSASend take

compute_offset(base, count) == IF base + count > USIZE_MAX THEN Err("Overflow") ELSE Ok(base + count)

compute_end_offset(s, base, count) ==
  LET mem_end == compute_offset(base, count)
  IN  IF IsOk(mem_end) /\ mem_end.ok > s.size THEN Err("OutOfBounds") ELSE mem_end

with_bitmap(addr, size, rg, bm) == [addr |-> addr, size |-> size, rg |-> rg, bm |-> bm]

subslice_KeepsBitmap(s, from, count) ==
  LET end == compute_end_offset(s, from, count)
  IN  IF IsOk(end) THEN Ok(with_bitmap(s.addr + from, count, s.rg, s.bm)) ELSE end

\* Also get_slice.
subslice(s, from, count) ==
  LET end == compute_end_offset(s, from, count)
  IN  IF IsOk(end) THEN Ok(with_bitmap(s.addr + from, count, s.rg, slice_at(s.bm, from))) ELSE end

offset(s, count) ==
  IF s.addr + count > USIZE_MAX THEN Err("Overflow")
  ELSE IF count > s.size THEN Err("OutOfBounds")
  ELSE Ok(with_bitmap(s.addr + count, s.size - count, s.rg, slice_at(s.bm, count)))

split_at(s, mid) ==
  LET end == offset(s, mid)
  IN  IF IsOk(end) THEN Ok(<<with_bitmap(s.addr, mid, s.rg, s.bm), end.ok>>) ELSE end

get_ref(s, from, size_of) == subslice(s, from, size_of)

\* VolatileArrayRef: n elements of size_of bytes.
get_array_ref(s, from, n, size_of) ==
  IF n > ISIZE_MAX \/ n * size_of > ISIZE_MAX THEN Err("TooBig")
  ELSE LET slice == subslice(s, from, n * size_of)
       IN  IF IsOk(slice) THEN Ok([slice |-> slice.ok, nelem |-> n, element_size |-> size_of]) ELSE slice

to_slice(array) == [array.slice EXCEPT !.size = array.nelem * array.element_size]

ref_at(array, index) ==
  LET byteofs == array.element_size * index
  IN  with_bitmap(array.slice.addr + byteofs, array.element_size, array.slice.rg, slice_at(array.slice.bm, byteofs))

check_alignment(s, align) == IF s.addr % align # 0 THEN Err("Misaligned") ELSE Ok(s)

\* Also aligned_as_ref and aligned_as_mut.  The integers are aligned to their size.
get_atomic_ref(s, from, size_of) ==
  LET slice == subslice(s, from, size_of)
  IN  IF IsOk(slice) THEN check_alignment(slice.ok, size_of) ELSE slice

-----------------------------------------------------------------------------
(* Copies. *)

alignment(addr) == CHOOSE w \in {2^k : k \in 0 .. 6} : addr % w = 0 /\ addr % (2 * w) # 0

\* The accesses of copy_aligned_slice(8), (4), (2) and (1), as offsets and widths.
copy_slice_volatile(dst, src, total) ==
  LET align == Min({alignment(src), alignment(dst)})
      Walk[k \in 0 .. 3, at \in 0 .. total] ==
        IF align >= 2^k /\ total - at >= 2^k THEN <<[at |-> at, width |-> 2^k]>> \o Walk[k, at + 2^k]
        ELSE IF k = 0 THEN <<>> ELSE Walk[k - 1, at]
  IN  Walk[3, 0]

\* "copy_nonoverlapping" of more than a word is one access of no promised width.
copy_slice(dst, src, total) ==
  IF total <= 8 THEN copy_slice_volatile(dst, src, total) ELSE <<[at |-> 0, width |-> total]>>

Held(st, s, n) == [i \in 1 .. n |-> st.bytes[s.addr + i - 1]]

\* The first n bytes of data at the front of the slice, and its bitmap marked.
StoreAndMark(st, s, data, n) ==
  [bytes |-> [a \in DOMAIN st.bytes |-> IF a \in s.addr .. s.addr + n - 1 THEN data[a - s.addr + 1] ELSE st.bytes[a]],
   maps |-> [st.maps EXCEPT ![s.rg] = mark_dirty(@, s.bm, 0, n)]]

\* copy_from and copy_to: whole elements, as many as both sides have.  data is the
\* buffer's bytes.
copy_from(st, s, data, size_of) ==
  StoreAndMark(st, s, data, size_of * Min({Len(data) \div size_of, s.size \div size_of}))

copy_to(st, s, len, size_of) == Held(st, s, size_of * Min({len, s.size \div size_of}))

copy_to_volatile_slice(st, s, slice) ==
  LET count == Min({s.size, slice.size}) IN StoreAndMark(st, slice, Held(st, s, count), count)

\* VolatileRef: the slice of one element; VolatileArrayRef: its elements one by one.
ref_store(st, ref, v) == StoreAndMark(st, ref, v, ref.size)
ref_load(st, ref) == Held(st, ref, ref.size)
array_store(st, array, index, value) == ref_store(st, ref_at(array, index), value)
array_load(st, array, index) == ref_load(st, ref_at(array, index))

array_copy_from(st, array, data) ==
  StoreAndMark(st, to_slice(array), data, array.element_size * Min({Len(data) \div array.element_size, array.nelem}))

array_copy_to(st, array, len) == Held(st, to_slice(array), array.element_size * Min({len, array.nelem}))

array_copy_to_volatile_slice(st, array, slice) ==
  LET count == Min({array.nelem * array.element_size, slice.size})
  IN  StoreAndMark(st, slice, Held(st, array.slice, count), count)

-----------------------------------------------------------------------------
(* What slices promise. *)

Span(s) == s.addr .. s.addr + s.size - 1

\* The slices that one call makes of s, for arguments up to one past its size and
\* the largest usize.
Derived(s) ==
  LET args == 0 .. s.size + 1 \union {USIZE_MAX}
      parts == {offset(s, n) : n \in args} \union {subslice(s, n, m) : n, m \in args}
      halves == {h \in {split_at(s, n) : n \in args} : IsOk(h)}
      arrays == {a \in {get_array_ref(s, n, m, 2) : n, m \in args} : IsOk(a)}
  IN  {r.ok : r \in {x \in parts : IsOk(x)}} \union UNION {{h.ok[1], h.ok[2]} : h \in halves}
        \union {to_slice(a.ok) : a \in arrays} \union UNION {{ref_at(a.ok, i) : i \in 0 .. a.ok.nelem - 1} : a \in arrays}

\* A slice made of root's lies inside it, marks the page that its bytes are in,
\* and asking for bytes that are all there does not fail.
InsideAndAligned(root, s) ==
  /\ Span(s) \subseteq Span(root)
  /\ s.bm - root.bm = s.addr - root.addr
  /\ \A n \in 0 .. s.size : IsOk(offset(s, n)) /\ \A m \in 0 .. s.size - n : IsOk(subslice(s, n, m))

\* The bytes that the memories differ in are the addresses given, and the pages of
\* exactly those bytes have become dirty.  base is the host address of the region.
ChangedAndMarked(st, after, rg, base, addresses) ==
  /\ {a \in DOMAIN st.bytes : st.bytes[a] # after.bytes[a]} = addresses
  /\ Dirty(after.maps[rg]) = Dirty(st.maps[rg]) \union {(a - base) \div PAGE_SIZE : a \in addresses}

\* Elements copied into a slice, as such or as an array, are whole, in order, read back,
\* and marked; so are those that one half of a slice gets from the other.
ElementsCopied(st, root, s, data, size_of) ==
  LET elements == Len(data) \div size_of
      array == get_array_ref(s, 0, s.size \div size_of, size_of).ok
      n == size_of * Min({elements, array.nelem})
      after == copy_from(st, s, data, size_of)
      halves == split_at(s, s.size \div 2).ok
      half == copy_to_volatile_slice(st, halves[1], halves[2])
      Element(i) == SubSeq(data, i * size_of + 1, (i + 1) * size_of)
  IN  /\ ChangedAndMarked(st, after, s.rg, root.addr, s.addr .. s.addr + n - 1)
      /\ copy_to(after, s, elements, size_of) = SubSeq(data, 1, n)
      /\ array_copy_from(st, array, data) = after
      /\ array_copy_to(after, array, elements) = SubSeq(data, 1, n)
      /\ \A i \in 0 .. Min({elements, array.nelem}) - 1 :
           /\ array_load(after, array, i) = Element(i)
           /\ LET one == array_store(st, array, i, Element(i))
              IN  ChangedAndMarked(st, one, s.rg, root.addr, Span(ref_at(array, i))) /\ array_load(one, array, i) = Element(i)
      /\ ChangedAndMarked(st, half, s.rg, root.addr, halves[2].addr .. halves[2].addr + s.size \div 2 - 1)
      /\ Held(half, halves[2], s.size \div 2) = Held(st, halves[1], s.size \div 2)
      /\ size_of = 1 => array_copy_to_volatile_slice(st, get_array_ref(halves[1], 0, s.size \div 2, 1).ok, halves[2]) = half

\* copy_slice: every byte once, each access at an address that both sides allow, and
\* a word that both sides have aligned in a single access.
CopiesEachByteOnce(dst, src, total) ==
  LET accesses == copy_slice_volatile(dst, src, total)
      Bytes_(a) == a.at .. a.at + a.width - 1
  IN  /\ UNION {Bytes_(accesses[i]) : i \in DOMAIN accesses} = 0 .. total - 1
      /\ \A i, j \in DOMAIN accesses : i # j => Bytes_(accesses[i]) \intersect Bytes_(accesses[j]) = {}
      /\ \A i \in DOMAIN accesses : (dst + accesses[i].at) % accesses[i].width = 0 /\ (src + accesses[i].at) % accesses[i].width = 0
      /\ (total \in {1, 2, 4, 8} /\ dst % total = 0 /\ src % total = 0) => Len(accesses) = 1

=============================================================================
