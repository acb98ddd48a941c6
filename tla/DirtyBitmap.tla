---------------------------- MODULE DirtyBitmap ----------------------------
(***************************************************************************)
(* The dirty-page bitmap of the vendored crate vm-memory:                  *)
(* bitmap/backend/atomic_bitmap.rs (AtomicBitmap) and slice.rs (BaseSlice).*)
(* A bitmap is its words, its number of pages and the bytes they stand     *)
(* for; a word is the set of the positions of its bits that are one.  A    *)
(* BaseSlice is the bitmap it is of and base_offset.                       *)
(***************************************************************************)
EXTENDS Integers, Sequences

CONSTANTS WORD_BITS, \* u64::BITS
          PAGE_SIZE, \* bytes to a page
          USIZE_MAX  \* usize::MAX

div_ceil(a, b) == (a + b - 1) \div b

wrapping_add(a, b) == (a + b) % (USIZE_MAX + 1)

saturating_add(a, b) == IF a + b > USIZE_MAX THEN USIZE_MAX ELSE a + b

new_bitmap(byte_size) ==
  LET pages == div_ceil(byte_size, PAGE_SIZE)
  IN  [map |-> [w \in 1 .. div_ceil(pages, WORD_BITS) |-> {}], size |-> pages, byte_size |-> byte_size]

\* resize_with keeps the words there are and adds words of zeroes.
enlarge(b, additional_size) ==
  LET bytes == b.byte_size + additional_size
      pages == div_ceil(bytes, PAGE_SIZE)
  IN  [map |-> [w \in 1 .. div_ceil(pages, WORD_BITS) |-> IF w <= Len(b.map) THEN b.map[w] ELSE {}],
       size |-> pages, byte_size |-> bytes]

Word(n) == n \div WORD_BITS + 1
Bit(n) == n % WORD_BITS

is_bit_set(b, n) == n < b.size /\ Bit(n) \in b.map[Word(n)]

is_addr_set(b, addr) == is_bit_set(b, addr \div PAGE_SIZE)

\* The bits of the pages, in their words, become one or zero.
Put(b, pages, is_set) ==
  [b EXCEPT !.map = [w \in DOMAIN b.map |->
     LET bits == {Bit(n) : n \in {p \in pages : Word(p) = w}}
     IN  IF is_set THEN b.map[w] \union bits ELSE b.map[w] \ bits]]

\* Pages from the one of the first byte to the one of the last.  The sum
\* saturates; pages past the end are left out.
set_reset_addr_range(b, start_addr, len, is_set) ==
  IF len = 0 THEN b
  ELSE LET first_bit == start_addr \div PAGE_SIZE
           last_bit == saturating_add(start_addr, len - 1) \div PAGE_SIZE
       IN  Put(b, {n \in first_bit .. last_bit : n < b.size}, is_set)

set_addr_range(b, start_addr, len) == set_reset_addr_range(b, start_addr, len, TRUE)
reset_addr_range(b, start_addr, len) == set_reset_addr_range(b, start_addr, len, FALSE)

set_bit(b, n) == IF n >= b.size THEN b ELSE Put(b, {n}, TRUE)
reset_bit(b, n) == IF n >= b.size THEN b ELSE Put(b, {n}, FALSE)

\* Every word is fetched and zeroed.
get_and_reset(b) == [words |-> b.map, bitmap |-> [b EXCEPT !.map = [w \in DOMAIN b.map |-> {}]]]

reset_bitmap(b) == [b EXCEPT !.map = [w \in DOMAIN b.map |-> {}]]

\* BaseSlice: offsets are from base_offset, and wrap.
slice_at(base_offset, offset_) == wrapping_add(base_offset, offset_)

mark_dirty(b, base_offset, offset_, len) == set_addr_range(b, wrapping_add(base_offset, offset_), len)

dirty_at(b, base_offset, offset_) == is_addr_set(b, wrapping_add(base_offset, offset_))

-----------------------------------------------------------------------------
(* What the bitmap promises, for one bitmap and one call. *)

Dirty(b) == {n \in 0 .. b.size - 1 : is_bit_set(b, n)}

\* The pages of a bitmap that hold a byte of the range: a byte of a page is at an
\* address of a usize, whatever the sum of start and len.
Touched(b, start_addr, len) ==
  {a \div PAGE_SIZE : a \in {x \in 0 .. b.size * PAGE_SIZE - 1 : x >= start_addr /\ x - start_addr < len /\ x <= USIZE_MAX}}

ExactlyTouched(b, start_addr, len) ==
  /\ Dirty(set_addr_range(b, start_addr, len)) = Dirty(b) \union Touched(b, start_addr, len)
  /\ Dirty(reset_addr_range(b, start_addr, len)) = Dirty(b) \ Touched(b, start_addr, len)

\* Growing keeps what is dirty and adds clean pages; what is collected is
\* what was dirty, and is not there a second time.
KeptAndCollectedOnce(b, additional_size) ==
  LET big == enlarge(b, additional_size)
      all == set_addr_range(big, 0, big.byte_size)
      got == get_and_reset(all)
  IN  /\ Dirty(big) = Dirty(b)
      /\ Dirty(all) = 0 .. big.size - 1
      /\ UNION {{(w - 1) * WORD_BITS + k : k \in got.words[w]} : w \in DOMAIN got.words} = Dirty(all)
      /\ Dirty(got.bitmap) = {}
=============================================================================
